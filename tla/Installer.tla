------------------------------ MODULE Installer ------------------------------
(***************************************************************************)
(* What the installers do to the system's DLLs:                            *)
(*   InstallICD, UninstallICD   pkg/installer, "distribox install"         *)
(*   HandleICDInstall, HandleICDUninstall, HandleGLProxyInstall            *)
(*                              buttons of the dashboard,                  *)
(*                              vgpu/server/dashboard.go                   *)
(* Each is a list of steps on files, and a step may fail: the file is in   *)
(* use, or the disk is full half-way.  Nobody looks at the outcome of a    *)
(* step before going on to the next.  A proxy DLL hands on to the backup   *)
(* of the DLL it stands for, so that backup must be the vendor's.          *)
(***************************************************************************)
EXTENDS Naturals, Sequences

CONSTANTS
    Jobs,     (* runs of an installer that may be under way at one time    *)
    MaxRuns   (* bound on the runs                                         *)

VARIABLES
    files,       (* files[f]: what is under that name                      *)
    vendors,     (* DLLs of a vendor there at the start                    *)
    pending,     (* a rename of opengl32.dll is left to the next start     *)
    job,         (* job[j]: steps it still has to do                       *)
    test,        (* test[j]: what it saw of the backup it may make         *)
    started,     (* runs so far                                            *)
    failed,      (* ghost: a step failed                                   *)
    overlapped   (* ghost: two runs were under way at one time             *)

filesVars == <<files, vendors, pending, job, test, started, failed, overlapped>>

Dlls == {"OpenCL", "nvcuda", "opengl32"}
BackupOf == [OpenCL |-> "OpenCL_orig", nvcuda |-> "nvcuda_orig", opengl32 |-> "opengl32_orig"]
Backups == {BackupOf[d] : d \in Dlls}
Names == Dlls \cup Backups \cup {"opengl32_proxy", "build"}

FilesInit ==
    /\ vendors \in SUBSET Dlls
    /\ files = [f \in Names |-> IF f \in vendors THEN "vendor"
                                ELSE IF f = "build" THEN "proxy" ELSE "none"]
    /\ pending = FALSE
    /\ job = [j \in Jobs |-> <<>>]
    /\ test = [j \in Jobs |-> FALSE]
    /\ started = 0
    /\ failed = FALSE
    /\ overlapped = FALSE
----------------------------------------------------------------------------
(* The steps: <<what, from, to>>.  A backup is two of them: the test that  *)
(* there is none yet, and the copy.                                        *)
Copy(from, to) == <<"copy", from, to>>
SlipBackup(d) == <<Copy(d, BackupOf[d])>>   (* also over an older backup *)
Backup(d) == <<<<"test", d, BackupOf[d]>>, <<"keep", d, BackupOf[d]>>>>

InstallICD == Backup("nvcuda") \o <<Copy("build", "nvcuda")>>
UninstallICD == <<<<"test", "nvcuda_orig", "none">>, <<"restore", "nvcuda_orig", "nvcuda">>,
                  <<"remove", "nvcuda_orig", "none">>>>
HandleICDInstall == Backup("OpenCL") \o <<Copy("build", "OpenCL")>>
HandleICDUninstall == <<<<"test", "OpenCL_orig", "none">>, <<"restore", "OpenCL_orig", "OpenCL">>>>
HandleGLProxyInstall == Backup("opengl32") \o
                        <<Copy("build", "opengl32_proxy"), <<"rename", "opengl32_proxy", "opengl32">>>>

Scripts == {InstallICD, UninstallICD, HandleICDInstall, HandleICDUninstall, HandleGLProxyInstall}

Begin(j, script) ==
    /\ job[j] = <<>> /\ started < MaxRuns
    /\ job' = [job EXCEPT ![j] = script]
    /\ started' = started + 1
    /\ overlapped' = (overlapped \/ \E k \in Jobs : job[k] # <<>>)
    /\ UNCHANGED <<files, vendors, pending, test, failed>>

There(f) == f \in Names /\ files[f] # "none"
Done(j) == job' = [job EXCEPT ![j] = Tail(@)]
Step(j, what) == job[j] # <<>> /\ Head(job[j])[1] = what
From(j) == Head(job[j])[2]
To(j) == Head(job[j])[3]

(* backupFile and Test-Path: something to copy, and nothing there yet; or  *)
(* a backup to restore.                                                    *)
Test(j) ==
    /\ Step(j, "test")
    /\ Done(j)
    /\ test' = [test EXCEPT ![j] = There(From(j)) /\ ~There(To(j))]
    /\ UNCHANGED <<files, vendors, pending, started, failed, overlapped>>

Writes(j) == Step(j, "copy") \/ (test[j] /\ (Step(j, "keep") \/ Step(j, "restore")))

Write(j) ==
    /\ Writes(j) /\ There(From(j))
    /\ Done(j)
    /\ files' = [files EXCEPT ![To(j)] = files[From(j)]]
    /\ UNCHANGED <<vendors, pending, test, started, failed, overlapped>>

(* The file is in use and stays as it is, or it is cut short.              *)
WriteFails(j) ==
    /\ Writes(j) /\ ~failed
    /\ Done(j)
    /\ \E rest \in {files[To(j)], "partial"} : files' = [files EXCEPT ![To(j)] = rest]
    /\ failed' = TRUE
    /\ UNCHANGED <<vendors, pending, test, started, overlapped>>

(* Nothing to keep or to restore, or nothing to copy.                      *)
Skip(j) ==
    /\ \/ ~test[j] /\ (Step(j, "keep") \/ Step(j, "restore") \/ Step(j, "remove"))
       \/ Writes(j) /\ ~There(From(j))
    /\ Done(j)
    /\ UNCHANGED <<files, vendors, pending, test, started, failed, overlapped>>

RemoveBackup(j) ==
    /\ Step(j, "remove") /\ test[j]
    /\ Done(j)
    /\ files' = [files EXCEPT ![From(j)] = "none"]
    /\ UNCHANGED <<vendors, pending, test, started, failed, overlapped>>

Rename(j) ==
    /\ Step(j, "rename")
    /\ Done(j)
    /\ pending' = TRUE
    /\ UNCHANGED <<files, vendors, test, started, failed, overlapped>>

(* The computer is switched off: the installers stop where they are, and   *)
(* Windows does the rename that is pending.                                *)
Reboot ==
    /\ started > 0
    /\ job' = [j \in Jobs |-> <<>>]
    /\ pending' = FALSE
    /\ files' = IF pending /\ There("opengl32_proxy")
                THEN [files EXCEPT !["opengl32"] = files["opengl32_proxy"], !["opengl32_proxy"] = "none"]
                ELSE files
    /\ UNCHANGED <<vendors, test, started, failed, overlapped>>

FilesNext ==
    \/ \E j \in Jobs : \/ \E script \in Scripts : Begin(j, script)
                       \/ Test(j) \/ Write(j) \/ WriteFails(j) \/ Skip(j) \/ RemoveBackup(j) \/ Rename(j)
    \/ Reboot
----------------------------------------------------------------------------
(* As long as installers run one at a time and no step of them fails, a    *)
(* vendor's DLL is never lost, however often they are run, in whatever     *)
(* order, and between whatever two steps they are cut off: it is in its    *)
(* place, or it is the backup that the proxy in its place hands on to.  So *)
(* "System DLLs restored" is true when UninstallICD has removed a backup.  *)
VendorKept == ~failed /\ ~overlapped =>
    \A d \in vendors : files[d] = "vendor" \/ (files[d] = "proxy" /\ files[BackupOf[d]] = "vendor")
=============================================================================
