------------------------------ MODULE Services ------------------------------
(***************************************************************************)
(* Three services around the core that share no state with each other,     *)
(* each the whole of a behaviour: programs that start, find each other and *)
(* stop, those who watch the workers, and the virtual device with the      *)
(* commands that set it.  Their properties say what must happen in the end.*)
(***************************************************************************)
EXTENDS Startup, Watchers, DeviceCli

VARIABLE service    (* the service this behaviour is of *)

servicesVars == <<service, startupVars, watchVars, deviceVars>>

ServicesInit ==
    /\ service \in {"startup", "watchers", "device"}
    /\ StartupInit /\ (service # "startup" => runs = CHOOSE l \in Layouts : TRUE)
    /\ WatchInit /\ (service = "watchers" <=> ~down)
    /\ DeviceInit /\ (service # "device" => ~up)

Of(name) == service = name /\ UNCHANGED service

StartupPart  == Of("startup") /\ StartupNext /\ UNCHANGED <<watchVars, deviceVars>>
WatchersPart == Of("watchers") /\ WatchNext /\ UNCHANGED <<startupVars, deviceVars>>
DevicePart   == Of("device") /\ DeviceNext /\ UNCHANGED <<startupVars, watchVars>>

ServicesNext == StartupPart \/ WatchersPart \/ DevicePart

(* What does not run needs no fairness: nothing has been started, the core *)
(* is down, or no command has been given, so that none of it is enabled.   *)
ServicesSpec == ServicesInit /\ [][ServicesNext]_servicesVars
                /\ Fairness /\ WatchFairness /\ DeviceFairness
=============================================================================
