---------------------------- MODULE MCServices ----------------------------
(* Three processes on two computers, in four layouts: every program with   *)
(* those it may find or be in the way of.  Two event streams, one command  *)
(* at a time, and two workers that come and go.                            *)
EXTENDS Services

CONSTANTS p1, p2, p3, pc, laptop, phone, tablet

Three == {p1, p2, p3}
Run(kind, host) == [kind |-> kind, host |-> host]
Layout(a, b, c) == [p \in Three |-> IF p = p1 THEN a ELSE IF p = p2 THEN b ELSE c]

Pairs == {Layout(Run("full", pc), Run("core", pc), Run("simple", pc)),
          Layout(Run("full", pc), Run("full", laptop), Run("worker", laptop)),
          Layout(Run("vgpu", pc), Run("full", laptop), Run("worker", pc)),
          Layout(Run("core", pc), Run("worker", pc), Run("worker", pc))}

MCInfoOf == [n \in {phone, tablet} |-> IF n = phone THEN [ram |-> 16, gpu |-> TRUE, fast |-> FALSE]
                                      ELSE [ram |-> 128, gpu |-> FALSE, fast |-> TRUE]]
MCRanking == <<tablet, phone>>
=============================================================================
