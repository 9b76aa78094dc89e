----------------------------- MODULE Calibration -----------------------------
(***************************************************************************)
(* What the workers are taken for: vgpu/calibrate/calibrate.go.  The core  *)
(* adds up what its workers seem to have and calls the sum by the name of  *)
(* the NVIDIA card it is most like.                                        *)
(*                                                                         *)
(* A worker is [ram, gpu, fast]: AvailableRAM, HasGPU and whether its      *)
(* score is above 1.5.  Memory is counted in units of 256 MB, arithmetic   *)
(* speed in units of 0.05 TFLOPS, and ratios in ten thousandths, where the *)
(* code has floating point.                                                *)
(***************************************************************************)
EXTENDS Integers, Sequences
LOCAL INSTANCE SequencesExt
LOCAL INSTANCE FiniteSetsExt

Clamp(low, n, high) == Max({low, Min({n, high})})

(* A GPU gives half of its memory, from 512 MB to 8 GB; a processor has a  *)
(* core for each 2 GB, and gives a quarter of at least 1 GB.               *)
estimateWorker(w) ==
    LET units == IF w.fast THEN 16 ELSE 8
        cores == Clamp(2, w.ram \div 8, 32)
    IN  IF w.gpu THEN [vram |-> Clamp(2, w.ram \div 2, 32), units |-> units, tflops |-> 7 * units]
        ELSE [vram |-> Max({4, w.ram}) \div 4, units |-> cores \div 4, tflops |-> 2 * cores]

(* The workers one by one, fastest first.  A processor brings the units of *)
(* the sum to one at least, so their order makes a difference.             *)
Add(sum, w) ==
    LET pf == estimateWorker(w)
        units == sum.units + pf.units
    IN  [vram |-> sum.vram + pf.vram, tflops |-> sum.tflops + pf.tflops,
         units |-> IF w.gpu THEN units ELSE Max({1, units})]

aggregate(ws) ==
    LET sum == FoldLeft(Add, [vram |-> 0, units |-> 0, tflops |-> 0], ws)
    IN  [sum EXCEPT !.vram = Max({2, @}), !.units = Max({2, @})]

(* The last column: the card is of the tier "enthusiast".                  *)
Card(name, vram, units, tflops, top) ==
    [name |-> name, vram |-> vram, units |-> units, tflops |-> tflops, top |-> top]
nvidiaDB == {
    Card("GT 1030", 8, 3, 22, FALSE),       Card("GTX 1050", 8, 5, 36, FALSE),
    Card("GTX 1050 Ti", 16, 6, 42, FALSE),  Card("GTX 1060", 24, 10, 88, FALSE),
    Card("GTX 1070", 32, 15, 130, FALSE),   Card("GTX 1080", 32, 20, 178, FALSE),
    Card("GTX 1080 Ti", 44, 28, 226, FALSE), Card("RTX 2060", 24, 30, 130, FALSE),
    Card("RTX 2070", 32, 36, 150, FALSE),   Card("RTX 2080", 32, 46, 202, FALSE),
    Card("RTX 3060", 48, 28, 254, FALSE),   Card("RTX 3070", 32, 46, 406, FALSE),
    Card("RTX 3080", 40, 68, 596, TRUE),    Card("RTX 3090", 96, 82, 712, TRUE),
    Card("RTX 4090", 96, 128, 1652, TRUE)}

Unlike(a, b) == IF a > b THEN ((a - b) * 10000) \div a ELSE ((b - a) * 10000) \div b
Score(card, p) ==
    5 * Unlike(card.tflops, p.tflops) + 3 * Unlike(card.vram, p.vram) + 2 * Unlike(card.units, p.units)

(* The most alike; of those that are equally so, any the sort may put      *)
(* first.                                                                  *)
Closest(cards, p) == {c \in cards : \A d \in cards : Score(c, p) <= Score(d, p)}
ClosestElse(card, cards, p) == IF cards = {} THEN {card} ELSE Closest(cards, p)

(* A card that is much too fast for the workers, or much too slow, gives   *)
(* way to one that is less so.                                             *)
StepDown(card, p) ==
    IF 10 * p.tflops >= 6 * card.tflops THEN {card}
    ELSE ClosestElse(card, {c \in nvidiaDB : /\ 2 * c.tflops <= 3 * p.tflops
                                             /\ 2 * c.tflops >= p.tflops}, p)
StepUp(card, p) ==
    IF 10 * p.tflops <= 18 * card.tflops \/ card.top THEN {card}
    ELSE ClosestElse(card, {c \in nvidiaDB : /\ c.tflops > card.tflops
                                             /\ 2 * c.tflops <= 3 * p.tflops}, p)

(* Memory and units are those of the workers.                              *)
findBestMatch(p) ==
    LET chosen == UNION {StepUp(card, p) : card \in UNION {StepDown(c, p) : c \in Closest(nvidiaDB, p)}}
    IN  {[card EXCEPT !.vram = p.vram, !.units = p.units] : card \in chosen}
=============================================================================
