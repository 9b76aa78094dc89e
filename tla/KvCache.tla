------------------------------- MODULE KvCache -------------------------------
(***************************************************************************)
(* KVCache, vgpu/mem/kvcache.go: the keys of the tokens seen so far, for   *)
(* each layer (heads are alike, and the values are kept like the keys).    *)
(* Store and Clear hold the lock throughout; GetKeys takes it twice, once  *)
(* for the length and once for the contents.  A vector has HeadDim numbers,*)
(* but Store writes as many as it is given.                                *)
(***************************************************************************)
EXTENDS Integers, Sequences

CONSTANTS
    Layers,       (* NumLayers                                             *)
    MaxSeqLen,    (* positions                                             *)
    HeadDim,      (* numbers in a vector                                   *)
    Readers,      (* goroutines in GetKeys                                 *)
    MaxStores     (* bound: each store writes a number of its own          *)

(* A configuration has positions and dimensions of a vector.               *)
ASSUME KvAssumption == MaxSeqLen \in Nat /\ HeadDim \in Nat \ {0}

VARIABLES
    cache,    (* cache[l]: kCache of layer l, HeadDim numbers a position   *)
    seqLen,   (* positions cached, of whatever layer                       *)
    stores,   (* stores so far; the number the next one writes             *)
    reader,   (* reader[r]: the layer it reads and the length it has read; *)
              (*   held, a ghost: the positions stored by then             *)
    got,      (* got[r]: what it returned                                  *)
    epoch,    (* ghost: stores made before the last Clear                  *)
    last,     (* ghost: last[l][p]: the last store there since             *)
    spilled   (* ghost: a vector was longer than HeadDim                   *)

kvVars == <<cache, seqLen, stores, reader, got, epoch, last, spilled>>

Cells == 0..(MaxSeqLen * HeadDim - 1)
Positions == 0..(MaxSeqLen - 1)
Zeros == [i \in Cells |-> 0]
Nowhere == [at |-> "idle", length |-> 0, held |-> {}]

KvInit ==
    /\ cache = [l \in Layers |-> Zeros]
    /\ seqLen = 0
    /\ stores = 0
    /\ reader = [r \in Readers |-> Nowhere]
    /\ got = [r \in Readers |-> <<>>]
    /\ epoch = 0
    /\ last = [l \in Layers |-> [p \in Positions |-> 0]]
    /\ spilled = FALSE
----------------------------------------------------------------------------
(* Store, of a vector of size numbers: too long a one goes on into the     *)
(* next positions, and what is past the end is left out.                   *)
SlipGrow(pos) == pos + 1
Grow(pos) == IF pos + 1 > seqLen THEN pos + 1 ELSE seqLen

Written(pos, size) == {i \in Cells : i >= pos * HeadDim /\ i < pos * HeadDim + size}
StoreVectors(l, pos, size) ==
    /\ stores < MaxStores
    /\ stores' = stores + 1
    /\ cache' = [cache EXCEPT ![l] = [i \in Cells |-> IF i \in Written(pos, size) THEN stores' ELSE @[i]]]
    /\ seqLen' = Grow(pos)
    /\ last' = [last EXCEPT ![l][pos] = stores']
    /\ spilled' = (spilled \/ size # HeadDim)
    /\ UNCHANGED <<reader, got, epoch>>

Erased == [l \in Layers |-> Zeros]
Clear ==
    /\ stores > epoch
    /\ seqLen' = 0
    /\ cache' = Erased
    /\ epoch' = stores
    /\ last' = [l \in Layers |-> [p \in Positions |-> 0]]
    /\ UNCHANGED <<stores, reader, got, spilled>>

(* The ghost: what has been stored by now must be covered.                 *)
Stored == {p \in Positions : \E l \in Layers : last[l][p] # 0}

GetKeys(r, l) ==
    /\ reader[r].at = "idle"
    /\ IF seqLen = 0
       THEN got' = [got EXCEPT ![r] = <<>>] /\ UNCHANGED reader
       ELSE /\ reader' = [reader EXCEPT ![r] = [at |-> l, length |-> seqLen, held |-> Stored]]
            /\ UNCHANGED got
    /\ UNCHANGED <<cache, seqLen, stores, epoch, last, spilled>>

Contents(r) ==
    /\ reader[r].at # "idle"
    /\ got' = [got EXCEPT ![r] = [n \in 1..(reader[r].length * HeadDim) |-> cache[reader[r].at][n - 1]]]
    /\ reader' = [reader EXCEPT ![r] = Nowhere]
    /\ UNCHANGED <<cache, seqLen, stores, epoch, last, spilled>>

KvNext ==
    \/ \E l \in Layers, pos \in Positions, size \in 1..(2 * HeadDim) : StoreVectors(l, pos, size)
    \/ Clear
    \/ \E r \in Readers : (\E l \in Layers : GetKeys(r, l)) \/ Contents(r)
----------------------------------------------------------------------------
(* A read takes the lock twice and another goroutine may store or clear in *)
(* between.  Still it never returns a number of a sequence that was        *)
(* cleared; it covers every position that had been stored when it began;   *)
(* and as long as all vectors have the right size, each of them is the     *)
(* last one stored there, or zero.                                         *)
Vector(seq, p) == {seq[p * HeadDim + n] : n \in 1..HeadDim}
Returns(r) == reader[r].at # "idle" /\ reader'[r].at = "idle"
ReadIsCurrent == [][\A r \in Readers : Returns(r) =>
    /\ \A n \in DOMAIN got'[r] : got'[r][n] = 0 \/ got'[r][n] > epoch
    /\ \A p \in reader[r].held : Len(got'[r]) >= (p + 1) * HeadDim
    /\ ~spilled => \A p \in 0..(reader[r].length - 1) : Vector(got'[r], p) = {last[reader[r].at][p]}]_kvVars
=============================================================================
