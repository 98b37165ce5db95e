---------------------------- MODULE GeckoProofs -----------------------------
(***************************************************************************)
(* Proofs about Gecko, for every set of sources, every range of numbers    *)
(* and chunk counts, all caps and lifetimes, and any length of run: that   *)
(* acceptChunk's books are exact, and that the obfuscator implements       *)
(* Datagrams.                                                              *)
(***************************************************************************)
EXTENDS Gecko, FiniteSetTheorems, TLAPS

(* The two maps acceptChunk keeps.                                         *)
Datum == Piece \cup {NoChunk}

EntryTyped(e) ==
  /\ e.total \in Chunks
  /\ e \in [key : Key, total : Chunks, deadline : Nat, chunks : [1..e.total -> Datum]]

OfSource(es, s) == {e \in es : e.key[1] = s}

TableOK(es, per) ==
  /\ \A e \in es : EntryTyped(e)
  /\ \A d, e \in es : d.key = e.key => d = e
  /\ IsFiniteSet(es) /\ Cardinality(es) <= MaxReassembly
  /\ per \in [Sources -> Nat]
  /\ \A s \in Sources : per[s] = Cardinality(OfSource(es, s)) /\ per[s] <= MaxPerSource

(* The clocks: gcLoop is never a period late, and once the conn is closed  *)
(* nothing is under way.                                                   *)
ClocksOK ==
  /\ clock \in Nat
  /\ gcLoop \in Nat \cup {Ended}
  /\ gcLoop # Ended => gcLoop <= clock /\ clock < gcLoop + GCEvery
  /\ gcLoop = Ended => wire = {}
  /\ count \in [Sources -> Nat]

(* The packets that were cut up are told apart by their place in the       *)
(* source's count.                                                         *)
PacketsOK ==
  \A s \in Sources, n \in Nat, total \in Chunks, at \in Nat :
    Payload(s, n, total, at) \in long \cup torn =>
      /\ n <= count[s]
      /\ \A more \in Chunks, then \in Nat :
           Payload(s, n, more, then) \in long \cup torn => then = at

(* A chunk of a packet of source s that has the number id, sent at lo or   *)
(* later; if it is the last one, the packet was written whole.             *)
PieceOK(x, s, id, i, total, lo) ==
  \E n \in Nat, at \in Nat :
    /\ x = <<s, n, i, at>> /\ id = msgID(n)
    /\ lo <= at /\ at <= clock
    /\ Payload(s, n, total, at) \in long \cup torn
    /\ i = total => Payload(s, n, total, at) \in long

FrameOK(f) ==
  /\ f.src \in Sources /\ f.id \in Numbers /\ f.total \in Chunks /\ f.idx \in 1..f.total
  /\ f.sent \in Nat /\ clock <= f.sent + LinkLife
  /\ PieceOK(f.data, f.src, f.id, f.idx, f.total, f.sent)

(* An entry is not much past its deadline, and holds chunks of packets of  *)
(* its source and number that were sent not long before it was begun, or   *)
(* since.                                                                  *)
EntryOK(e) ==
  /\ gcLoop # Ended => gcLoop <= e.deadline
  /\ e.deadline <= clock + TTL
  /\ \A i \in 1..e.total :
       e.chunks[i] = NoChunk \/ PieceOK(e.chunks[i], e.key[1], e.key[2], i, e.total,
                                        e.deadline - TTL - LinkLife)

IInv ==
  /\ ClocksOK
  /\ TableOK(reassembly, perSource)
  /\ PacketsOK
  /\ \A f \in wire : FrameOK(f)
  /\ \A e \in reassembly : EntryOK(e)
-----------------------------------------------------------------------------
(* Taking an entry out, and putting one in.                                *)
LEMMA Removed ==
  ASSUME GeckoAssumption, NEW es, NEW per, TableOK(es, per), NEW e \in es
  PROVE  /\ TableOK(es \ {e}, [per EXCEPT ![e.key[1]] = @ - 1])
         /\ Cardinality(es) \in Nat /\ Cardinality(es \ {e}) = Cardinality(es) - 1
         /\ e.key[1] \in Sources /\ per[e.key[1]] \in Nat \ {0}
<1> DEFINE src == e.key[1]
<1>1. src \in Sources
  BY DEF TableOK, EntryTyped, Key
<1>2. IsFiniteSet(es \ {e}) /\ Cardinality(es \ {e}) = Cardinality(es) - 1 /\ Cardinality(es) \in Nat
  BY FS_RemoveElement, FS_CardinalityType DEF TableOK
<1>3. \A s \in Sources : IsFiniteSet(OfSource(es, s)) /\ Cardinality(OfSource(es, s)) \in Nat
  BY FS_Subset, FS_CardinalityType DEF TableOK, OfSource
<1>4. /\ OfSource(es \ {e}, src) = OfSource(es, src) \ {e}
      /\ e \in OfSource(es, src)
      /\ \A s \in Sources : s # src => OfSource(es \ {e}, s) = OfSource(es, s)
  BY DEF OfSource
<1>5. Cardinality(OfSource(es, src) \ {e}) = Cardinality(OfSource(es, src)) - 1
      /\ Cardinality(OfSource(es, src) \ {e}) \in Nat
  BY <1>1, <1>3, <1>4, FS_RemoveElement, FS_CardinalityType
<1>6. per[src] \in Nat \ {0}
  BY <1>1, <1>3, <1>5 DEF TableOK
<1> HIDE DEF src
<1>7. [per EXCEPT ![src] = @ - 1] \in [Sources -> Nat]
  BY <1>1, <1>6 DEF TableOK
<1>8. ASSUME NEW s \in Sources
      PROVE  /\ [per EXCEPT ![src] = @ - 1][s] = Cardinality(OfSource(es \ {e}, s))
             /\ [per EXCEPT ![src] = @ - 1][s] <= MaxPerSource
  <2>1. /\ per[s] = Cardinality(OfSource(es, s)) /\ per[s] <= MaxPerSource
        /\ per \in [Sources -> Nat] /\ MaxPerSource \in Nat
    BY DEF TableOK, GeckoAssumption
  <2>2. CASE s = src
    <3>1. [per EXCEPT ![src] = @ - 1][src] = per[src] - 1
      BY <1>1, <2>1
    <3>2. Cardinality(OfSource(es \ {e}, src)) = Cardinality(OfSource(es, src)) - 1
      BY <1>4, <1>5
    <3>3. per[src] = Cardinality(OfSource(es, src)) /\ per[src] <= MaxPerSource
      BY <2>1, <2>2
    <3> QED
      BY <1>1, <1>6, <2>1, <2>2, <3>1, <3>2, <3>3
  <2>3. CASE s # src
    BY <1>1, <1>4, <2>1, <2>3
  <2> QED
    BY <2>2, <2>3
<1>9. TableOK(es \ {e}, [per EXCEPT ![src] = @ - 1])
  BY <1>2, <1>7, <1>8 DEF TableOK, GeckoAssumption
<1> QED
  BY <1>1, <1>2, <1>6, <1>9 DEF src

(* acceptChunk begins an entry, where both caps leave room for one.        *)
LEMMA Added ==
  ASSUME GeckoAssumption, NEW es, NEW per, TableOK(es, per), NEW e, EntryTyped(e),
         \A d \in es : d.key # e.key,
         Cardinality(es) < MaxReassembly, per[e.key[1]] < MaxPerSource
  PROVE  TableOK(es \cup {e}, [per EXCEPT ![e.key[1]] = @ + 1])
<1> DEFINE src == e.key[1]
<1>1. src \in Sources /\ per[src] \in Nat /\ e \notin es
  BY DEF TableOK, EntryTyped, Key
<1>2. /\ IsFiniteSet(es \cup {e}) /\ Cardinality(es \cup {e}) = Cardinality(es) + 1
      /\ Cardinality(es) \in Nat
  BY <1>1, FS_AddElement, FS_CardinalityType DEF TableOK
<1>3. \A s \in Sources : IsFiniteSet(OfSource(es, s)) /\ Cardinality(OfSource(es, s)) \in Nat
  BY FS_Subset, FS_CardinalityType DEF TableOK, OfSource
<1>4. /\ OfSource(es \cup {e}, src) = OfSource(es, src) \cup {e}
      /\ e \notin OfSource(es, src)
      /\ \A s \in Sources : s # src => OfSource(es \cup {e}, s) = OfSource(es, s)
  BY <1>1 DEF OfSource
<1>5. Cardinality(OfSource(es, src) \cup {e}) = Cardinality(OfSource(es, src)) + 1
  BY <1>1, <1>3, <1>4, FS_AddElement
<1>6. per[src] < MaxPerSource
  OBVIOUS
<1>10. \A d, g \in es \cup {e} : d.key = g.key => d = g
  BY DEF TableOK
<1> HIDE DEF src
<1>7. [per EXCEPT ![src] = @ + 1] \in [Sources -> Nat]
  BY <1>1 DEF TableOK
<1>8. ASSUME NEW s \in Sources
      PROVE  /\ [per EXCEPT ![src] = @ + 1][s] = Cardinality(OfSource(es \cup {e}, s))
             /\ [per EXCEPT ![src] = @ + 1][s] <= MaxPerSource
  <2>1. /\ per[s] = Cardinality(OfSource(es, s)) /\ per[s] <= MaxPerSource
        /\ per \in [Sources -> Nat] /\ MaxPerSource \in Nat
    BY DEF TableOK, GeckoAssumption
  <2>2. CASE s = src
    <3>1. [per EXCEPT ![src] = @ + 1][src] = per[src] + 1
      BY <1>1, <2>1
    <3>2. Cardinality(OfSource(es \cup {e}, src)) = Cardinality(OfSource(es, src)) + 1
      BY <1>4, <1>5
    <3>3. per[src] = Cardinality(OfSource(es, src)) /\ per[src] <= MaxPerSource
      BY <2>1, <2>2
    <3> QED
      BY <1>1, <1>6, <2>1, <2>2, <3>1, <3>2, <3>3
  <2>3. CASE s # src
    BY <1>1, <1>4, <2>1, <2>3
  <2> QED
    BY <2>2, <2>3
<1>11. Cardinality(es \cup {e}) <= MaxReassembly
  BY <1>2 DEF GeckoAssumption
<1>12. \A d \in es \cup {e} : EntryTyped(d)
  BY DEF TableOK
<1>9. TableOK(es \cup {e}, [per EXCEPT ![src] = @ + 1])
  BY <1>2, <1>7, <1>8, <1>10, <1>11, <1>12 DEF TableOK
<1> QED
  BY <1>9 DEF src

(* Filling an entry leaves the books as they are.                          *)
LEMMA Replaced ==
  ASSUME GeckoAssumption, NEW es, NEW per, TableOK(es, per), NEW e \in es,
         NEW g, EntryTyped(g), g.key = e.key
  PROVE  TableOK((es \ {e}) \cup {g}, per)
<1> DEFINE src == e.key[1]
           less == [per EXCEPT ![src] = @ - 1]
<1>1. /\ TableOK(es \ {e}, less) /\ Cardinality(es) \in Nat
      /\ Cardinality(es \ {e}) = Cardinality(es) - 1
      /\ src \in Sources /\ per[src] \in Nat \ {0}
  BY Removed
<1>2. \A d \in es \ {e} : d.key # g.key
  BY DEF TableOK
<1>3. Cardinality(es \ {e}) < MaxReassembly /\ less[src] < MaxPerSource
  BY <1>1 DEF TableOK, GeckoAssumption
<1>4. TableOK((es \ {e}) \cup {g}, [less EXCEPT ![g.key[1]] = @ + 1])
  BY <1>1, <1>2, <1>3, Added
<1>5. [less EXCEPT ![src] = @ + 1] = per
  <2>1. per \in [Sources -> Nat] /\ less \in [Sources -> Nat]
    BY <1>1 DEF TableOK
  <2>2. less[src] = per[src] - 1 /\ \A s \in Sources : s # src => less[s] = per[s]
    BY <1>1, <2>1
  <2>3. less[src] + 1 = per[src]
    BY <1>1, <2>2
  <2> HIDE DEF less, src
  <2>4. \A s \in Sources : [less EXCEPT ![src] = @ + 1][s] = per[s]
    BY <1>1, <2>1, <2>2, <2>3
  <2> QED
    BY <2>1, <2>4
<1> QED
  BY <1>4, <1>5

(* dropEntryLocked takes out the one entry of a key.                       *)
LEMMA DropEffect ==
  ASSUME NEW es, NEW per, TableOK(es, per), NEW e \in es
  PROVE  dropEntryLocked([es |-> es, per |-> per], e.key)
           = [es |-> es \ {e}, per |-> [per EXCEPT ![e.key[1]] = @ - 1]]
<1>1. Of(es, e.key) = {e}
  BY DEF Of, TableOK
<1> QED
  BY <1>1 DEF dropEntryLocked

(* gcExpired takes out any number of entries at once.                      *)
LEMMA RemovedAll ==
  ASSUME GeckoAssumption, NEW es, NEW per, TableOK(es, per), NEW dead \in SUBSET es
  PROVE  TableOK(es \ dead, [s \in Sources |->
                               per[s] - Cardinality({e \in dead : e.key[1] = s})])
<1>1. IsFiniteSet(es \ dead) /\ Cardinality(es \ dead) <= Cardinality(es)
      /\ Cardinality(es \ dead) \in Nat /\ Cardinality(es) \in Nat
  BY FS_Subset, FS_CardinalityType DEF TableOK
<1>2. ASSUME NEW s \in Sources
      PROVE  /\ per[s] - Cardinality({e \in dead : e.key[1] = s}) \in Nat
             /\ per[s] - Cardinality({e \in dead : e.key[1] = s})
                  = Cardinality(OfSource(es \ dead, s))
             /\ per[s] - Cardinality({e \in dead : e.key[1] = s}) <= MaxPerSource
  <2> DEFINE all == OfSource(es, s)
             gone == {e \in dead : e.key[1] = s}
  <2>1. OfSource(es \ dead, s) = all \ gone /\ all \cap gone = gone
    BY DEF OfSource
  <2>2. IsFiniteSet(all) /\ IsFiniteSet(gone) /\ IsFiniteSet(all \ gone)
    BY FS_Subset DEF TableOK, OfSource
  <2>3. Cardinality(all) \in Nat /\ Cardinality(gone) \in Nat /\ Cardinality(all \ gone) \in Nat
    BY <2>2, FS_CardinalityType
  <2>4. Cardinality(all \ gone) = Cardinality(all) - Cardinality(all \cap gone)
    BY <2>2, FS_Difference
  <2>5. per[s] = Cardinality(all) /\ per[s] <= MaxPerSource /\ MaxPerSource \in Nat
    BY DEF TableOK, GeckoAssumption
  <2> HIDE DEF all, gone
  <2>6. /\ per[s] - Cardinality(gone) \in Nat
        /\ per[s] - Cardinality(gone) = Cardinality(OfSource(es \ dead, s))
        /\ per[s] - Cardinality(gone) <= MaxPerSource
    <3>1. Cardinality(OfSource(es \ dead, s)) = Cardinality(all \ gone)
      BY <2>1
    <3>2. Cardinality(all \cap gone) = Cardinality(gone)
      BY <2>1
    <3> QED
      BY <2>3, <2>4, <2>5, <3>1, <3>2
  <2> QED
    BY <2>6 DEF gone
<1>3. Cardinality(es \ dead) <= MaxReassembly
  BY <1>1 DEF TableOK, GeckoAssumption
<1>4. /\ \A e \in es \ dead : EntryTyped(e)
      /\ \A d, e \in es \ dead : d.key = e.key => d = e
  BY DEF TableOK
<1> DEFINE left == [s \in Sources |-> per[s] - Cardinality({e \in dead : e.key[1] = s})]
<1>5. /\ left \in [Sources -> Nat]
      /\ \A s \in Sources : /\ left[s] = Cardinality(OfSource(es \ dead, s))
                            /\ left[s] <= MaxPerSource
  BY <1>2
<1> HIDE DEF left
<1>6. TableOK(es \ dead, left)
  BY <1>1, <1>3, <1>4, <1>5 DEF TableOK
<1> QED
  BY <1>6 DEF left

(* A new entry.                                                            *)
LEMMA BegunTyped ==
  ASSUME GeckoAssumption, clock \in Nat, NEW k \in Key, NEW total \in Chunks
  PROVE  EntryTyped(Begun(k, total)) /\ Begun(k, total).key = k
<1>1. clock + TTL \in Nat
  BY DEF GeckoAssumption
<1>2. [i \in 1..total |-> NoChunk] \in [1..total -> Datum]
  BY DEF Datum
<1> QED
  BY <1>1, <1>2 DEF EntryTyped, Begun

(* acceptChunk finds the entry of a chunk, or makes it.                    *)
LEMMA EnteredKept ==
  ASSUME GeckoAssumption, clock \in Nat, NEW es, NEW per, TableOK(es, per),
         NEW f, <<f.src, f.id>> \in Key, f.src \in Sources, f.total \in Chunks,
         NEW t \in Entered([es |-> es, per |-> per], f)
  PROVE  /\ TableOK(t.es, t.per)
         /\ t = [es |-> t.es, per |-> t.per]
         /\ t.es \subseteq es \cup {Begun(<<f.src, f.id>>, f.total)}
         /\ \E e \in t.es : e.key = <<f.src, f.id>>
<1> DEFINE k == <<f.src, f.id>>
           t0 == [es |-> es, per |-> per]
           new == Begun(k, f.total)
           roomy == IF Cardinality(es) >= MaxReassembly THEN evictOldestLocked(t0) ELSE {t0}
<1>1. CASE Of(es, k) # {}
  <2>1. t = t0
    BY <1>1 DEF Entered
  <2> QED
    BY <1>1, <2>1 DEF Of
<1>2. CASE Of(es, k) = {}
  <2>1. per[f.src] < MaxPerSource
    BY <1>2 DEF Entered, TableOK, GeckoAssumption
  <2>2. PICK r \in roomy : t = [es |-> r.es \cup {new}, per |-> [r.per EXCEPT ![f.src] = @ + 1]]
    BY <1>2, <2>1 DEF Entered, TableOK, GeckoAssumption
  <2>3. /\ TableOK(r.es, r.per) /\ r.es \subseteq es
        /\ Cardinality(r.es) < MaxReassembly /\ r.per[f.src] < MaxPerSource
    <3>1. Cardinality(es) \in Nat /\ Cardinality(es) <= MaxReassembly /\ MaxReassembly \in Nat
      BY FS_CardinalityType DEF TableOK, GeckoAssumption
    <3>2. CASE Cardinality(es) >= MaxReassembly
      <4>1. PICK e \in es : r = dropEntryLocked(t0, e.key)
        BY <2>2, <3>2 DEF evictOldestLocked
      <4>2. r = [es |-> es \ {e}, per |-> [per EXCEPT ![e.key[1]] = @ - 1]]
        BY <4>1, DropEffect
      <4>3. /\ TableOK(r.es, r.per) /\ Cardinality(r.es) = Cardinality(es) - 1
            /\ e.key[1] \in Sources /\ per[e.key[1]] \in Nat \ {0}
        BY <4>2, Removed
      <4>4. [per EXCEPT ![e.key[1]] = @ - 1][f.src] <= per[f.src] /\ per[f.src] \in Nat
        BY <4>3 DEF TableOK
      <4>5. r.es = es \ {e} /\ r.per[f.src] = [per EXCEPT ![e.key[1]] = @ - 1][f.src]
        BY <4>2
      <4>6. r.per[f.src] \in Nat /\ Cardinality(r.es) < MaxReassembly
        BY <3>1, <4>3 DEF TableOK
      <4>7. r.per[f.src] < MaxPerSource
        BY <2>1, <4>4, <4>5, <4>6 DEF GeckoAssumption
      <4> QED
        BY <4>3, <4>5, <4>6, <4>7
    <3>3. CASE ~(Cardinality(es) >= MaxReassembly)
      BY <2>1, <2>2, <3>1, <3>3
    <3> QED
      BY <3>2, <3>3
  <2>4. EntryTyped(new) /\ new.key = k /\ new.key[1] = f.src
    BY BegunTyped
  <2>5. \A d \in r.es : d.key # new.key
    BY <1>2, <2>3, <2>4 DEF Of
  <2> HIDE DEF new, roomy
  <2>6. TableOK(r.es \cup {new}, [r.per EXCEPT ![f.src] = @ + 1])
    BY <2>3, <2>4, <2>5, Added
  <2>7. TableOK(t.es, t.per) /\ t = [es |-> t.es, per |-> t.per] /\ t.es = r.es \cup {new}
    BY <2>2, <2>6
  <2> QED
    BY <2>3, <2>4, <2>7 DEF new
<1> QED
  BY <1>1, <1>2

(* An entry with a chunk put in.                                           *)
Filled(e, f) == [e EXCEPT !.chunks[f.idx] = f.data]

(* A chunk changes one place of an entry and nothing else.                 *)
LEMMA FilledTyped ==
  ASSUME NEW e, EntryTyped(e), NEW f, f.idx \in 1..e.total, f.data \in Datum
  PROVE  /\ EntryTyped(Filled(e, f))
         /\ Filled(e, f).key = e.key /\ Filled(e, f).total = e.total
         /\ Filled(e, f).deadline = e.deadline
         /\ Filled(e, f).chunks \in [1..e.total -> Datum]
         /\ \A i \in 1..e.total :
              Filled(e, f).chunks[i] = IF i = f.idx THEN f.data ELSE e.chunks[i]
<1>1. e \in [key : Key, total : Chunks, deadline : Nat, chunks : [1..e.total -> Datum]]
  BY DEF EntryTyped
<1>2. PICK c : c = [e.chunks EXCEPT ![f.idx] = f.data]
  OBVIOUS
<1>3. c \in [1..e.total -> Datum]
      /\ \A i \in 1..e.total : c[i] = IF i = f.idx THEN f.data ELSE e.chunks[i]
  BY <1>1, <1>2
<1>4. Filled(e, f) = [e EXCEPT !.chunks = c]
  BY <1>2 DEF Filled
<1>5. /\ Filled(e, f).key = e.key /\ Filled(e, f).total = e.total
      /\ Filled(e, f).deadline = e.deadline /\ Filled(e, f).chunks = c
  BY <1>1, <1>4
<1>6. EntryTyped(Filled(e, f))
  BY <1>1, <1>3, <1>4, <1>5 DEF EntryTyped
<1> QED
  BY <1>3, <1>5, <1>6

(* The entries acceptChunk may work on, and those the chunk fits into.     *)
Known(f) == reassembly \cup {Begun(<<f.src, f.id>>, f.total)}

Fits(e, f) == e.key = <<f.src, f.id>> /\ e.total = f.total

(* What acceptChunk may do: keep entries, begin one, fill one, and hand up *)
(* one that is complete.                                                   *)
LEMMA AcceptKept ==
  ASSUME GeckoAssumption, clock \in Nat, TableOK(reassembly, perSource),
         NEW f, <<f.src, f.id>> \in Key, f.src \in Sources, f.total \in Chunks,
         f.idx \in 1..f.total, f.data \in Datum,
         NEW r \in acceptChunk(f)
  PROVE  /\ TableOK(r.t.es, r.t.per)
         /\ \A g \in r.t.es : \/ g \in Known(f)
                              \/ \E e \in Known(f) : Fits(e, f) /\ g = Filled(e, f)
         /\ \/ r.out = {}
            \/ \E e \in Known(f) : /\ Fits(e, f) /\ Complete(Filled(e, f))
                                   /\ r.out = {Filled(e, f).chunks}
<1> DEFINE t0 == [es |-> reassembly, per |-> perSource]
           none == [t |-> t0, out |-> {}]
           k == <<f.src, f.id>>
           it(t) == CHOOSE e \in t.es : e.key = k
<1>1. CASE r = none
  BY <1>1 DEF Known
<1>2. ASSUME NEW t \in Entered(t0, f),
             r = IF Wanted(it(t), f) THEN Stored(t, it(t), f) ELSE [none EXCEPT !.t = t]
      PROVE  /\ TableOK(r.t.es, r.t.per)
             /\ \A g \in r.t.es : \/ g \in Known(f)
                                  \/ \E e \in Known(f) : Fits(e, f) /\ g = Filled(e, f)
             /\ \/ r.out = {}
                \/ \E e \in Known(f) : /\ Fits(e, f) /\ Complete(Filled(e, f))
                                       /\ r.out = {Filled(e, f).chunks}
  <2>1. /\ TableOK(t.es, t.per) /\ t = [es |-> t.es, per |-> t.per]
        /\ t.es \subseteq Known(f) /\ \E e \in t.es : e.key = k
    <3>1. t \in Entered([es |-> reassembly, per |-> perSource], f)
      BY <1>2
    <3>2. /\ TableOK(t.es, t.per) /\ t = [es |-> t.es, per |-> t.per]
          /\ t.es \subseteq reassembly \cup {Begun(<<f.src, f.id>>, f.total)}
          /\ \E e \in t.es : e.key = <<f.src, f.id>>
      BY <3>1, EnteredKept
    <3> QED
      BY <3>2 DEF Known
  <2>2. PICK e : e = it(t)
    OBVIOUS
  <2>3. e \in t.es /\ e.key = k
    BY <2>1, <2>2
  <2>4. CASE ~Wanted(e, f)
    <3>1. r = [none EXCEPT !.t = t]
      BY <1>2, <2>2, <2>4
    <3>2. r.t = t /\ r.out = {}
      BY <3>1
    <3> QED
      BY <2>1, <3>2
  <2>5. CASE Wanted(e, f)
    <3>1. r = Stored(t, e, f)
      BY <1>2, <2>2, <2>5
    <3>2. EntryTyped(e) /\ Fits(e, f) /\ f.idx \in 1..e.total /\ e \in Known(f)
      BY <2>1, <2>3, <2>5 DEF TableOK, Wanted, Fits
    <3>3. EntryTyped(Filled(e, f)) /\ Filled(e, f).key = e.key
      BY <3>2, FilledTyped
    <3>4. CASE Complete(Filled(e, f))
      <4>1. r = [t |-> dropEntryLocked(t, e.key), out |-> {Filled(e, f).chunks}]
        BY <3>1, <3>4 DEF Stored, Filled
      <4>2. dropEntryLocked(t, e.key) = [es |-> t.es \ {e}, per |-> [t.per EXCEPT ![e.key[1]] = @ - 1]]
        BY <2>1, <2>3, DropEffect
      <4>3. /\ r.t.es = t.es \ {e} /\ r.t.per = [t.per EXCEPT ![e.key[1]] = @ - 1]
            /\ r.out = {Filled(e, f).chunks}
        BY <4>1, <4>2
      <4>4. TableOK(r.t.es, r.t.per)
        BY <2>1, <2>3, <4>3, Removed
      <4> QED
        BY <2>1, <3>2, <3>4, <4>3, <4>4
    <3>5. CASE ~Complete(Filled(e, f))
      <4>1. r = [t |-> [t EXCEPT !.es = (t.es \ {e}) \cup {Filled(e, f)}], out |-> {}]
        BY <3>1, <3>5 DEF Stored, Filled
      <4>2. /\ r.t.es = (t.es \ {e}) \cup {Filled(e, f)} /\ r.t.per = t.per /\ r.out = {}
        BY <2>1, <4>1
      <4>3. TableOK(r.t.es, r.t.per)
        BY <2>1, <2>3, <3>3, <4>2, Replaced
      <4> QED
        BY <2>1, <3>2, <4>2, <4>3
    <3> QED
      BY <3>4, <3>5
  <2> QED
    BY <2>4, <2>5
<1>3. CASE r # none
  <2>1. \E t \in Entered(t0, f) :
          r = IF Wanted(it(t), f) THEN Stored(t, it(t), f) ELSE [none EXCEPT !.t = t]
    BY <1>3, Zenon DEF acceptChunk
  <2> QED
    BY <1>2, <2>1, Zenon
<1> QED
  BY <1>1, <1>3

(* A packet's payload tells what it is.                                    *)
LEMMA PayloadTells ==
  ASSUME NEW s, NEW n, NEW total \in Nat \ {0}, NEW at,
         NEW d, NEW m, NEW more \in Nat \ {0}, NEW then,
         Payload(s, n, total, at) = Payload(d, m, more, then)
  PROVE  s = d /\ n = m /\ at = then
<1>1. 1 \in 1..total /\ 1 \in 1..more
  OBVIOUS
<1>2. Payload(s, n, total, at)[1] = <<s, n, 1, at>> /\ Payload(d, m, more, then)[1] = <<d, m, 1, then>>
  BY <1>1 DEF Payload
<1> QED
  BY <1>2

(* What is known of a chunk stays known while time passes and packets are  *)
(* sent.                                                                   *)
LEMMA PieceStays ==
  ASSUME clock \in Nat, clock' \in Nat, clock <= clock', long \subseteq long', torn \subseteq torn',
         NEW x, NEW s, NEW id, NEW i, NEW total, NEW lo, PieceOK(x, s, id, i, total, lo)
  PROVE  PieceOK(x, s, id, i, total, lo)'
<1>1. PICK n \in Nat, at \in Nat :
        /\ x = <<s, n, i, at>> /\ id = msgID(n)
        /\ lo <= at /\ at <= clock
        /\ Payload(s, n, total, at) \in long \cup torn
        /\ i = total => Payload(s, n, total, at) \in long
  BY DEF PieceOK
<1>2. at <= clock'
  BY <1>1
<1>3. Payload(s, n, total, at)' = Payload(s, n, total, at)
  BY DEF Payload
<1> QED
  BY <1>1, <1>2, <1>3 DEF PieceOK, msgID, Payload

LEMMA EntryStays ==
  ASSUME clock \in Nat, clock' \in Nat, clock <= clock', long \subseteq long', torn \subseteq torn',
         GeckoAssumption, NEW e, EntryTyped(e), EntryOK(e), gcLoop' # Ended => gcLoop' <= e.deadline
  PROVE  EntryOK(e)'
<1>1. e.deadline <= clock' + TTL
  BY DEF EntryOK, EntryTyped, GeckoAssumption
<1>2. \A i \in 1..e.total :
        e.chunks[i] = NoChunk \/ PieceOK(e.chunks[i], e.key[1], e.key[2], i, e.total,
                                         e.deadline - TTL - LinkLife)'
  BY PieceStays DEF EntryOK
<1> QED
  BY <1>1, <1>2 DEF EntryOK, NoChunk
-----------------------------------------------------------------------------
(* A connection starts with nothing under way and nothing held.            *)
LEMMA InitHolds == ASSUME GeckoAssumption, Init PROVE IInv
<1>1. ClocksOK
  BY DEF Init, ClocksOK, GeckoAssumption, Ended
<1>2. TableOK(reassembly, perSource)
  <2>1. \A s \in Sources : OfSource(reassembly, s) = {}
    BY DEF Init, OfSource
  <2> QED
    BY <2>1, FS_EmptySet DEF Init, TableOK, GeckoAssumption
<1> QED
  BY <1>1, <1>2 DEF Init, IInv, PacketsOK

(* Sending: the packet is a new one, and so are its chunks.                *)
LEMMA SendHolds ==
  ASSUME GeckoAssumption, IInv, Open, NEW s \in Sources, NEW total \in Chunks,
         writeFragmented(s, total) \/ writeFails(s, total)
  PROVE  IInv'
<1>0. PICK num \in Nat : num = count[s] + 1
  BY DEF IInv, ClocksOK
<1> DEFINE new == Payload(s, num, total, clock)
<1>1. /\ count' = [count EXCEPT ![s] = num] /\ count'[s] = num
      /\ UNCHANGED <<clock, reassembly, perSource, gcLoop, up>>
      /\ long \subseteq long' /\ torn \subseteq torn' /\ long' \cup torn' = long \cup torn \cup {new}
  BY <1>0 DEF writeFragmented, writeFails, IInv, ClocksOK
<1>2. /\ clock \in Nat /\ clock' \in Nat /\ clock <= clock' /\ clock <= clock + LinkLife
      /\ count \in [Sources -> Nat] /\ count' \in [Sources -> Nat]
      /\ \A d \in Sources : count[d] <= count'[d]
      /\ total \in Nat \ {0}
  BY <1>0, <1>1 DEF IInv, ClocksOK, GeckoAssumption
<1>3. ClocksOK'
  BY <1>1, <1>2 DEF IInv, ClocksOK, Open
<1>4. TableOK(reassembly, perSource)'
  BY <1>1 DEF IInv, TableOK, EntryTyped, OfSource
<1>5. PacketsOK'
  <2>1. ASSUME NEW d \in Sources, NEW n \in Nat, NEW k \in Chunks, NEW at \in Nat,
               Payload(d, n, k, at) \in long \cup torn
        PROVE  n <= count[d]
    BY <2>1 DEF IInv, PacketsOK
  <2>2. ASSUME NEW d \in Sources, NEW n \in Nat, NEW k \in Chunks, NEW at \in Nat,
               Payload(d, n, k, at) = new
        PROVE  d = s /\ n = num /\ at = clock
    <3>1. k \in Nat \ {0}
      BY DEF GeckoAssumption
    <3> QED
      BY <1>2, <2>2, <3>1, PayloadTells
  <2> HIDE DEF new
  <2>3. ASSUME NEW d \in Sources, NEW n \in Nat, NEW k \in Chunks, NEW at \in Nat,
               Payload(d, n, k, at) \in long' \cup torn',
               NEW more \in Chunks, NEW then \in Nat,
               Payload(d, n, more, then) \in long' \cup torn'
        PROVE  then = at
    <3>1. count[s] \in Nat /\ count[s] < num
      BY <1>0, <1>2
    <3>2. CASE d = s /\ n = num
      BY <1>1, <2>1, <2>2, <2>3, <3>1, <3>2
    <3>3. CASE ~(d = s /\ n = num)
      <4>1. Payload(d, n, k, at) \in long \cup torn /\ Payload(d, n, more, then) \in long \cup torn
        BY <1>1, <2>2, <2>3, <3>3
      <4> QED
        BY <4>1 DEF IInv, PacketsOK
    <3> QED
      BY <3>2, <3>3
  <2>4. ASSUME NEW d \in Sources, NEW n \in Nat, NEW k \in Chunks, NEW at \in Nat,
               Payload(d, n, k, at) \in long' \cup torn'
        PROVE  n <= count'[d]
    <3>1. count[d] \in Nat /\ count'[d] \in Nat /\ count[d] <= count'[d]
      BY <1>2
    <3> QED
      BY <1>1, <2>1, <2>2, <2>4, <3>1
  <2> QED
    BY <2>3, <2>4 DEF PacketsOK
<1>6. \A f \in wire : FrameOK(f)'
  <2> SUFFICES ASSUME NEW f \in wire PROVE FrameOK(f)'
    OBVIOUS
  <2>1. FrameOK(f)
    BY DEF IInv
  <2>2. PieceOK(f.data, f.src, f.id, f.idx, f.total, f.sent)'
    BY <1>1, <1>2, <2>1, PieceStays DEF FrameOK
  <2> QED
    BY <1>1, <2>1, <2>2 DEF FrameOK
<1>7. ASSUME NEW i \in 1..total, i = total => new \in long',
             NEW f, f = frame(s, num, i, total)
      PROVE  FrameOK(f)'
  <2>1. /\ f.src = s /\ f.total = total /\ f.idx = i /\ f.sent = clock
        /\ f.id = msgID(num) /\ f.data = <<s, num, i, clock>>
    BY <1>7 DEF frame
  <2>2. msgID(num) \in Numbers
    BY DEF msgID, Numbers, GeckoAssumption
  <2>3. new \in long' \cup torn'
    BY <1>1
  <2>4. PieceOK(f.data, s, msgID(num), i, total, clock)'
    BY <1>1, <1>2, <1>7, <2>1, <2>3 DEF PieceOK, msgID, Payload
  <2> QED
    BY <1>1, <1>2, <2>1, <2>2, <2>4 DEF FrameOK, Numbers
<1>8. \A f \in wire' : FrameOK(f)'
  <2>1. CASE writeFragmented(s, total)
    <3>1. new \in long'
      BY <1>0, <1>1, <2>1 DEF writeFragmented
    <3>2. wire' = wire \cup {frame(s, num, i, total) : i \in 1..total}
      BY <1>1, <2>1 DEF writeFragmented
    <3> QED
      BY <1>6, <1>7, <3>1, <3>2
  <2>2. CASE writeFails(s, total)
    <3>1. wire' = wire \cup {frame(s, num, i, total) : i \in 1..(total - 1)}
      BY <1>1, <2>2 DEF writeFails
    <3>2. \A i \in 1..(total - 1) : i \in 1..total /\ i # total
      BY <1>2
    <3> QED
      BY <1>6, <1>7, <3>1, <3>2
  <2> QED
    BY <2>1, <2>2
<1>9. \A e \in reassembly' : EntryOK(e)'
  <2> SUFFICES ASSUME NEW e \in reassembly PROVE EntryOK(e)'
    BY <1>1
  <2>1. EntryTyped(e) /\ EntryOK(e) /\ (gcLoop' # Ended => gcLoop' <= e.deadline)
    BY <1>1 DEF IInv, EntryOK, TableOK
  <2> QED
    BY <1>1, <1>2, <2>1, EntryStays
<1> QED
  BY <1>3, <1>4, <1>5, <1>8, <1>9 DEF IInv

(* A packet for another address moves the count only.                      *)
LEMMA ElsewhereHolds ==
  ASSUME GeckoAssumption, IInv, Open, NEW s \in Sources, writeElsewhere(s)
  PROVE  IInv'
<1>1. /\ count' = [count EXCEPT ![s] = @ + 1]
      /\ UNCHANGED <<clock, wire, reassembly, perSource, gcLoop, long, torn, up>>
  BY DEF writeElsewhere
<1>2. count' \in [Sources -> Nat] /\ \A d \in Sources : count[d] \in Nat /\ count[d] <= count'[d]
  BY <1>1 DEF IInv, ClocksOK
<1>3. ClocksOK'
  BY <1>1, <1>2 DEF IInv, ClocksOK
<1>4. TableOK(reassembly, perSource)'
  BY <1>1 DEF IInv, TableOK, EntryTyped, OfSource
<1>5. PacketsOK'
  <2>1. ASSUME NEW d \in Sources, NEW n \in Nat, n <= count[d]
        PROVE  n <= count'[d]
    <3>1. count[d] \in Nat /\ count'[d] \in Nat /\ count[d] <= count'[d]
      BY <1>2
    <3> QED
      BY <2>1, <3>1
  <2> QED
    BY <1>1, <2>1 DEF IInv, PacketsOK
<1>6. (\A f \in wire : FrameOK(f))' /\ (\A e \in reassembly : EntryOK(e))'
  BY <1>1 DEF IInv, FrameOK, EntryOK, PieceOK
<1> QED
  BY <1>3, <1>4, <1>5, <1>6 DEF IInv

(* What is known of a chunk on the wire, where acceptChunk meets it.       *)
LEMMA FrameTyped ==
  ASSUME GeckoAssumption, IInv, NEW f \in wire
  PROVE  /\ <<f.src, f.id>> \in Key /\ f.src \in Sources /\ f.total \in Chunks
         /\ f.idx \in 1..f.total /\ f.data \in Datum /\ clock \in Nat
<1>1. /\ f.src \in Sources /\ f.total \in Chunks /\ f.idx \in 1..f.total /\ f.id \in Numbers
  BY DEF IInv, FrameOK
<1>2. PICK n \in Nat, at \in Nat : f.data = <<f.src, n, f.idx, at>>
  BY DEF IInv, FrameOK, PieceOK
<1>3. f.idx \in Nat
  BY <1>1 DEF GeckoAssumption
<1> QED
  BY <1>1, <1>2, <1>3 DEF Key, Datum, Piece, IInv, ClocksOK

(* The entry a chunk may begin is empty.                                   *)
LEMMA BegunOK ==
  ASSUME GeckoAssumption, IInv, NEW f \in wire
  PROVE  /\ EntryTyped(Begun(<<f.src, f.id>>, f.total))
         /\ EntryOK(Begun(<<f.src, f.id>>, f.total))
<1> DEFINE e == Begun(<<f.src, f.id>>, f.total)
<1>1. EntryTyped(e) /\ e.key = <<f.src, f.id>>
  BY FrameTyped, BegunTyped
<1>2. /\ e.total = f.total
      /\ e.deadline = clock + TTL /\ \A i \in 1..f.total : e.chunks[i] = NoChunk
  BY DEF Begun
<1>3. e.deadline <= clock + TTL /\ (gcLoop # Ended => gcLoop <= e.deadline)
  BY <1>2 DEF IInv, ClocksOK, GeckoAssumption
<1> HIDE DEF e
<1>4. EntryOK(e)
  BY <1>2, <1>3 DEF EntryOK
<1> QED
  BY <1>1, <1>4 DEF e

(* What the channel may hand up.                                           *)
Whole(p) == p \in long \/ Channel!Blend(p)

(* A packet put together of the chunks of one source and number, sent      *)
(* within the time an entry is held, is one that was sent, or a blend.     *)
LEMMA AssembledOK ==
  ASSUME GeckoAssumption, PacketsOK, clock \in Nat,
         NEW s \in Sources, NEW id, NEW total \in Chunks, NEW lo \in Int, clock - lo < Hold,
         NEW c, DOMAIN c = 1..total, c = [i \in DOMAIN c |-> c[i]],
         \A i \in 1..total : PieceOK(c[i], s, id, i, total, lo)
  PROVE  Whole(c)
<1>1. total \in Nat \ {0} /\ total \in 1..total /\ Hold \in Int
  BY DEF GeckoAssumption, Hold
<1>2. PICK n \in Nat, at \in Nat :
        /\ c[total] = <<s, n, total, at>> /\ id = msgID(n)
        /\ lo <= at /\ at <= clock
        /\ Payload(s, n, total, at) \in long
  BY <1>1 DEF PieceOK
<1>3. CASE \A i \in 1..total : c[i][2] = n
  <2>1. ASSUME NEW i \in 1..total
        PROVE  c[i] = <<s, n, i, at>>
    <3>1. PICK m \in Nat, then \in Nat :
            c[i] = <<s, m, i, then>> /\ Payload(s, m, total, then) \in long \cup torn
      BY DEF PieceOK
    <3>2. m = n
      BY <1>3, <3>1
    <3>3. then = at
      BY <1>2, <3>1, <3>2 DEF PacketsOK
    <3> QED
      BY <3>1, <3>2, <3>3
  <2>2. c = Payload(s, n, total, at)
    BY <2>1 DEF Payload
  <2> QED
    BY <1>2, <2>2 DEF Whole
<1>4. ASSUME NEW j \in 1..total, c[j][2] # n
      PROVE  Channel!Blend(c)
  <2>1. PICK m \in Nat, then \in Nat :
          /\ c[j] = <<s, m, j, then>> /\ id = msgID(m)
          /\ lo <= then /\ then <= clock
    BY DEF PieceOK
  <2>2. m # n
    BY <1>4, <2>1
  <2>3. c[j] \in Piece /\ c[total] \in Piece
    BY <1>1, <1>2, <2>1 DEF Piece
  <2>4. then - at < Hold /\ at - then < Hold
    BY <1>1, <1>2, <2>1
  <2>5. Confusable(c[j], c[total])
    <3>1. /\ c[j][1] = s /\ c[j][2] = m /\ c[j][4] = then
          /\ c[total][1] = s /\ c[total][2] = n /\ c[total][4] = at
      BY <1>2, <2>1
    <3>2. msgID(m) = msgID(n)
      BY <1>2, <2>1
    <3> QED
      BY <2>2, <2>4, <3>1, <3>2 DEF Confusable
  <2>6. ASSUME NEW i \in 1..total
        PROVE  \E q \in long \cup torn : DOMAIN q = 1..total /\ q[i] = c[i]
    <3>1. PICK k \in Nat, w \in Nat :
            c[i] = <<s, k, i, w>> /\ Payload(s, k, total, w) \in long \cup torn
      BY DEF PieceOK
    <3>2. DOMAIN Payload(s, k, total, w) = 1..total /\ Payload(s, k, total, w)[i] = c[i]
      BY <3>1 DEF Payload
    <3> QED
      BY <3>1, <3>2
  <2>7. <<c[j], c[total]>> \in {z \in Piece \X Piece : Confusable(z[1], z[2])}
    BY <2>3, <2>5
  <2> QED
    BY <1>1, <2>6, <2>7 DEF Channel!Blend
<1> QED
  BY <1>3, <1>4 DEF Whole

(***************************************************************************)
(* The entry a chunk is put into holds chunks sent less than Hold before   *)
(* or after it, and when it is complete it is a packet, or a blend.        *)
(***************************************************************************)
LEMMA FilledOK ==
  ASSUME GeckoAssumption, IInv, NEW f \in wire, NEW e, EntryTyped(e), EntryOK(e), Fits(e, f)
  PROVE  /\ EntryOK(Filled(e, f))
         /\ Complete(Filled(e, f)) => Whole(Filled(e, f).chunks)
<1> DEFINE g == Filled(e, f)
           lo == e.deadline - TTL - LinkLife
<1>1. /\ f.src \in Sources /\ f.total \in Chunks /\ f.idx \in 1..f.total
      /\ f.sent \in Nat /\ clock <= f.sent + LinkLife /\ f.data \in Datum
      /\ PieceOK(f.data, f.src, f.id, f.idx, f.total, f.sent)
  BY FrameTyped DEF IInv, FrameOK
<1>2. /\ e.key[1] = f.src /\ e.key[2] = f.id /\ e.total = f.total /\ e.deadline \in Nat
      /\ e.deadline <= clock + TTL /\ (gcLoop # Ended => gcLoop <= e.deadline)
      /\ \A i \in 1..f.total : e.chunks[i] = NoChunk \/ PieceOK(e.chunks[i], f.src, f.id, i, f.total, lo)
  BY DEF Fits, EntryTyped, EntryOK
<1>3. /\ g.key = e.key /\ g.total = f.total /\ g.deadline = e.deadline
      /\ g.chunks \in [1..f.total -> Datum]
      /\ \A i \in 1..f.total : g.chunks[i] = IF i = f.idx THEN f.data ELSE e.chunks[i]
  BY <1>1, <1>2, FilledTyped
<1>4. clock \in Nat /\ lo \in Int /\ lo <= f.sent
  BY <1>1, <1>2 DEF IInv, ClocksOK, GeckoAssumption
<1>5. PieceOK(f.data, f.src, f.id, f.idx, f.total, lo)
  <2>1. PICK n \in Nat, at \in Nat :
          /\ f.data = <<f.src, n, f.idx, at>> /\ f.id = msgID(n)
          /\ f.sent <= at /\ at <= clock
          /\ Payload(f.src, n, f.total, at) \in long \cup torn
          /\ f.idx = f.total => Payload(f.src, n, f.total, at) \in long
    BY <1>1 DEF PieceOK
  <2>2. lo <= at
    BY <1>1, <1>4, <2>1
  <2> HIDE DEF lo
  <2> QED
    BY <2>1, <2>2 DEF PieceOK
<1> HIDE DEF g, lo
<1>6. \A i \in 1..f.total : g.chunks[i] = NoChunk \/ PieceOK(g.chunks[i], f.src, f.id, i, f.total, lo)
  BY <1>2, <1>3, <1>5
<1>7. EntryOK(g)
  BY <1>2, <1>3, <1>6 DEF EntryOK, lo
<1>8. ASSUME Complete(g)
      PROVE  Whole(g.chunks)
  <2>1. \A i \in 1..f.total : PieceOK(g.chunks[i], f.src, f.id, i, f.total, lo)
    BY <1>3, <1>6, <1>8 DEF Complete
  <2>2. gcLoop # Ended /\ gcLoop \in Nat /\ clock < gcLoop + GCEvery
    BY DEF IInv, ClocksOK
  <2>3. clock - lo < Hold
    BY <1>2, <1>4, <2>2 DEF lo, Hold, GeckoAssumption
  <2>4. DOMAIN g.chunks = 1..f.total /\ g.chunks = [i \in DOMAIN g.chunks |-> g.chunks[i]]
    BY <1>3
  <2> QED
    BY <1>1, <1>4, <2>1, <2>3, <2>4, AssembledOK DEF IInv
<1> QED
  BY <1>7, <1>8 DEF g

(* Receiving a chunk keeps the books, and hands up only what was sent.     *)
LEMMA ReadHolds ==
  ASSUME GeckoAssumption, IInv, NEW f \in wire, ReadFrom(f)
  PROVE  /\ IInv'
         /\ UNCHANGED <<long, torn>>
         /\ up' = up \/ \E p : Whole(p) /\ up' = up \cup {p}
<1>1. PICK r \in acceptChunk(f) : /\ reassembly' = r.t.es
                                  /\ perSource' = r.t.per
                                  /\ up' = up \cup r.out
                                  /\ UNCHANGED <<clock, count, wire, gcLoop, long, torn>>
  BY DEF ReadFrom
<1>2. /\ TableOK(r.t.es, r.t.per)
      /\ \A g \in r.t.es : \/ g \in Known(f)
                           \/ \E e \in Known(f) : Fits(e, f) /\ g = Filled(e, f)
      /\ \/ r.out = {}
         \/ \E e \in Known(f) : /\ Fits(e, f) /\ Complete(Filled(e, f))
                                /\ r.out = {Filled(e, f).chunks}
  BY FrameTyped, AcceptKept DEF IInv
<1>3. \A e \in Known(f) : EntryTyped(e) /\ EntryOK(e)
  BY BegunOK DEF Known, IInv, TableOK
<1>4. \A g \in r.t.es : EntryOK(g)
  BY <1>2, <1>3, FilledOK
<1>5. r.out = {} \/ \E p : Whole(p) /\ r.out = {p}
  BY <1>2, <1>3, FilledOK
<1>6. TableOK(reassembly, perSource)'
  BY <1>1, <1>2 DEF TableOK, EntryTyped, OfSource
<1>7. \A g \in reassembly' : EntryOK(g)'
  BY <1>1, <1>4 DEF EntryOK, PieceOK
<1>8. ClocksOK' /\ (\A g \in wire : FrameOK(g))' /\ PacketsOK'
  BY <1>1 DEF IInv, ClocksOK, FrameOK, PieceOK, PacketsOK
<1>9. up' = up \/ \E p : Whole(p) /\ up' = up \cup {p}
  BY <1>1, <1>5
<1> QED
  BY <1>1, <1>6, <1>7, <1>8, <1>9 DEF IInv

(* Time passes: gcExpired takes out what is past its deadline.             *)
LEMMA TickHolds ==
  ASSUME GeckoAssumption, IInv, Tick
  PROVE  IInv'
<1>1. /\ clock' = clock + 1 /\ clock \in Nat /\ clock' \in Nat
      /\ wire' = {f \in wire : clock' - f.sent <= LinkLife}
      /\ UNCHANGED <<count, long, torn, up>>
  BY DEF Tick, IInv, ClocksOK
<1>0. clock <= clock' /\ long \subseteq long' /\ torn \subseteq torn'
  BY <1>1
<1>2. \A f \in wire' : FrameOK(f)'
  <2> SUFFICES ASSUME NEW f \in wire' PROVE FrameOK(f)'
    OBVIOUS
  <2>1. FrameOK(f) /\ clock' <= f.sent + LinkLife
    BY <1>1 DEF IInv, FrameOK, GeckoAssumption
  <2>2. PieceOK(f.data, f.src, f.id, f.idx, f.total, f.sent)'
    BY <1>0, <1>1, <2>1, PieceStays DEF FrameOK
  <2> QED
    BY <2>1, <2>2 DEF FrameOK, Numbers
<1>5. PacketsOK'
  BY <1>1 DEF IInv, PacketsOK
<1>3. CASE gcLoop # Ended /\ clock' - gcLoop >= GCEvery
  <2> DEFINE dead == {e \in reassembly : Expired(e, clock')}
  <2>1. /\ reassembly' = reassembly \ dead /\ gcLoop' = clock'
        /\ perSource' = [s \in Sources |->
                           perSource[s] - Cardinality({e \in dead : e.key[1] = s})]
    BY <1>3 DEF Tick, gcExpired
  <2>2. TableOK(reassembly, perSource)'
    <3> HIDE DEF dead
    <3>1. TableOK(reassembly', perSource')
      <4>1. PICK old \in SUBSET reassembly : old = dead
        BY DEF dead
      <4>2. TableOK(reassembly, perSource)
        BY DEF IInv
      <4>3. TableOK(reassembly \ old, [s \in Sources |->
                       perSource[s] - Cardinality({e \in old : e.key[1] = s})])
        BY <4>2, RemovedAll
      <4>4. /\ reassembly' = reassembly \ old
            /\ perSource' = [s \in Sources |->
                               perSource[s] - Cardinality({e \in old : e.key[1] = s})]
        BY <2>1, <4>1
      <4> QED
        BY <4>3, <4>4
    <3> QED
      BY <3>1 DEF TableOK, EntryTyped, OfSource
  <2>3. \A e \in reassembly' : e \in reassembly /\ clock' <= e.deadline
    BY <1>1, <2>1 DEF Expired, IInv, TableOK, EntryTyped
  <2>4. \A e \in reassembly' : EntryOK(e)'
    BY <1>0, <1>1, <2>1, <2>3, EntryStays DEF IInv, TableOK
  <2>5. ClocksOK'
    BY <1>1, <1>3, <2>1 DEF IInv, ClocksOK, GeckoAssumption, Ended
  <2> QED
    BY <1>1, <1>2, <1>5, <2>2, <2>4, <2>5 DEF IInv
<1>4. CASE ~(gcLoop # Ended /\ clock' - gcLoop >= GCEvery)
  <2>1. UNCHANGED <<reassembly, perSource, gcLoop>>
    BY <1>4 DEF Tick
  <2>2. TableOK(reassembly, perSource)'
    BY <2>1 DEF IInv, TableOK, EntryTyped, OfSource
  <2>3. \A e \in reassembly' : EntryOK(e)'
    <3>1. \A e \in reassembly : gcLoop' # Ended => gcLoop' <= e.deadline
      BY <2>1 DEF IInv, EntryOK
    <3> QED
      BY <1>0, <1>1, <2>1, <3>1, EntryStays DEF IInv, TableOK
  <2>4. ClocksOK'
    BY <1>1, <1>4, <2>1 DEF IInv, ClocksOK, GeckoAssumption, Ended
  <2> QED
    BY <1>1, <1>2, <1>5, <2>2, <2>3, <2>4 DEF IInv
<1> QED
  BY <1>3, <1>4

(* After Close nothing arrives.                                            *)
LEMMA CloseHolds ==
  ASSUME IInv, Close
  PROVE  IInv'
<1>1. /\ gcLoop' = Ended /\ wire' = {}
      /\ UNCHANGED <<clock, count, reassembly, perSource, long, torn, up>>
  BY DEF Close
<1>2. ClocksOK'
  BY <1>1 DEF IInv, ClocksOK
<1>3. TableOK(reassembly, perSource)'
  BY <1>1 DEF IInv, TableOK, EntryTyped, OfSource
<1>4. \A e \in reassembly' : EntryOK(e)'
  BY <1>1 DEF IInv, EntryOK, PieceOK
<1>5. PacketsOK'
  BY <1>1 DEF IInv, PacketsOK
<1> QED
  BY <1>1, <1>2, <1>3, <1>4, <1>5 DEF IInv

(* A step that changes nothing.                                            *)
LEMMA StutterHolds == ASSUME IInv, UNCHANGED vars PROVE IInv'
<1>1. ClocksOK' /\ TableOK(reassembly, perSource)'
  BY DEF IInv, vars, ClocksOK, TableOK, EntryTyped, OfSource
<1>2. (\A f \in wire : FrameOK(f))' /\ (\A e \in reassembly : EntryOK(e))'
  BY DEF IInv, vars, FrameOK, EntryOK, PieceOK
<1>3. PacketsOK'
  BY DEF IInv, vars, PacketsOK
<1> QED
  BY <1>1, <1>2, <1>3 DEF IInv

(* Every step keeps the invariant.                                         *)
LEMMA StepHolds == ASSUME GeckoAssumption, IInv, [Next]_vars PROVE IInv'
BY SendHolds, ElsewhereHolds, ReadHolds, TickHolds, CloseHolds, StutterHolds DEF Next
-----------------------------------------------------------------------------
(* The books are exact.                                                    *)
LEMMA IInvImplies == ASSUME GeckoAssumption, IInv PROVE EntriesAccounted
<1>1. \A s \in Sources :
        /\ perSource[s] = Cardinality({e \in reassembly : e.key[1] = s})
        /\ perSource[s] <= MaxPerSource
  BY DEF IInv, TableOK, OfSource
<1>2. Cardinality(reassembly) <= MaxReassembly
  BY DEF IInv, TableOK
<1>3. ASSUME NEW k \in Key
      PROVE  Cardinality(Of(reassembly, k)) <= 1
  <2>1. CASE Of(reassembly, k) = {}
    BY <2>1, FS_EmptySet
  <2>2. CASE Of(reassembly, k) # {}
    <3>1. PICK e \in Of(reassembly, k) : TRUE
      BY <2>2
    <3>2. Of(reassembly, k) = {e}
      BY <3>1 DEF Of, IInv, TableOK
    <3>3. Cardinality({e}) = 1
      BY FS_Singleton
    <3> QED
      BY <3>2, <3>3
  <2> QED
    BY <2>1, <2>2
<1>4. gcLoop # Ended => \A e \in reassembly : clock <= e.deadline + GCEvery
  BY DEF IInv, ClocksOK, EntryOK, TableOK, EntryTyped, GeckoAssumption
<1> QED
  BY <1>1, <1>2, <1>3, <1>4 DEF EntriesAccounted

(* A step of Gecko is a step of the channel, or none.                      *)
LEMMA StepImplements ==
  ASSUME GeckoAssumption, IInv, [Next]_vars
  PROVE  [Channel!Next]_<<long, torn, up>>
<1>1. ASSUME Open, NEW s \in Sources, NEW total \in Chunks, writeFragmented(s, total)
      PROVE  UNCHANGED <<long, torn, up>> \/ Channel!Next
  <2>1. PICK p : p = Payload(s, count'[s], total, clock)
    OBVIOUS
  <2>2. long' = long \cup {p} /\ UNCHANGED <<torn, up>>
    BY <1>1, <2>1 DEF writeFragmented
  <2> QED
    BY <2>2 DEF Channel!Next, Channel!Send
<1>2. ASSUME Open, NEW s \in Sources, NEW total \in Chunks, writeFails(s, total)
      PROVE  UNCHANGED <<long, torn, up>> \/ Channel!Next
  <2>1. PICK p : p = Payload(s, count'[s], total, clock)
    OBVIOUS
  <2>2. torn' = torn \cup {p} /\ UNCHANGED <<long, up>>
    BY <1>2, <2>1 DEF writeFails
  <2> QED
    BY <2>2 DEF Channel!Next, Channel!Tear
<1>3. ASSUME NEW f \in wire, ReadFrom(f)
      PROVE  UNCHANGED <<long, torn, up>> \/ Channel!Next
  <2>1. UNCHANGED <<long, torn>> /\ (up' = up \/ \E p : Whole(p) /\ up' = up \cup {p})
    BY <1>3, ReadHolds
  <2>2. CASE up' = up
    BY <2>1, <2>2
  <2>3. ASSUME NEW p, Whole(p), up' = up \cup {p}, up' # up
        PROVE  Channel!Next
    <3>1. Channel!Deliver(p)
      BY <2>1, <2>3 DEF Whole, Channel!Deliver
    <3>2. p \in up'
      BY <2>3
    <3> QED
      BY <2>3, <3>1, <3>2 DEF Channel!Next
  <2> QED
    BY <2>1, <2>2, <2>3
<1>4. CASE Tick \/ Close \/ UNCHANGED vars \/ \E s \in Sources : writeElsewhere(s)
  BY <1>4 DEF Tick, Close, vars, writeElsewhere
<1> QED
  BY <1>1, <1>2, <1>3, <1>4 DEF Next

(***************************************************************************)
(* The invariant of the obfuscator: exact books, and entries that hold     *)
(* only chunks of their source and number which were sent within Hold of   *)
(* one another, whatever is lost, repeated or late and however early a     *)
(* number comes round.                                                     *)
(***************************************************************************)
THEOREM BooksHold == ASSUME GeckoAssumption PROVE Spec => []IInv
<1>1. Init => IInv
  BY InitHolds
<1>2. IInv /\ [Next]_vars => IInv'
  BY StepHolds
<1> QED
  BY <1>1, <1>2, PTL DEF Spec

(***************************************************************************)
(* perSource and both caps of acceptChunk are exact whichever way entries  *)
(* end, and none outlives its deadline by more than a round of gcLoop.     *)
(***************************************************************************)
THEOREM AlwaysAccounted == ASSUME GeckoAssumption PROVE Spec => []EntriesAccounted
<1>1. IInv => EntriesAccounted
  BY IInvImplies
<1> QED
  BY <1>1, BooksHold, PTL

(***************************************************************************)
(* The obfuscator is a lossy channel of whole packets, but for blends of   *)
(* packets that a source sent under one number within Hold: nothing else   *)
(* that is lost, repeated, late or cut short by an error puts chunks of    *)
(* different packets together.                                             *)
(***************************************************************************)
THEOREM Implements == ASSUME GeckoAssumption PROVE Spec => ImplementsDatagrams
<1>1. Init => Channel!Init
  BY DEF Init, Channel!Init
<1>2. IInv /\ [Next]_vars => [Channel!Next]_<<long, torn, up>>
  BY StepImplements
<1> QED
  BY <1>1, <1>2, BooksHold, PTL DEF Spec, ImplementsDatagrams, Channel!Spec
=============================================================================
