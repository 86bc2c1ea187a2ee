----------------------------- MODULE DomTreeProofs -----------------------------
(***************************************************************************)
(* Every load of the panel awaits exactly one answer: AwaitedOnce, for     *)
(* every document, page size, and number of changes, requests and faults.  *)
(*                                                                         *)
(* AwaitedInv says it in a form that is inductive: it counts by sets that  *)
(* have one element or none, speaks of every reference and not only of     *)
(* those with a row, and has the shape of the messages and the rows.       *)
(*                                                                         *)
(* A handler of the controller is a composition of operators on the        *)
(* panel.  Trims says of an operator that it only gives requests up,       *)
(* Tracks that it also makes new ones, and each operator has a lemma; the  *)
(* folds over views, references and branches are computed by recursive     *)
(* functions, which exist by induction on the size of the set folded over. *)
(* Handles is what a handler as a whole comes to.  HandledAwaits then puts *)
(* it together with what Commit and StillAwaited do to the messages.       *)
(***************************************************************************)
EXTENDS DomTree, FiniteSetTheorems, SequenceTheorems, WellFoundedInduction,
        TLAPS

-----------------------------------------------------------------------------
\* Sequences and the messages in them.
IsSeq(s) == s \in Seq({s[k] : k \in DOMAIN s})

\* A sequence, whatever its elements
LEMMA SeqIs ==
  ASSUME NEW S, NEW s \in Seq(S)
  PROVE  IsSeq(s)
<1>1. /\ Len(s) \in Nat /\ DOMAIN s = 1..Len(s)
      /\ s = [k \in 1..Len(s) |-> s[k]]
  BY LenProperties
<1>2. s \in [1..Len(s) -> {s[k] : k \in DOMAIN s}]
  BY <1>1
<1> QED BY <1>1, <1>2, SeqDef DEF IsSeq

\* Its length and its places
LEMMA IsSeqFacts ==
  ASSUME NEW s, IsSeq(s)
  PROVE  /\ Len(s) \in Nat /\ DOMAIN s = 1..Len(s)
         /\ s = [k \in 1..Len(s) |-> s[k]]
BY LenProperties DEF IsSeq

\* A function on 1..n is one.
LEMMA FunctionIsSeq ==
  ASSUME NEW n \in Nat, NEW s, DOMAIN s = 1..n, s = [k \in 1..n |-> s[k]]
  PROVE  IsSeq(s) /\ Len(s) = n
<1>1. s \in [1..n -> {s[k] : k \in DOMAIN s}]
  OBVIOUS
<1>2. IsSeq(s)
  BY <1>1, SeqDef DEF IsSeq
<1>3. Len(s) \in Nat /\ DOMAIN s = 1..Len(s)
  BY <1>2, IsSeqFacts
<1>4. Len(s) = n
  BY <1>3
<1> QED BY <1>2, <1>4

\* The empty sequence
LEMMA EmptyIs == IsSeq(<<>>) /\ Len(<<>>) = 0 /\ DOMAIN <<>> = {}
<1>1. <<>> \in Seq({}) /\ Len(<<>>) = 0
  BY EmptySeq
<1>2. IsSeq(<<>>)
  BY <1>1, SeqIs
<1> QED BY <1>1, <1>2, IsSeqFacts

\* Two sequences, one behind the other
LEMMA ConcatIs ==
  ASSUME NEW s, NEW t, IsSeq(s), IsSeq(t)
  PROVE  /\ IsSeq(s \o t) /\ Len(s \o t) = Len(s) + Len(t)
         /\ \A k \in 1..Len(s) : (s \o t)[k] = s[k]
         /\ \A k \in 1..Len(t) : (s \o t)[k + Len(s)] = t[k]
<1> DEFINE S == {s[k] : k \in DOMAIN s} \cup {t[k] : k \in DOMAIN t}
<1>1. s \in Seq(S) /\ t \in Seq(S)
  BY SeqMonotonic DEF IsSeq
<1> HIDE DEF S
<1>2. Len(s) \in Nat /\ Len(t) \in Nat
  BY IsSeqFacts
<1>3. /\ s \o t \in Seq(S) /\ Len(s \o t) = Len(s) + Len(t)
      /\ \A k \in 1..(Len(s) + Len(t)) :
             (s \o t)[k] = IF k <= Len(s) THEN s[k] ELSE t[k - Len(s)]
  BY <1>1, ConcatProperties
<1>4. \A k \in 1..Len(s) : (s \o t)[k] = s[k]
  BY <1>2, <1>3
<1>5. ASSUME NEW k \in 1..Len(t)
      PROVE  (s \o t)[k + Len(s)] = t[k]
  <2>1. k + Len(s) \in 1..(Len(s) + Len(t)) /\ ~(k + Len(s) <= Len(s))
        /\ k + Len(s) - Len(s) = k
    BY <1>2
  <2> QED BY <1>3, <2>1
<1>6. IsSeq(s \o t)
  BY <1>3, SeqIs
<1> QED BY <1>3, <1>4, <1>5, <1>6

\* One message
LEMMA SingleIs ==
  ASSUME NEW e
  PROVE  IsSeq(<<e>>) /\ Len(<<e>>) = 1 /\ <<e>>[1] = e
<1>1. <<e>> \in Seq({e}) /\ Len(<<e>>) = 1
  OBVIOUS
<1> QED BY <1>1, SeqIs

\* A message put behind the others
LEMMA AppendIs ==
  ASSUME NEW s, NEW e, IsSeq(s)
  PROVE  /\ IsSeq(Append(s, e)) /\ Len(Append(s, e)) = Len(s) + 1
         /\ \A k \in 1..Len(s) : Append(s, e)[k] = s[k]
         /\ Append(s, e)[Len(s) + 1] = e
<1> DEFINE S == {s[k] : k \in DOMAIN s} \cup {e}
<1>1. s \in Seq(S) /\ e \in S
  BY SeqMonotonic DEF IsSeq
<1> HIDE DEF S
<1>2. Append(s, e) \in Seq(S)
  BY <1>1, AppendProperties
<1>3. /\ Len(Append(s, e)) = Len(s) + 1
      /\ \A k \in 1..Len(s) : Append(s, e)[k] = s[k]
      /\ Append(s, e)[Len(s) + 1] = e
  BY <1>1, AppendProperties
<1>4. IsSeq(Append(s, e))
  BY <1>2, SeqIs
<1> QED BY <1>3, <1>4

\* What is left behind the first message
LEMMA TailIs ==
  ASSUME NEW s, IsSeq(s), s # <<>>
  PROVE  /\ Len(s) \in Nat \ {0} /\ Head(s) = s[1]
         /\ IsSeq(Tail(s)) /\ Len(Tail(s)) = Len(s) - 1
         /\ \A k \in 1..Len(Tail(s)) : Tail(s)[k] = s[k + 1]
<1> DEFINE S == {s[k] : k \in DOMAIN s}
<1>1. s \in Seq(S)
  BY DEF IsSeq
<1> HIDE DEF S
<1>2. /\ Tail(s) \in Seq(S) /\ Len(Tail(s)) = Len(s) - 1
      /\ \A k \in 1..Len(Tail(s)) : Tail(s)[k] = s[k + 1]
  BY <1>1, HeadTailProperties
<1>3. Len(s) \in Nat \ {0} /\ Head(s) = s[1]
  BY <1>1, EmptySeq
<1>4. IsSeq(Tail(s))
  BY <1>2, SeqIs
<1> QED BY <1>2, <1>3, <1>4

\* Exactly one.
One(A) == \E k : A = {k}

\* The places of a sequence that a property singles out, when the sequence
\* loses its first element or has others put behind it.
LEMMA ShiftedOne ==
  ASSUME NEW A \in SUBSET Int, NEW n \in Int,
         NEW B, B = {k + n : k \in A}
  PROVE  (A = {} <=> B = {}) /\ (One(A) => One(B))
<1>1. A = {} <=> B = {}
  OBVIOUS
<1>2. ASSUME NEW k, A = {k}
      PROVE  B = {k + n}
  BY <1>2
<1> QED BY <1>1, <1>2 DEF One

\* One of two finite sets has one element, or both are empty.
LEMMA CardinalityOne ==
  ASSUME NEW A, IsFiniteSet(A), NEW B, IsFiniteSet(B)
  PROVE  /\ A = {} /\ B = {} => Cardinality(A) + Cardinality(B) = 0
         /\ (One(A) /\ B = {}) \/ (A = {} /\ One(B)) =>
                Cardinality(A) + Cardinality(B) = 1
<1>1. Cardinality(A) \in Nat /\ Cardinality(B) \in Nat
  BY FS_CardinalityType
<1>2. \A S : One(S) => Cardinality(S) = 1
  BY FS_Singleton DEF One
<1> QED BY <1>1, <1>2, FS_EmptySet

\* A set of numbers that holds the one before each of its numbers is empty.
LEMMA NoLeastFailure ==
  ASSUME NEW S \in SUBSET Nat, \A n \in S : n - 1 \in S
  PROVE  S = {}
<1>1. CASE S # {}
  <2>1. PICK x \in S : \A y \in S : <<y, x>> \notin OpToRel(<, Nat)
    BY <1>1, NatLessThanWellFounded, WFMin
  <2>2. \A y \in S : ~(y < x)
    BY <2>1 DEF OpToRel
  <2>3. x - 1 \in S /\ x - 1 < x
    OBVIOUS
  <2> QED BY <2>2, <2>3
<1> QED BY <1>1

\* A set without one of its members is smaller: what the folds descend by.
LEMMA SmallerSet ==
  ASSUME NEW D, IsFiniteSet(D), NEW s \in SUBSET D, NEW x \in s
  PROVE  /\ s \ {x} \in SUBSET D
         /\ Cardinality(s) \in Nat \ {0}
         /\ Cardinality(s \ {x}) = Cardinality(s) - 1
<1>1. IsFiniteSet(s)
  BY FS_Subset
<1>2. Cardinality(s) \in Nat /\ Cardinality(s) # 0
  BY <1>1, FS_CardinalityType, FS_EmptySet
<1> QED BY <1>1, <1>2, FS_RemoveElement

\* A finite set has an element with the greatest key.
LEMMA LastExists ==
  ASSUME NEW s, IsFiniteSet(s), s # {}, NEW key \in [s -> Nat]
  PROVE  \E c \in s : \A d \in s : key[d] <= key[c]
<1> DEFINE Later(c) == {d \in s : key[d] > key[c]}
           Sets == {Later(c) : c \in s}
<1>1. Sets \subseteq SUBSET s /\ Sets # {}
  <2>1. \A c \in s : Later(c) \in SUBSET s
    OBVIOUS
  <2> HIDE DEF Later
  <2> QED BY <2>1
<1>2. FiniteSubsetsOf(s) = SUBSET s
  BY FS_FiniteSubsetsOfFinite
<1>3. PICK u \in Sets : \A v \in Sets : <<v, u>> \notin StrictSubsetOrdering(s)
  <2> HIDE DEF Sets
  <2> QED BY <1>1, <1>2, FS_StrictSubsetOrderingWellFounded, WFMin
<1>4. PICK c \in s : u = Later(c)
  BY <1>3
<1>5. ASSUME NEW d \in s, key[d] > key[c]
      PROVE  FALSE
  <2>1. Later(d) \subseteq Later(c) /\ d \in Later(c) /\ d \notin Later(d)
    BY <1>5
  <2>2. Later(d) \in Sets
    OBVIOUS
  <2>3. <<Later(d), u>> \in StrictSubsetOrdering(s)
    BY <2>1, <1>4 DEF StrictSubsetOrdering
  <2> QED BY <1>3, <2>2, <2>3
<1>6. \A d \in s : key[d] <= key[c]
  BY <1>5
<1> QED BY <1>6

\* The largest of some naturals
LEMMA MaxExists ==
  ASSUME NEW D, IsFiniteSet(D), D \subseteq Nat, NEW s \in SUBSET D, s # {}
  PROVE  Max(s) \in s /\ \A k \in s : k <= Max(s)
<1> DEFINE key == [k \in s |-> k]
<1>1. IsFiniteSet(s) /\ key \in [s -> Nat]
  BY FS_Subset
<1>2. PICK c \in s : \A d \in s : key[d] <= key[c]
  <2> HIDE DEF key
  <2> QED BY <1>1, LastExists
<1>3. \A d \in s : c >= d
  BY <1>2
<1>4. Max(s) \in s /\ \A y \in s : Max(s) >= y
  BY <1>3 DEF Max
<1> QED BY <1>4

-----------------------------------------------------------------------------
\* The controller only gives requests up: from panel p to panel q a row keeps
\* its request and its revision, or loses the request and is cut.

Pending == [after : Node \cup {None}, owned : BOOLEAN]

Refs(s) == IsFiniteSet(s) /\ \A c \in s : c[1] \in Nat

RowShape(x) ==
    /\ x \in [exp : {x.exp}, parent : {x.parent}, kids : {x.kids}, at : {x.at},
              loaded : {x.loaded}, more : Node \cup {None},
              pending : Pending \cup {None}]
    /\ Refs(x.kids)

PanelShape(p) ==
    /\ p \in [rootRev : {p.rootRev}, asking : BOOLEAN, required : {p.required},
              waiters : {p.waiters}, rows : {p.rows}, expanded : {p.expanded},
              held : {p.held}, cut : {p.cut}, out : {p.out}]
    /\ p.rows = [r \in DOMAIN p.rows |-> p.rows[r]]
    /\ \A r \in DOMAIN p.rows : RowShape(p.rows[r])

\* Row r is still there, asks for the same and is at the same revision.
Keeps(p, q, r) ==
    /\ r \in DOMAIN p.rows /\ r \in DOMAIN q.rows
    /\ q.rows[r].pending = p.rows[r].pending
    /\ q.rows[r].at = p.rows[r].at

\* From p to q requests are only given up, and each such row is cut.
Trims(p, q) ==
    /\ PanelShape(q)
    /\ q.out = p.out /\ q.asking = p.asking
    /\ p.cut \subseteq q.cut
    /\ \A r \in DOMAIN q.rows :
           \/ q.rows[r].pending = None
           \/ Keeps(p, q, r) /\ (r \in q.cut => r \in p.cut)
    /\ \A r \in DOMAIN p.rows :
           p.rows[r].pending = None \/ r \in q.cut \/ Keeps(p, q, r)

\* A panel that is left alone
LEMMA TrimsItself ==
  ASSUME NEW p, PanelShape(p)
  PROVE  Trims(p, p)
BY DEF Trims, Keeps

\* One operator of the controller after another
LEMMA TrimsOn ==
  ASSUME NEW p, NEW q, NEW s, Trims(p, q), Trims(q, s)
  PROVE  Trims(p, s)
<1>1. /\ PanelShape(s) /\ s.out = p.out /\ s.asking = p.asking
      /\ p.cut \subseteq s.cut
  BY DEF Trims
<1>2. ASSUME NEW r \in DOMAIN s.rows, s.rows[r].pending # None
      PROVE  Keeps(p, s, r) /\ (r \in s.cut => r \in p.cut)
  <2>1. Keeps(q, s, r) /\ (r \in s.cut => r \in q.cut)
    BY <1>2 DEF Trims
  <2>2. r \in DOMAIN q.rows /\ q.rows[r].pending # None
    BY <1>2, <2>1 DEF Keeps
  <2>3. Keeps(p, q, r) /\ (r \in q.cut => r \in p.cut)
    BY <2>2 DEF Trims
  <2> QED BY <2>1, <2>3 DEF Keeps
<1>3. ASSUME NEW r \in DOMAIN p.rows, p.rows[r].pending # None, r \notin s.cut
      PROVE  Keeps(p, s, r)
  <2>1. r \notin q.cut
    BY <1>3 DEF Trims
  <2>2. Keeps(p, q, r)
    BY <1>3, <2>1 DEF Trims
  <2>3. r \in DOMAIN q.rows /\ q.rows[r].pending # None
    BY <1>3, <2>2 DEF Keeps
  <2>4. Keeps(q, s, r)
    BY <1>3, <2>3 DEF Trims
  <2> QED BY <2>2, <2>4 DEF Keeps
<1> QED BY <1>1, <1>2, <1>3 DEF Trims

\* Other rows, with the same requests, and what concerns no request
LEMMA RowsTrim ==
  ASSUME NEW p, PanelShape(p), NEW rows, NEW expanded, NEW held, NEW rev,
         rows = [r \in DOMAIN rows |-> rows[r]],
         \A r \in DOMAIN rows :
             /\ RowShape(rows[r])
             /\ \/ rows[r].pending = None
                \/ /\ r \in DOMAIN p.rows
                   /\ rows[r].pending = p.rows[r].pending
                   /\ rows[r].at = p.rows[r].at,
         \A r \in DOMAIN p.rows :
             \/ p.rows[r].pending = None
             \/ /\ r \in DOMAIN rows
                /\ rows[r].pending = p.rows[r].pending
                /\ rows[r].at = p.rows[r].at
  PROVE  Trims(p, [p EXCEPT !.rows = rows, !.expanded = expanded,
                            !.held = held, !.rootRev = rev])
<1> DEFINE q == [p EXCEPT !.rows = rows, !.expanded = expanded,
                          !.held = held, !.rootRev = rev]
<1>1. /\ q \in [rootRev : {rev}, asking : BOOLEAN, required : {p.required},
                 waiters : {p.waiters}, rows : {rows}, expanded : {expanded},
                 held : {held}, cut : {p.cut}, out : {p.out}]
      /\ q.asking = p.asking
  BY DEF PanelShape
<1> HIDE DEF q
<1>2. /\ q.rows = rows /\ q.cut = p.cut /\ q.out = p.out /\ q.asking = p.asking
  BY <1>1
<1>3. PanelShape(q)
  BY <1>1 DEF PanelShape
<1>4. Trims(p, q)
  BY <1>2, <1>3 DEF Trims, Keeps
<1> QED BY <1>4 DEF q

\* Settle gives up the requests of some rows and leaves the rest.
LEMMA SettleTrims ==
  ASSUME NEW p, PanelShape(p), NEW refs
  PROVE  /\ Trims(p, Settle(p, refs))
         /\ LET q == Settle(p, refs)
            IN  /\ DOMAIN q.rows = DOMAIN p.rows
                /\ q.expanded = p.expanded /\ q.held = p.held
                /\ q.rootRev = p.rootRev
                /\ \A r \in refs \cap DOMAIN q.rows : q.rows[r].pending = None
                /\ \A r \in DOMAIN p.rows : q.rows[r].kids = p.rows[r].kids
<1> DEFINE given == {r \in refs \cap DOMAIN p.rows : p.rows[r].pending # None}
           rows == [r \in DOMAIN p.rows |->
                       IF r \in given THEN [p.rows[r] EXCEPT !.pending = None]
                       ELSE p.rows[r]]
           q == Settle(p, refs)
<1>1. /\ q \in [rootRev : {p.rootRev}, asking : BOOLEAN, required : {p.required},
                 waiters : {p.waiters}, rows : {rows}, expanded : {p.expanded},
                 held : {p.held}, cut : {p.cut \cup given}, out : {p.out}]
      /\ q.asking = p.asking
  BY DEF Settle, PanelShape
<1>2. ASSUME NEW r \in DOMAIN p.rows
      PROVE  /\ RowShape(rows[r])
             /\ rows[r].kids = p.rows[r].kids
             /\ rows[r].at = p.rows[r].at
             /\ r \in given => rows[r].pending = None
             /\ r \notin given => rows[r].pending = p.rows[r].pending
  <2>1. RowShape(p.rows[r])
    BY DEF PanelShape
  <2>2. rows[r] = IF r \in given THEN [p.rows[r] EXCEPT !.pending = None]
                  ELSE p.rows[r]
    OBVIOUS
  <2> HIDE DEF rows, given
  <2> QED BY <2>1, <2>2 DEF RowShape
<1>3. /\ DOMAIN rows = DOMAIN p.rows /\ rows = [r \in DOMAIN rows |-> rows[r]]
      /\ given \subseteq DOMAIN p.rows
      /\ \A r \in given : p.rows[r].pending # None
      /\ \A r \in refs \cap DOMAIN p.rows : r \notin given => p.rows[r].pending = None
  OBVIOUS
<1> HIDE DEF rows, given, q
<1>4. PanelShape(q)
  BY <1>1, <1>2, <1>3 DEF PanelShape
<1>5. Trims(p, q)
  BY <1>1, <1>2, <1>3, <1>4 DEF Trims, Keeps
<1>6. \A r \in refs \cap DOMAIN q.rows : q.rows[r].pending = None
  BY <1>1, <1>2, <1>3
<1> QED BY <1>1, <1>2, <1>3, <1>5, <1>6 DEF q

\* RemoveSubtrees settles what it removes.
LEMMA RemoveSubtreesTrims ==
  ASSUME NEW p, PanelShape(p), NEW refs
  PROVE  Trims(p, RemoveSubtrees(p, refs))
<1> DEFINE gone == Below(p, refs, Owned(p) \cup Held(p))
           q == Settle(p, gone)
           rows == [r \in DOMAIN q.rows \ gone |-> q.rows[r]]
           s == [q EXCEPT !.rows = Restrict(@, DOMAIN @ \ gone), !.expanded = @ \ gone]
<1>1. s = RemoveSubtrees(p, refs)
  BY DEF RemoveSubtrees
<1> HIDE DEF gone
<1>2. /\ Trims(p, q) /\ PanelShape(q)
      /\ \A r \in gone \cap DOMAIN q.rows : q.rows[r].pending = None
  BY SettleTrims DEF Trims
<1> HIDE DEF q
<1>3. s = [q EXCEPT !.rows = rows, !.expanded = q.expanded \ gone,
                    !.held = q.held, !.rootRev = q.rootRev]
  <2>1. Restrict(q.rows, DOMAIN q.rows \ gone) = rows
    BY DEF Restrict
  <2>2. s = [q EXCEPT !.rows = rows, !.expanded = q.expanded \ gone]
    BY <2>1
  <2> HIDE DEF rows, s
  <2> QED BY <1>2, <2>2 DEF PanelShape
<1>4. /\ DOMAIN rows = DOMAIN q.rows \ gone
      /\ \A r \in DOMAIN rows : rows[r] = q.rows[r]
      /\ rows = [r \in DOMAIN rows |-> rows[r]]
  OBVIOUS
<1> HIDE DEF rows, s
<1>5. \A r \in DOMAIN rows : RowShape(rows[r])
  BY <1>2, <1>4 DEF PanelShape
<1>6. Trims(q, s)
  BY <1>2, <1>3, <1>4, <1>5, RowsTrim
<1> QED BY <1>1, <1>2, <1>6, TrimsOn

\* A row that asks for nothing, or for the same at the same revision, in the
\* place of one
LEMMA RowTrims ==
  ASSUME NEW p, PanelShape(p), NEW r \in DOMAIN p.rows, NEW x, RowShape(x),
         \/ x.pending = None /\ p.rows[r].pending = None
         \/ x.pending = p.rows[r].pending /\ x.at = p.rows[r].at,
         NEW expanded
  PROVE  Trims(p, [p EXCEPT !.rows[r] = x, !.expanded = expanded])
<1> DEFINE rows == [p.rows EXCEPT ![r] = x]
<1>1. [p EXCEPT !.rows[r] = x, !.expanded = expanded]
        = [p EXCEPT !.rows = rows, !.expanded = expanded, !.held = p.held,
                    !.rootRev = p.rootRev]
  BY DEF PanelShape
<1>2. /\ DOMAIN rows = DOMAIN p.rows /\ rows = [o \in DOMAIN rows |-> rows[o]]
      /\ rows[r] = x
      /\ \A o \in DOMAIN p.rows : o # r => rows[o] = p.rows[o]
  BY DEF PanelShape
<1> HIDE DEF rows
<1>3. \A o \in DOMAIN rows : RowShape(rows[o])
  BY <1>2 DEF PanelShape
<1> DEFINE Like(a, b) == a.pending = b.pending /\ a.at = b.at
<1>4. \A o \in DOMAIN rows :
          \/ rows[o].pending = None /\ p.rows[o].pending = None
          \/ Like(rows[o], p.rows[o])
  BY <1>2
<1>5. \A o \in DOMAIN rows :
          /\ RowShape(rows[o])
          /\ \/ rows[o].pending = None
             \/ /\ o \in DOMAIN p.rows
                /\ rows[o].pending = p.rows[o].pending
                /\ rows[o].at = p.rows[o].at
  BY <1>2, <1>3, <1>4
<1>6. \A o \in DOMAIN p.rows :
          \/ p.rows[o].pending = None
          \/ /\ o \in DOMAIN rows
             /\ rows[o].pending = p.rows[o].pending
             /\ rows[o].at = p.rows[o].at
  BY <1>2, <1>4
<1>7. rows = [o \in DOMAIN rows |-> rows[o]]
  BY <1>2
<1>8. Trims(p, [p EXCEPT !.rows = rows, !.expanded = expanded,
                         !.held = p.held, !.rootRev = p.rootRev])
  BY <1>5, <1>6, <1>7, RowsTrim
<1> QED BY <1>1, <1>8

\* A request for the earlier revision is given up.
LEMMA AdvanceTrims ==
  ASSUME NEW p, PanelShape(p), NEW r \in DOMAIN p.rows, NEW rev
  PROVE  /\ Trims(p, Advance(p, r, rev))
         /\ DOMAIN Advance(p, r, rev).rows = DOMAIN p.rows
         /\ Advance(p, r, rev).rows[r].pending = None
<1> DEFINE q == Settle(p, {r})
           x == [q.rows[r] EXCEPT !.at = rev, !.loaded = FALSE, !.more = None]
           s == Advance(p, r, rev)
<1>1. /\ Trims(p, q) /\ PanelShape(q) /\ r \in DOMAIN q.rows
      /\ DOMAIN q.rows = DOMAIN p.rows
      /\ q.rows[r].pending = None
  BY SettleTrims DEF Trims
<1>2. s = [q EXCEPT !.rows[r] =
                [@ EXCEPT !.at = rev, !.loaded = FALSE, !.more = None]]
  BY DEF Advance
<1> HIDE DEF q
<1>3. RowShape(x) /\ x.pending = None
  BY <1>1 DEF PanelShape, RowShape
<1>4. s = [q EXCEPT !.rows[r] = x, !.expanded = q.expanded]
  BY <1>1, <1>2 DEF PanelShape
<1>5. DOMAIN s.rows = DOMAIN q.rows /\ s.rows[r] = x
  BY <1>1, <1>4 DEF PanelShape
<1> HIDE DEF x, s
<1>6. Trims(q, s)
  BY <1>1, <1>3, <1>4, RowTrims
<1>7. Trims(p, s)
  BY <1>1, <1>6, TrimsOn
<1> QED BY <1>1, <1>3, <1>5, <1>7 DEF s

\* A row that cannot be expanded any more
LEMMA RetireTrims ==
  ASSUME NEW p, PanelShape(p), NEW r \in DOMAIN p.rows
  PROVE  Trims(p, Retire(p, r))
<1> DEFINE q == Settle(p, {r})
           x == [q.rows[r] EXCEPT !.kids = {}, !.loaded = FALSE, !.more = None]
           s == [q EXCEPT !.expanded = @ \ {r},
                          !.rows[r] = [@ EXCEPT !.kids = {}, !.loaded = FALSE,
                                                !.more = None]]
<1>1. /\ Trims(p, q) /\ PanelShape(q) /\ r \in DOMAIN q.rows
      /\ q.rows[r].pending = None
  BY SettleTrims DEF Trims
<1>2. Retire(p, r) = RemoveSubtrees(s, p.rows[r].kids)
  BY DEF Retire
<1> HIDE DEF q
<1>3. Refs({})
  BY FS_EmptySet DEF Refs
<1>4. RowShape(x) /\ x.pending = None
  BY <1>1, <1>3 DEF PanelShape, RowShape
<1>5. s = [q EXCEPT !.rows[r] = x, !.expanded = q.expanded \ {r}]
  BY <1>1 DEF PanelShape
<1> HIDE DEF x, s
<1>6. Trims(q, s)
  BY <1>1, <1>4, <1>5, RowTrims
<1>7. Trims(s, RemoveSubtrees(s, p.rows[r].kids))
  BY <1>6, RemoveSubtreesTrims DEF Trims
<1> QED BY <1>1, <1>2, <1>6, <1>7, TrimsOn

\* A view is taken into the tree.
LEMMA UpsertTrims ==
  ASSUME NEW p, PanelShape(p), NEW view, NEW parent
  PROVE  Trims(p, Upsert(p, view, parent))
<1> DEFINE r == view.ref
           known == r \in DOMAIN p.rows
           q == IF ~known THEN [p EXCEPT !.rows = [o \in DOMAIN @ \cup {r} |->
                                    IF o = r THEN NewRow(view, parent) ELSE @[o]]]
                ELSE IF view.rev > p.rows[r].at THEN Advance(p, r, view.rev) ELSE p
           new == [q EXCEPT !.rows[r] =
                      [@ EXCEPT !.parent = parent, !.exp = view.exp]]
<1>1. Upsert(p, view, parent) =
          IF known /\ view.rev < p.rows[r].at
          THEN [p EXCEPT !.rows[r].parent = parent]
          ELSE IF view.exp THEN new ELSE Retire(new, r)
  BY DEF Upsert
<1>2. CASE known /\ view.rev < p.rows[r].at
  <2> DEFINE x == [p.rows[r] EXCEPT !.parent = parent]
             s == [p EXCEPT !.rows[r].parent = parent]
  <2>1. /\ RowShape(x) /\ x.pending = p.rows[r].pending
        /\ x.at = p.rows[r].at
    BY <1>2 DEF PanelShape, RowShape
  <2>2. s = [p EXCEPT !.rows[r] = x, !.expanded = p.expanded]
    BY <1>2 DEF PanelShape
  <2> HIDE DEF x, s, r
  <2>3. Trims(p, s)
    BY <1>2, <2>1, <2>2, RowTrims
  <2> QED BY <1>1, <1>2, <2>3 DEF s
<1>3. Trims(p, q) /\ r \in DOMAIN q.rows
  <2>1. CASE ~known
    <3> DEFINE rows == [o \in DOMAIN p.rows \cup {r} |->
                           IF o = r THEN NewRow(view, parent) ELSE p.rows[o]]
    <3>1. q = [p EXCEPT !.rows = rows, !.expanded = p.expanded, !.held = p.held,
                        !.rootRev = p.rootRev]
      BY <2>1 DEF PanelShape
    <3>2. RowShape(NewRow(view, parent)) /\ NewRow(view, parent).pending = None
      BY FS_EmptySet DEF NewRow, RowShape, Refs
    <3>3. /\ DOMAIN rows = DOMAIN p.rows \cup {r}
          /\ rows = [o \in DOMAIN rows |-> rows[o]]
          /\ rows[r] = NewRow(view, parent)
          /\ \A o \in DOMAIN p.rows : rows[o] = p.rows[o]
      BY <2>1
    <3> HIDE DEF rows, q, r
    <3>4. \A o \in DOMAIN rows : RowShape(rows[o])
      BY <3>2, <3>3 DEF PanelShape
    <3>5. Trims(p, q)
      BY <3>1, <3>2, <3>3, <3>4, RowsTrim
    <3>6. q.rows = rows
      BY <3>1 DEF PanelShape
    <3> QED BY <3>3, <3>5, <3>6
  <2>2. CASE known /\ view.rev > p.rows[r].at
    <3> HIDE DEF r
    <3> QED BY <2>2, AdvanceTrims
  <2>3. CASE known /\ ~(view.rev > p.rows[r].at)
    BY <2>3, TrimsItself
  <2> QED BY <2>1, <2>2, <2>3
<1> HIDE DEF q
<1>4. Trims(q, new) /\ r \in DOMAIN new.rows
  <2> DEFINE x == [q.rows[r] EXCEPT !.parent = parent, !.exp = view.exp]
  <2>1. PanelShape(q)
    BY <1>3 DEF Trims
  <2>2. /\ RowShape(x) /\ x.pending = q.rows[r].pending
        /\ x.at = q.rows[r].at
    <3>1. RowShape(q.rows[r])
      BY <1>3, <2>1 DEF PanelShape
    <3> HIDE DEF r
    <3> QED BY <3>1 DEF RowShape
  <2>3. new = [q EXCEPT !.rows[r] = x, !.expanded = q.expanded]
    BY <1>3, <2>1 DEF PanelShape
  <2>4. DOMAIN new.rows = DOMAIN q.rows
    BY <2>1, <2>3 DEF PanelShape
  <2> HIDE DEF x, new, r
  <2>5. Trims(q, new)
    BY <1>3, <2>1, <2>2, <2>3, RowTrims
  <2> QED BY <1>3, <2>4, <2>5
<1> HIDE DEF new, r
<1>5. Trims(new, Retire(new, r))
  BY <1>4, RetireTrims DEF Trims
<1> QED BY <1>1, <1>2, <1>3, <1>4, <1>5, TrimsOn

\* What is held concerns no request.
LEMMA HeldTrims ==
  ASSUME NEW p, PanelShape(p), NEW held
  PROVE  Trims(p, [p EXCEPT !.held = held])
<1>1. [p EXCEPT !.held = held]
        = [p EXCEPT !.rows = p.rows, !.expanded = p.expanded, !.held = held,
                    !.rootRev = p.rootRev]
  BY DEF PanelShape
<1>2. \A r \in DOMAIN p.rows :
          /\ RowShape(p.rows[r])
          /\ \/ p.rows[r].pending = None
             \/ /\ r \in DOMAIN p.rows
                /\ p.rows[r].pending = p.rows[r].pending
                /\ p.rows[r].at = p.rows[r].at
  BY DEF PanelShape
<1>3. p.rows = [r \in DOMAIN p.rows |-> p.rows[r]]
  BY DEF PanelShape
<1>4. \A r \in DOMAIN p.rows :
          \/ p.rows[r].pending = None
          \/ /\ r \in DOMAIN p.rows
             /\ p.rows[r].pending = p.rows[r].pending
             /\ p.rows[r].at = p.rows[r].at
  OBVIOUS
<1>5. Trims(p, [p EXCEPT !.rows = p.rows, !.expanded = p.expanded, !.held = held,
                         !.rootRev = p.rootRev])
  BY <1>2, <1>3, <1>4, RowsTrim
<1> QED BY <1>1, <1>5

\* Letting go of subtrees after what is held has changed
LEMMA HeldRemovedTrims ==
  ASSUME NEW p, PanelShape(p), NEW held, NEW refs
  PROVE  Trims(p, RemoveSubtrees([p EXCEPT !.held = held], refs))
<1> DEFINE q == [p EXCEPT !.held = held]
<1>1. Trims(p, q)
  BY HeldTrims
<1> HIDE DEF q
<1>2. Trims(q, RemoveSubtrees(q, refs))
  BY <1>1, RemoveSubtreesTrims DEF Trims
<1>3. Trims(p, RemoveSubtrees(q, refs))
  BY <1>1, <1>2, TrimsOn
<1> QED BY <1>3 DEF q

\* A held row is adopted.
LEMMA ReleaseTrims ==
  ASSUME NEW p, PanelShape(p), NEW r
  PROVE  Trims(p, Release(p, r))
<1> DEFINE i == CHOOSE k \in DOMAIN p.held : r \in p.held[k].refs
           h == p.held[i]
           released == Below(p, {r}, {})
           retained == IF r = h.root THEN {}
                       ELSE (Below(p, {h.root}, {}) \cap h.refs) \ released
           held == IF retained = {} THEN RemoveAt(p.held, i)
                   ELSE [p.held EXCEPT ![i].refs = retained]
           refs == h.refs \ (released \cup retained)
<1>1. CASE r \notin Held(p)
  BY <1>1, TrimsItself DEF Release
<1>2. CASE r \in Held(p)
  <2>1. Release(p, r) = RemoveSubtrees([p EXCEPT !.held = held], refs)
    <3>1. [p EXCEPT !.held = held] =
              [p EXCEPT !.held = IF retained = {} THEN RemoveAt(@, i)
                                 ELSE [@ EXCEPT ![i].refs = retained]]
      BY DEF PanelShape
    <3> QED BY <1>2, <3>1 DEF Release
  <2> HIDE DEF i, h, released, retained, held, refs
  <2> QED BY <2>1, HeldRemovedTrims
<1> QED BY <1>1, <1>2

\* The oldest held subtree goes.
LEMMA EvictTrims ==
  ASSUME NEW p, PanelShape(p)
  PROVE  Trims(p, Evict(p))
<1>1. Evict(p) = RemoveSubtrees([p EXCEPT !.held = Tail(p.held)],
                                {Head(p.held).root} \cup Head(p.held).refs)
  <2>1. [p EXCEPT !.held = Tail(@)] = [p EXCEPT !.held = Tail(p.held)]
    BY DEF PanelShape
  <2> QED BY <2>1 DEF Evict
<1> QED BY <1>1, HeldRemovedTrims

\* A detached row is released, removed, or held.
LEMMA DeferTrims ==
  ASSUME NEW p, PanelShape(p), NEW r, NEW owned
  PROVE  Trims(p, Defer(p, r, owned))
<1> DEFINE h == [root |-> r, refs |-> Below(p, {r}, {}) \ Held(p)]
           q == IF Len(p.held) >= MaxHeld THEN Evict(p) ELSE p
           s == [q EXCEPT !.held = Append(@, h)]
<1>1. Defer(p, r, owned) =
          IF r \in Owned(p) THEN Release(p, r)
          ELSE IF ~owned THEN RemoveSubtrees(p, {r})
          ELSE IF r \in Held(p) THEN p
          ELSE Settle(s, h.refs)
  BY DEF Defer
<1>2. Trims(p, q) /\ PanelShape(q)
  BY EvictTrims, TrimsItself DEF Trims
<1> HIDE DEF q, h
<1>3. s = [q EXCEPT !.held = Append(q.held, h)]
  BY <1>2 DEF PanelShape
<1> HIDE DEF s
<1>4. Trims(q, s) /\ PanelShape(s)
  BY <1>2, <1>3, HeldTrims DEF Trims
<1>5. Trims(s, Settle(s, h.refs))
  BY <1>4, SettleTrims
<1>6. Trims(p, Settle(s, h.refs))
  BY <1>2, <1>4, <1>5, TrimsOn
<1> QED BY <1>1, <1>6, ReleaseTrims, RemoveSubtreesTrims, TrimsItself

\* A row loses its parent.
LEMMA DetachTrims ==
  ASSUME NEW p, PanelShape(p), NEW parent, NEW r
  PROVE  Trims(p, Detach(p, parent, r))
<1> DEFINE s == [p EXCEPT !.rows[r].parent = None]
<1>1. CASE r \in DOMAIN p.rows /\ p.rows[r].parent = parent
  <2> DEFINE x == [p.rows[r] EXCEPT !.parent = None]
  <2>1. RowShape(p.rows[r])
    BY <1>1 DEF PanelShape
  <2>2. /\ RowShape(x) /\ x.pending = p.rows[r].pending
        /\ x.at = p.rows[r].at
    BY <2>1 DEF RowShape
  <2>3. s = [p EXCEPT !.rows[r] = x, !.expanded = p.expanded]
    BY <1>1 DEF PanelShape
  <2> HIDE DEF x, s
  <2>4. Trims(p, s)
    BY <1>1, <2>2, <2>3, RowTrims
  <2> QED BY <1>1, <2>4 DEF Detach, s
<1> QED BY <1>1, TrimsItself DEF Detach

\* The rows of a panel with other children or parents ask for the same.
LEMMA FamilyTrims ==
  ASSUME NEW p, PanelShape(p), NEW rows, DOMAIN rows = DOMAIN p.rows,
         rows = [r \in DOMAIN rows |-> rows[r]],
         \A r \in DOMAIN rows :
             /\ RowShape(rows[r])
             /\ rows[r].pending = p.rows[r].pending
             /\ rows[r].at = p.rows[r].at
  PROVE  Trims(p, [p EXCEPT !.rows = rows])
<1>1. [p EXCEPT !.rows = rows]
        = [p EXCEPT !.rows = rows, !.expanded = p.expanded, !.held = p.held,
                    !.rootRev = p.rootRev]
  BY DEF PanelShape
<1>2. \A r \in DOMAIN rows :
          /\ RowShape(rows[r])
          /\ \/ rows[r].pending = None
             \/ /\ r \in DOMAIN p.rows
                /\ rows[r].pending = p.rows[r].pending
                /\ rows[r].at = p.rows[r].at
  OBVIOUS
<1>3. \A r \in DOMAIN p.rows :
          \/ p.rows[r].pending = None
          \/ /\ r \in DOMAIN rows
             /\ rows[r].pending = p.rows[r].pending
             /\ rows[r].at = p.rows[r].at
  OBVIOUS
<1>4. Trims(p, [p EXCEPT !.rows = rows, !.expanded = p.expanded,
                         !.held = p.held, !.rootRev = p.rootRev])
  BY <1>2, <1>3, RowsTrim
<1> QED BY <1>1, <1>4

\* A child of a page is adopted.
LEMMA AdoptTrims ==
  ASSUME NEW p, PanelShape(p), NEW view, NEW parent
  PROVE  Trims(p, Adopt(p, view, parent))
<1> DEFINE r == view.ref
           rows == [o \in DOMAIN p.rows |->
                       IF o = parent THEN p.rows[o]
                       ELSE [p.rows[o] EXCEPT !.kids = p.rows[o].kids \ {r}]]
           q == [p EXCEPT !.rows = rows]
           u == Upsert(q, view, parent)
           s == Release(u, r)
<1>1. Adopt(p, view, parent) = IF r \in DOMAIN s.rows THEN s
                               ELSE Upsert(s, view, parent)
  <2>1. q = [p EXCEPT !.rows = [o \in DOMAIN @ |->
                IF o = parent THEN @[o]
                ELSE [@[o] EXCEPT !.kids = p.rows[o].kids \ {r}]]]
    BY DEF PanelShape
  <2> HIDE DEF q
  <2> QED BY <2>1 DEF Adopt
<1>2. Trims(p, q) /\ PanelShape(q)
  <2>1. ASSUME NEW o \in DOMAIN p.rows
        PROVE  /\ RowShape(rows[o])
               /\ rows[o].pending = p.rows[o].pending
               /\ rows[o].at = p.rows[o].at
    <3>1. RowShape(p.rows[o])
      BY DEF PanelShape
    <3>2. Refs(p.rows[o].kids \ {r})
      BY <3>1, FS_RemoveElement DEF RowShape, Refs
    <3>3. rows[o] = IF o = parent THEN p.rows[o]
                    ELSE [p.rows[o] EXCEPT !.kids = p.rows[o].kids \ {r}]
      BY <3>1 DEF RowShape
    <3> HIDE DEF rows, r
    <3> QED BY <3>1, <3>2, <3>3 DEF RowShape
  <2>2. DOMAIN rows = DOMAIN p.rows /\ rows = [o \in DOMAIN rows |-> rows[o]]
    OBVIOUS
  <2> HIDE DEF rows, r
  <2>3. Trims(p, q)
    BY <2>1, <2>2, FamilyTrims
  <2> QED BY <2>3 DEF Trims
<1> HIDE DEF q
<1>3. Trims(q, u) /\ PanelShape(u)
  BY <1>2, UpsertTrims DEF Trims
<1> HIDE DEF u
<1>4. Trims(u, s) /\ PanelShape(s)
  BY <1>3, ReleaseTrims DEF Trims
<1> HIDE DEF s
<1>5. Trims(s, Upsert(s, view, parent))
  BY <1>4, UpsertTrims
<1> QED BY <1>1, <1>2, <1>3, <1>4, <1>5, TrimsOn

\* The first page of a branch fails.
LEMMA FailFirstPageTrims ==
  ASSUME NEW p, PanelShape(p), NEW r \in DOMAIN p.rows
  PROVE  Trims(p, FailFirstPage(p, r))
<1> DEFINE kids == p.rows[r].kids
           x == [p.rows[r] EXCEPT !.kids = {}, !.loaded = FALSE, !.more = None]
           q == [p EXCEPT !.rows[r] =
                    [@ EXCEPT !.kids = {}, !.loaded = FALSE, !.more = None]]
           rows == [o \in DOMAIN q.rows |->
                       IF o \in kids /\ q.rows[o].parent = r
                       THEN [q.rows[o] EXCEPT !.parent = None] ELSE q.rows[o]]
           s == [q EXCEPT !.rows = rows]
<1>1. RowShape(x) /\ x.pending = p.rows[r].pending /\ x.at = p.rows[r].at
  <2>1. RowShape(p.rows[r])
    BY DEF PanelShape
  <2>2. Refs({})
    BY FS_EmptySet DEF Refs
  <2> QED BY <2>1, <2>2 DEF RowShape
<1>2. q = [p EXCEPT !.rows[r] = x, !.expanded = p.expanded]
  BY DEF PanelShape
<1>3. FailFirstPage(p, r) = RemoveSubtrees(s, kids)
  <2>1. s = [q EXCEPT !.rows = [o \in DOMAIN @ |->
                IF o \in kids /\ @[o].parent = r
                THEN [@[o] EXCEPT !.parent = None] ELSE @[o]]]
    BY DEF PanelShape
  <2> HIDE DEF s
  <2> QED BY <2>1 DEF FailFirstPage
<1> HIDE DEF q, x, kids
<1>4. Trims(p, q) /\ PanelShape(q)
  <2>1. Trims(p, q)
    BY <1>1, <1>2, RowTrims
  <2> QED BY <2>1 DEF Trims
<1>5. Trims(q, s) /\ PanelShape(s)
  <2>1. ASSUME NEW o \in DOMAIN q.rows
        PROVE  /\ RowShape(rows[o])
               /\ rows[o].pending = q.rows[o].pending
               /\ rows[o].at = q.rows[o].at
    <3>1. RowShape(q.rows[o])
      BY <1>4 DEF PanelShape
    <3>2. rows[o] = IF o \in kids /\ q.rows[o].parent = r
                    THEN [q.rows[o] EXCEPT !.parent = None] ELSE q.rows[o]
      OBVIOUS
    <3> HIDE DEF rows
    <3> QED BY <3>1, <3>2 DEF RowShape
  <2>2. DOMAIN rows = DOMAIN q.rows /\ rows = [o \in DOMAIN rows |-> rows[o]]
    OBVIOUS
  <2> HIDE DEF rows
  <2>3. Trims(q, s)
    BY <1>4, <2>1, <2>2, FamilyTrims
  <2> QED BY <2>3 DEF Trims
<1> HIDE DEF s
<1>6. Trims(s, RemoveSubtrees(s, kids))
  BY <1>5, RemoveSubtreesTrims
<1> QED BY <1>3, <1>4, <1>5, <1>6, TrimsOn

\* The views of a page: one for each of some nodes.
Views(views) ==
    /\ IsFiniteSet(DOMAIN views) /\ DOMAIN views \subseteq Nat
    /\ \A k \in DOMAIN views : views[k].ref[1] \in Nat

\* Other children of a row
LEMMA KidsTrim ==
  ASSUME NEW p, PanelShape(p), NEW r, NEW kids, Refs(kids)
  PROVE  Trims(p, [p EXCEPT !.rows[r].kids = kids])
<1> DEFINE s == [p EXCEPT !.rows[r].kids = kids]
           x == [p.rows[r] EXCEPT !.kids = kids]
<1>1. CASE r \in DOMAIN p.rows
  <2>1. RowShape(p.rows[r])
    BY <1>1 DEF PanelShape
  <2>2. RowShape(x) /\ x.pending = p.rows[r].pending /\ x.at = p.rows[r].at
    BY <2>1 DEF RowShape
  <2>3. s = [p EXCEPT !.rows[r] = x, !.expanded = p.expanded]
    BY <1>1 DEF PanelShape
  <2> HIDE DEF x, s
  <2>4. Trims(p, s)
    BY <1>1, <2>2, <2>3, RowTrims
  <2> QED BY <2>4 DEF s
<1>2. CASE r \notin DOMAIN p.rows
  <2>1. s = [p EXCEPT !.rows = p.rows]
    BY <1>2 DEF PanelShape
  <2>2. [p EXCEPT !.rows = p.rows] = [p EXCEPT !.held = p.held]
    BY DEF PanelShape
  <2> HIDE DEF s
  <2>3. Trims(p, s)
    BY <2>1, <2>2, HeldTrims
  <2> QED BY <2>3 DEF s
<1> QED BY <1>1, <1>2

\* More children of a row
LEMMA MoreKidsTrims ==
  ASSUME NEW p, PanelShape(p), NEW r, NEW more, Refs(more)
  PROVE  Trims(p, [p EXCEPT !.rows[r].kids = @ \cup more])
<1> DEFINE s == [p EXCEPT !.rows[r].kids = @ \cup more]
           kids == p.rows[r].kids \cup more
<1>1. CASE r \in DOMAIN p.rows
  <2>1. RowShape(p.rows[r])
    BY <1>1 DEF PanelShape
  <2>2. Refs(kids)
    BY <2>1, FS_Union DEF RowShape, Refs
  <2>3. s = [p EXCEPT !.rows[r].kids = kids]
    OBVIOUS
  <2> HIDE DEF kids, s
  <2>4. Trims(p, s)
    BY <2>2, <2>3, KidsTrim
  <2> QED BY <2>4 DEF s
<1>2. CASE r \notin DOMAIN p.rows
  <2>1. s = [p EXCEPT !.held = p.held]
    BY <1>2 DEF PanelShape
  <2> HIDE DEF s
  <2>3. Trims(p, s)
    BY <2>1, HeldTrims
  <2> QED BY <2>3 DEF s
<1> QED BY <1>1, <1>2

\* The children of a page are adopted one after the other.
LEMMA AdoptPageTrims ==
  ASSUME NEW p, PanelShape(p), NEW r, NEW further, NEW views,
         Views(views)
  PROVE  Trims(p, AdoptPage(p, r, views, further))
<1> DEFINE Taken(x, view) ==
               LET more == IF further THEN {view.ref} ELSE {}
               IN  [Adopt(x, view, r) EXCEPT !.rows[r].kids = @ \cup more]
           Pick(s) == Max(s)
           Step(x, k) == Taken(x, views[k])
<1> DEFINE D == DOMAIN views
           Goes(f, S) == f = [s \in S |->
               IF s = {} THEN p ELSE Step(f[s \ {Pick(s)}], Pick(s))]
           Sets(m) == {s \in SUBSET D : Cardinality(s) <= m}
           Iter == CHOOSE f : Goes(f, SUBSET D)
<1>a. AdoptPage(p, r, views, further) = Iter[D]
  BY DEF AdoptPage, FoldInOrder, MapThenFoldSet
<1> DEFINE Holds(s) == Trims(p, Iter[s])
<1>b. IsFiniteSet(D)
  BY DEF Views
<1>c. \A s \in SUBSET D : s # {} => Pick(s) \in s
  BY MaxExists DEF Views
<1>f. ASSUME NEW x, PanelShape(x), NEW k \in D
      PROVE  Trims(x, Step(x, k))
  <2> DEFINE view == views[k]
             q == Adopt(x, view, r)
             more == IF further THEN {view.ref} ELSE {}
             s == [q EXCEPT !.rows[r].kids = @ \cup more]
  <2>1. Trims(x, q) /\ PanelShape(q)
    BY <1>f, AdoptTrims DEF Trims
  <2>2. Refs(more)
    <3>1. view.ref[1] \in Nat
      BY DEF Views
    <3> HIDE DEF view
    <3> QED BY <3>1, FS_EmptySet, FS_Singleton DEF Refs
  <2>3. Step(x, k) = s
    OBVIOUS
  <2> HIDE DEF q, view, more
  <2>4. Trims(q, s)
    BY <2>1, <2>2, MoreKidsTrims
  <2> QED BY <2>1, <2>3, <2>4, TrimsOn
<1> HIDE DEF D, Step, Pick
<1>1. ASSUME NEW s \in SUBSET D, s # {}
      PROVE  /\ s \ {Pick(s)} \in SUBSET D /\ Pick(s) \in s
             /\ Cardinality(s) \in Nat \ {0}
             /\ Cardinality(s \ {Pick(s)}) = Cardinality(s) - 1
  BY <1>1, <1>b, <1>c, SmallerSet
<1>2. ASSUME NEW m \in Nat
      PROVE  \E f : Goes(f, Sets(m))
  <2> DEFINE Bad == {i \in Nat : ~\E f : Goes(f, Sets(i))}
  <2>1. 0 \notin Bad
    <3> DEFINE g == [s \in Sets(0) |-> p]
    <3>1. ASSUME NEW s \in Sets(0), s # {}
          PROVE  FALSE
      <4>1. s \in SUBSET D /\ Cardinality(s) <= 0
        OBVIOUS
      <4>2. Cardinality(s) \in Nat \ {0}
        BY <1>1, <3>1, <4>1
      <4> QED BY <4>1, <4>2
    <3>2. Goes(g, Sets(0))
      BY <3>1
    <3> QED BY <3>2
  <2>2. ASSUME NEW i \in Nat \ {0}, NEW f, Goes(f, Sets(i - 1))
        PROVE  \E g : Goes(g, Sets(i))
    <3> DEFINE g == [s \in Sets(i) |->
                  IF s = {} THEN p ELSE Step(f[s \ {Pick(s)}], Pick(s))]
    <3>1. ASSUME NEW s \in Sets(i), s # {}
          PROVE  g[s \ {Pick(s)}] = f[s \ {Pick(s)}]
      <4> DEFINE t == s \ {Pick(s)}
      <4>1. t \in Sets(i - 1) /\ t \in Sets(i)
        BY <1>1, <3>1
      <4> HIDE DEF t
      <4>2. f[t] = IF t = {} THEN p ELSE Step(f[t \ {Pick(t)}], Pick(t))
        BY <2>2, <4>1
      <4>3. g[t] = IF t = {} THEN p ELSE Step(f[t \ {Pick(t)}], Pick(t))
        BY <4>1
      <4>4. g[t] = f[t]
        BY <4>2, <4>3
      <4> QED BY <4>4 DEF t
    <3>2. Goes(g, Sets(i))
      BY <3>1
    <3> QED BY <3>2
  <2>3. Bad = {}
    <3> HIDE DEF Goes, Sets
    <3>1. ASSUME NEW i \in Bad
          PROVE  i - 1 \in Bad
      <4>1. i \in Nat \ {0} /\ ~\E f : Goes(f, Sets(i))
        BY <2>1
      <4>2. ~\E f : Goes(f, Sets(i - 1))
        BY <2>2, <4>1
      <4> QED BY <4>1, <4>2
    <3> QED BY <3>1, NoLeastFailure
  <2> QED BY <2>3
<1>3. Goes(Iter, SUBSET D)
  <2>1. Cardinality(D) \in Nat /\ \A s \in SUBSET D : Cardinality(s) <= Cardinality(D)
    BY <1>b, FS_CardinalityType, FS_Subset
  <2>2. Sets(Cardinality(D)) = SUBSET D
    BY <2>1
  <2> QED BY <1>2, <2>1, <2>2
<1>4. /\ Iter[{}] = p
      /\ \A s \in SUBSET D : s # {} => Iter[s] = Step(Iter[s \ {Pick(s)}], Pick(s))
  BY <1>3
<1> HIDE DEF Iter
<1>d. Holds({})
  BY <1>4, TrimsItself
<1>e. ASSUME NEW s \in SUBSET D, s # {}, Holds(s \ {Pick(s)})
      PROVE  Holds(s)
  <2>1. Iter[s] = Step(Iter[s \ {Pick(s)}], Pick(s))
    BY <1>4, <1>e
  <2>2. Trims(p, Iter[s \ {Pick(s)}]) /\ PanelShape(Iter[s \ {Pick(s)}])
    BY <1>e DEF Trims
  <2>3. Pick(s) \in D
    BY <1>1, <1>e
  <2>4. Trims(Iter[s \ {Pick(s)}], Iter[s])
    BY <1>f, <2>1, <2>2, <2>3
  <2> QED BY <2>2, <2>4, TrimsOn
<1>5. ASSUME NEW s \in SUBSET D
      PROVE  Holds(s)
  <2> DEFINE Bad == {i \in Nat : \E t \in SUBSET D : Cardinality(t) = i /\ ~Holds(t)}
  <2>1. ASSUME NEW i \in Bad
        PROVE  i - 1 \in Bad
    <3>1. PICK t \in SUBSET D : Cardinality(t) = i /\ ~Holds(t)
      OBVIOUS
    <3>2. t # {}
      BY <1>d, <3>1
    <3>3. ~Holds(t \ {Pick(t)})
      BY <1>e, <3>1, <3>2
    <3>4. /\ t \ {Pick(t)} \in SUBSET D
          /\ Cardinality(t \ {Pick(t)}) = i - 1 /\ i - 1 \in Nat
      <4> HIDE DEF Holds, Bad
      <4>1. /\ t \ {Pick(t)} \in SUBSET D
            /\ Cardinality(t) \in Nat \ {0}
            /\ Cardinality(t \ {Pick(t)}) = Cardinality(t) - 1
        BY <1>1, <3>1, <3>2
      <4> QED BY <3>1, <4>1
    <3> QED BY <3>3, <3>4
  <2>2. Bad = {}
    BY <2>1, NoLeastFailure
  <2>3. Cardinality(s) \in Nat
    BY <1>b, FS_Subset, FS_CardinalityType
  <2> QED BY <2>2, <2>3
<1> QED BY <1>a, <1>5 DEF Iter, D

\* The rows a page names
LEMMA ViewsRefs ==
  ASSUME NEW views, Views(views)
  PROVE  Refs({views[k].ref : k \in DOMAIN views})
<1> DEFINE named == {views[k].ref : k \in DOMAIN views}
           f == [k \in DOMAIN views |-> views[k].ref]
<1>1. f \in Surjection(DOMAIN views, named)
  BY DEF Surjection
<1> HIDE DEF f
<1>2. IsFiniteSet(named)
  BY <1>1, FS_Surjection DEF Views
<1>3. \A c \in named : c[1] \in Nat
  BY DEF Views
<1> QED BY <1>2, <1>3 DEF Refs

\* A first page replaces the children.
LEMMA ReplaceChildrenTrims ==
  ASSUME NEW p, PanelShape(p), NEW r \in DOMAIN p.rows, NEW owned, NEW views,
         Views(views)
  PROVE  Trims(p, ReplaceChildren(p, r, views, owned))
<1> DEFINE named == {views[k].ref : k \in DOMAIN views}
           taken == AdoptPage(p, r, views, FALSE)
           base == [taken EXCEPT !.rows[r].kids = named]
           Pick(s) == CHOOSE c \in s : \A d \in s : d[1] <= c[1]
           Step(x, c) == Defer(Detach(x, r, c), c, owned)
<1> DEFINE D == p.rows[r].kids \ named
           Goes(f, S) == f = [s \in S |->
               IF s = {} THEN base ELSE Step(f[s \ {Pick(s)}], Pick(s))]
           Sets(m) == {s \in SUBSET D : Cardinality(s) <= m}
           Iter == CHOOSE f : Goes(f, SUBSET D)
<1>a. ReplaceChildren(p, r, views, owned) = Iter[D]
  BY DEF ReplaceChildren, MapThenFoldSet
<1> DEFINE Holds(s) == Trims(p, Iter[s])
<1>b. IsFiniteSet(D) /\ \A c \in D : c[1] \in Nat
  <2>1. Refs(p.rows[r].kids)
    BY DEF PanelShape, RowShape
  <2> HIDE DEF named
  <2> QED BY <2>1, FS_Subset DEF Refs
<1>c. ASSUME NEW s \in SUBSET D, s # {}
      PROVE  Pick(s) \in s
  <2> DEFINE key == [c \in s |-> c[1]]
  <2> HIDE DEF D
  <2>1. IsFiniteSet(s) /\ key \in [s -> Nat]
    BY <1>b, FS_Subset
  <2>2. PICK c \in s : \A d \in s : key[d] <= key[c]
    <3> HIDE DEF key
    <3> QED BY <2>1, <1>c, LastExists
  <2>3. \A d \in s : d[1] <= c[1]
    BY <2>2
  <2> QED BY <2>3
<1>f. ASSUME NEW x, PanelShape(x), NEW c
      PROVE  Trims(x, Step(x, c))
  <2>1. Trims(x, Detach(x, r, c)) /\ PanelShape(Detach(x, r, c))
    BY <1>f, DetachTrims DEF Trims
  <2>2. Trims(Detach(x, r, c), Step(x, c))
    BY <2>1, DeferTrims
  <2> QED BY <2>1, <2>2, TrimsOn
<1>g. Trims(p, base) /\ PanelShape(base)
  <2>1. Trims(p, taken) /\ PanelShape(taken)
    BY AdoptPageTrims DEF Trims
  <2>2. Refs(named)
    BY ViewsRefs
  <2> HIDE DEF taken, named
  <2>3. Trims(taken, base)
    BY <2>1, <2>2, KidsTrim
  <2> HIDE DEF base
  <2>4. Trims(p, base)
    BY <2>1, <2>3, TrimsOn
  <2> QED BY <2>4 DEF Trims
<1> HIDE DEF base, named
<1> HIDE DEF D, Step, Pick
<1>1. ASSUME NEW s \in SUBSET D, s # {}
      PROVE  /\ s \ {Pick(s)} \in SUBSET D /\ Pick(s) \in s
             /\ Cardinality(s) \in Nat \ {0}
             /\ Cardinality(s \ {Pick(s)}) = Cardinality(s) - 1
  BY <1>1, <1>b, <1>c, SmallerSet
<1>2. ASSUME NEW m \in Nat
      PROVE  \E f : Goes(f, Sets(m))
  <2> DEFINE Bad == {i \in Nat : ~\E f : Goes(f, Sets(i))}
  <2>1. 0 \notin Bad
    <3> DEFINE g == [s \in Sets(0) |-> base]
    <3>1. ASSUME NEW s \in Sets(0), s # {}
          PROVE  FALSE
      <4>1. s \in SUBSET D /\ Cardinality(s) <= 0
        OBVIOUS
      <4>2. Cardinality(s) \in Nat \ {0}
        BY <1>1, <3>1, <4>1
      <4> QED BY <4>1, <4>2
    <3>2. Goes(g, Sets(0))
      BY <3>1
    <3> QED BY <3>2
  <2>2. ASSUME NEW i \in Nat \ {0}, NEW f, Goes(f, Sets(i - 1))
        PROVE  \E g : Goes(g, Sets(i))
    <3> DEFINE g == [s \in Sets(i) |->
                  IF s = {} THEN base ELSE Step(f[s \ {Pick(s)}], Pick(s))]
    <3>1. ASSUME NEW s \in Sets(i), s # {}
          PROVE  g[s \ {Pick(s)}] = f[s \ {Pick(s)}]
      <4> DEFINE t == s \ {Pick(s)}
      <4>1. t \in Sets(i - 1) /\ t \in Sets(i)
        BY <1>1, <3>1
      <4> HIDE DEF t
      <4>2. f[t] = IF t = {} THEN base ELSE Step(f[t \ {Pick(t)}], Pick(t))
        BY <2>2, <4>1
      <4>3. g[t] = IF t = {} THEN base ELSE Step(f[t \ {Pick(t)}], Pick(t))
        BY <4>1
      <4>4. g[t] = f[t]
        BY <4>2, <4>3
      <4> QED BY <4>4 DEF t
    <3>2. Goes(g, Sets(i))
      BY <3>1
    <3> QED BY <3>2
  <2>3. Bad = {}
    <3> HIDE DEF Goes, Sets
    <3>1. ASSUME NEW i \in Bad
          PROVE  i - 1 \in Bad
      <4>1. i \in Nat \ {0} /\ ~\E f : Goes(f, Sets(i))
        BY <2>1
      <4>2. ~\E f : Goes(f, Sets(i - 1))
        BY <2>2, <4>1
      <4> QED BY <4>1, <4>2
    <3> QED BY <3>1, NoLeastFailure
  <2> QED BY <2>3
<1>3. Goes(Iter, SUBSET D)
  <2>1. Cardinality(D) \in Nat /\ \A s \in SUBSET D : Cardinality(s) <= Cardinality(D)
    BY <1>b, FS_CardinalityType, FS_Subset
  <2>2. Sets(Cardinality(D)) = SUBSET D
    BY <2>1
  <2> QED BY <1>2, <2>1, <2>2
<1>4. /\ Iter[{}] = base
      /\ \A s \in SUBSET D : s # {} => Iter[s] = Step(Iter[s \ {Pick(s)}], Pick(s))
  BY <1>3
<1> HIDE DEF Iter
<1>d. Holds({})
  BY <1>4, <1>g
<1>e. ASSUME NEW s \in SUBSET D, s # {}, Holds(s \ {Pick(s)})
      PROVE  Holds(s)
  <2>1. Iter[s] = Step(Iter[s \ {Pick(s)}], Pick(s))
    BY <1>4, <1>e
  <2>2. Trims(p, Iter[s \ {Pick(s)}]) /\ PanelShape(Iter[s \ {Pick(s)}])
    BY <1>e DEF Trims
  <2>4. Trims(Iter[s \ {Pick(s)}], Iter[s])
    BY <1>f, <2>1, <2>2
  <2> QED BY <2>2, <2>4, TrimsOn
<1>5. ASSUME NEW s \in SUBSET D
      PROVE  Holds(s)
  <2> DEFINE Bad == {i \in Nat : \E t \in SUBSET D : Cardinality(t) = i /\ ~Holds(t)}
  <2>1. ASSUME NEW i \in Bad
        PROVE  i - 1 \in Bad
    <3>1. PICK t \in SUBSET D : Cardinality(t) = i /\ ~Holds(t)
      OBVIOUS
    <3>2. t # {}
      BY <1>d, <3>1
    <3>3. ~Holds(t \ {Pick(t)})
      BY <1>e, <3>1, <3>2
    <3>4. /\ t \ {Pick(t)} \in SUBSET D
          /\ Cardinality(t \ {Pick(t)}) = i - 1 /\ i - 1 \in Nat
      <4> HIDE DEF Holds, Bad
      <4>1. /\ t \ {Pick(t)} \in SUBSET D
            /\ Cardinality(t) \in Nat \ {0}
            /\ Cardinality(t \ {Pick(t)}) = Cardinality(t) - 1
        BY <1>1, <3>1, <3>2
      <4> QED BY <3>1, <4>1
    <3> QED BY <3>3, <3>4
  <2>2. Bad = {}
    BY <2>1, NoLeastFailure
  <2>3. Cardinality(s) \in Nat
    BY <1>b, FS_Subset, FS_CardinalityType
  <2> QED BY <2>2, <2>3
<1> QED BY <1>a, <1>5 DEF Iter, D

-----------------------------------------------------------------------------
\* The controller makes requests: from the panel P before a handler to the
\* panel p after it each row is tracked.

RequestShape(m) ==
    \/ m \in [kind : {"root"}, live : BOOLEAN]
    \/ m \in [kind : {"children"}, ref : {m.ref}, at : {m.at},
              after : {m.after}, live : BOOLEAN]

NewRequest(m) == RequestShape(m) /\ m.live

NewRequests(s) == IsSeq(s) /\ \A k \in DOMAIN s : NewRequest(s[k])

\* The row loads.
Loads(p, r) == r \in DOMAIN p.rows /\ p.rows[r].pending # None

\* The new requests for a row's children, and for the root
OutTo(p, r) == {k \in DOMAIN p.out : p.out[k].kind = "children" /\ p.out[k].ref = r}
OutRoot(p) == {k \in DOMAIN p.out : p.out[k].kind = "root"}

\* Of p and q the requests for all other children are the same.
SameOut(p, q, refs) == \A o : o \notin refs => OutTo(q, o) = OutTo(p, o)

SameRoot(p, q) == q.asking = p.asking /\ OutRoot(q) = OutRoot(p)

\* From P to p row r keeps its request, has a new one, or has none; the one it
\* had is given up.
RowTracked(P, p, r) ==
    \/ Loads(P, r) /\ Keeps(P, p, r) /\ r \notin p.cut /\ OutTo(p, r) = {}
    \/ /\ Loads(p, r) /\ (Loads(P, r) => r \in p.cut) /\ One(OutTo(p, r))
       /\ \A k \in OutTo(p, r) :
              /\ p.out[k].at = p.rows[r].at
              /\ p.out[k].after = p.rows[r].pending.after
    \/ ~Loads(p, r) /\ (Loads(P, r) => r \in p.cut) /\ OutTo(p, r) = {}

\* So do the rows but those whose answer is being handled.
Tracks(P, handled, p) ==
    /\ PanelShape(p)
    /\ NewRequests(p.out)
    /\ \A r : r \notin handled => RowTracked(P, p, r)
    /\ \A r \in handled : OutTo(p, r) = {}

RootTracked(P, answered, p) ==
    IF p.asking
    THEN \/ One(OutRoot(p)) /\ (P.asking => answered)
         \/ OutRoot(p) = {} /\ P.asking /\ ~answered
    ELSE OutRoot(p) = {} /\ (P.asking => answered)

\* Where no new request is made
LEMMA TracksFrom ==
  ASSUME NEW P, NEW q, Trims(P, q), P.out = <<>>, NEW handled, P.cut \subseteq handled
  PROVE  /\ Tracks(P, handled, q)
         /\ OutRoot(q) = {} /\ q.asking = P.asking
         /\ \A r : OutTo(q, r) = {}
<1>1. PanelShape(q) /\ q.out = <<>> /\ q.asking = P.asking
  BY DEF Trims
<1>2. /\ NewRequests(q.out) /\ DOMAIN q.out = {} /\ OutRoot(q) = {}
      /\ \A r : OutTo(q, r) = {}
  BY <1>1, EmptyIs DEF OutRoot, OutTo, NewRequests
<1>3. ASSUME NEW r, r \notin handled
      PROVE  RowTracked(P, q, r)
  <2>1. CASE Loads(q, r)
    <3>1. Keeps(P, q, r) /\ (r \in q.cut => r \in P.cut)
      BY <2>1 DEF Trims, Loads
    <3> QED BY <1>2, <1>3, <2>1, <3>1 DEF RowTracked, Loads, Keeps
  <2>2. CASE ~Loads(q, r)
    <3>1. ASSUME Loads(P, r), r \notin q.cut
          PROVE  FALSE
      <4>1. Keeps(P, q, r)
        BY <3>1 DEF Trims, Loads
      <4> QED BY <2>2, <3>1, <4>1 DEF Keeps, Loads
    <3> QED BY <1>2, <2>2, <3>1 DEF RowTracked
  <2> QED BY <2>1, <2>2
<1> QED BY <1>1, <1>2, <1>3 DEF Tracks

\* What changes neither a request nor the rows that have one
LEMMA TracksOn ==
  ASSUME NEW P, NEW p, NEW q, NEW handled, Tracks(P, handled, p),
         PanelShape(q), q.out = p.out,
         \A r : r \notin handled =>
             /\ r \in q.cut <=> r \in p.cut
             /\ Loads(q, r) <=> Loads(p, r)
             /\ Loads(p, r) => Keeps(p, q, r)
  PROVE  Tracks(P, handled, q)
<1>1. \A r : OutTo(q, r) = OutTo(p, r)
  BY DEF OutTo
<1>2. ASSUME NEW r, r \notin handled
      PROVE  RowTracked(P, q, r)
  <2>1. /\ RowTracked(P, p, r) /\ OutTo(q, r) = OutTo(p, r)
        /\ r \in q.cut <=> r \in p.cut
        /\ Loads(q, r) <=> Loads(p, r)
    BY <1>1, <1>2 DEF Tracks
  <2>2. CASE Loads(P, r) /\ Keeps(P, p, r) /\ r \notin p.cut /\ OutTo(p, r) = {}
    <3>1. Loads(p, r)
      BY <2>2 DEF Loads, Keeps
    <3>2. Keeps(p, q, r)
      BY <1>2, <3>1
    <3>3. Keeps(P, q, r)
      BY <2>2, <3>2 DEF Keeps
    <3> QED BY <2>1, <2>2, <3>3 DEF RowTracked
  <2>3. CASE /\ Loads(p, r) /\ (Loads(P, r) => r \in p.cut) /\ One(OutTo(p, r))
             /\ \A k \in OutTo(p, r) :
                    /\ p.out[k].at = p.rows[r].at
                    /\ p.out[k].after = p.rows[r].pending.after
    <3>1. Keeps(p, q, r)
      BY <1>2, <2>3
    <3>2. q.rows[r].at = p.rows[r].at /\ q.rows[r].pending = p.rows[r].pending
      BY <3>1 DEF Keeps
    <3> QED BY <2>1, <2>3, <3>2 DEF RowTracked
  <2>4. CASE ~Loads(p, r) /\ (Loads(P, r) => r \in p.cut) /\ OutTo(p, r) = {}
    BY <2>1, <2>4 DEF RowTracked
  <2> QED BY <2>1, <2>2, <2>3, <2>4 DEF RowTracked
<1> QED BY <1>1, <1>2 DEF Tracks

\* The new requests of the other rows, over several operators
LEMMA SameOutItself ==
  ASSUME NEW p, NEW refs
  PROVE  SameOut(p, p, refs)
BY DEF SameOut

LEMMA SameOutOn ==
  ASSUME NEW p, NEW q, NEW s, NEW t, NEW refs,
         SameOut(p, q, {}), SameOut(q, s, {}), SameOut(s, t, refs)
  PROVE  SameOut(p, t, refs)
<1>1. ASSUME NEW o, o \notin refs
      PROVE  OutTo(t, o) = OutTo(p, o)
  <2>1. OutTo(q, o) = OutTo(p, o)
    BY DEF SameOut
  <2>2. OutTo(s, o) = OutTo(q, o)
    BY DEF SameOut
  <2>3. OutTo(t, o) = OutTo(s, o)
    BY <1>1 DEF SameOut
  <2> QED BY <2>1, <2>2, <2>3
<1> QED BY <1>1 DEF SameOut

\* Another panel with the same rows and requests
LEMMA SameRowsTrack ==
  ASSUME NEW P, NEW p, NEW q, NEW handled, Tracks(P, handled, p),
         PanelShape(q), q.rows = p.rows, q.cut = p.cut, q.out = p.out
  PROVE  /\ Tracks(P, handled, q)
         /\ OutRoot(q) = OutRoot(p)
         /\ SameOut(p, q, {})
<1>1. \A r : /\ r \in q.cut <=> r \in p.cut
             /\ Loads(q, r) <=> Loads(p, r)
             /\ Loads(p, r) => Keeps(p, q, r)
  BY DEF Loads, Keeps
<1>2. Tracks(P, handled, q)
  BY <1>1, TracksOn
<1>3. OutRoot(q) = OutRoot(p) /\ SameOut(p, q, {})
  BY DEF OutRoot, OutTo, SameOut
<1> QED BY <1>2, <1>3

\* One more request
LEMMA OutAppended ==
  ASSUME NEW p, NEW q, NEW e, q.out = Append(p.out, e),
         NewRequests(p.out), NewRequest(e)
  PROVE  /\ NewRequests(q.out)
         /\ \A r : ~(e.kind = "children" /\ e.ref = r) => OutTo(q, r) = OutTo(p, r)
         /\ e.kind = "children" => OutRoot(q) = OutRoot(p)
         /\ OutTo(p, e.ref) = {} /\ e.kind = "children" => One(OutTo(q, e.ref))
         /\ \A k \in OutTo(q, e.ref) : q.out[k] = e \/ k \in OutTo(p, e.ref)
         /\ OutRoot(p) = {} /\ e.kind = "root" => One(OutRoot(q))
         /\ \A r : \A k \in OutTo(p, r) : q.out[k] = p.out[k]
<1> DEFINE n == Len(p.out)
<1>1. n \in Nat /\ DOMAIN p.out = 1..n
  BY IsSeqFacts DEF NewRequests
<1>2. /\ IsSeq(q.out) /\ Len(q.out) = n + 1
      /\ \A k \in 1..n : q.out[k] = p.out[k]
      /\ q.out[n + 1] = e
  BY AppendIs DEF NewRequests
<1>3. DOMAIN q.out = 1..(n + 1)
  BY <1>2, IsSeqFacts
<1> HIDE DEF n
<1>4. \A k \in DOMAIN q.out : k = n + 1 \/ k \in DOMAIN p.out
  BY <1>1, <1>3
<1>5. DOMAIN p.out \subseteq DOMAIN q.out /\ n + 1 \in DOMAIN q.out
      /\ n + 1 \notin DOMAIN p.out
  BY <1>1, <1>3
<1>6. \A k \in DOMAIN q.out : NewRequest(q.out[k])
  BY <1>1, <1>2, <1>4 DEF NewRequests
<1>7. \A k \in DOMAIN p.out : q.out[k] = p.out[k]
  BY <1>1, <1>2
<1>8. ASSUME NEW r
      PROVE  OutTo(q, r) = OutTo(p, r) \cup
                 (IF e.kind = "children" /\ e.ref = r THEN {n + 1} ELSE {})
  BY <1>2, <1>4, <1>5, <1>7 DEF OutTo
<1>9. OutRoot(q) = OutRoot(p) \cup (IF e.kind = "root" THEN {n + 1} ELSE {})
  BY <1>2, <1>4, <1>5, <1>7 DEF OutRoot
<1>10. OutTo(p, e.ref) = {} /\ e.kind = "children" => OutTo(q, e.ref) = {n + 1}
  BY <1>8
<1>11. /\ OutTo(p, e.ref) = {} /\ e.kind = "children" => One(OutTo(q, e.ref))
       /\ \A k \in OutTo(q, e.ref) : q.out[k] = e \/ k \in OutTo(p, e.ref)
  BY <1>2, <1>8, <1>10 DEF One
<1>12. OutRoot(p) = {} /\ e.kind = "root" => One(OutRoot(q))
  BY <1>9 DEF One
<1>13. \A r : \A k \in OutTo(p, r) : q.out[k] = p.out[k]
  BY <1>7 DEF OutTo
<1>14. \A r : ~(e.kind = "children" /\ e.ref = r) => OutTo(q, r) = OutTo(p, r)
  BY <1>8
<1>15. e.kind = "children" => OutRoot(q) = OutRoot(p)
  BY <1>9
<1>16. NewRequests(q.out)
  BY <1>2, <1>6 DEF NewRequests
<1> QED BY <1>11, <1>12, <1>13, <1>14, <1>15, <1>16

\* A row gets a request, or had one.
LEMMA FetchTracks ==
  ASSUME NEW P, NEW p, NEW handled, Tracks(P, handled, p),
         NEW r \in DOMAIN p.rows, r \notin handled,
         NEW after \in Node \cup {None}, NEW owned \in BOOLEAN
  PROVE  LET q == Fetch(p, r, after, owned)
         IN  /\ Tracks(P, handled, q)
             /\ SameRoot(p, q)
             /\ SameOut(p, q, {r})
<1> DEFINE e == [kind |-> "children", ref |-> r, at |-> p.rows[r].at,
                 after |-> after, live |-> TRUE]
           given == [after |-> after, owned |-> owned]
           x == [p.rows[r] EXCEPT !.pending = given]
           rows == [p.rows EXCEPT ![r] = x]
           s == [p EXCEPT !.rows[r].pending = given, !.out = Append(@, e)]
<1>1. CASE p.rows[r].pending # None
  BY <1>1 DEF Fetch, SameOut, SameRoot
<1>2. CASE p.rows[r].pending = None
  <2>1. Fetch(p, r, after, owned) = s
    BY <1>2 DEF Fetch
  <2>2. PanelShape(p) /\ RowShape(p.rows[r])
    BY DEF Tracks, PanelShape
  <2>3. given \in Pending /\ given # None /\ given.after = after
    BY DomTreeAssumption DEF Pending
  <2>4. NewRequest(e) /\ e.kind = "children" /\ e.ref = r
        /\ e.at = p.rows[r].at /\ e.after = after
    BY DEF NewRequest, RequestShape
  <2>5. /\ RowShape(x) /\ x.at = p.rows[r].at
        /\ x.pending = given
    <3> HIDE DEF given
    <3> QED BY <2>2, <2>3 DEF RowShape
  <2>6. /\ s \in [rootRev : {p.rootRev}, asking : BOOLEAN,
                  required : {p.required}, waiters : {p.waiters},
                  rows : {rows}, expanded : {p.expanded}, held : {p.held},
                  cut : {p.cut}, out : {Append(p.out, e)}]
        /\ s.asking = p.asking
    <3> HIDE DEF e, given
    <3> QED BY <2>2 DEF PanelShape
  <2>7. /\ DOMAIN rows = DOMAIN p.rows /\ rows = [o \in DOMAIN rows |-> rows[o]]
        /\ rows[r] = x
        /\ \A o \in DOMAIN p.rows : o # r => rows[o] = p.rows[o]
    BY <2>2 DEF PanelShape
  <2> HIDE DEF e, given, x, rows, s
  <2>8. s.rows = rows /\ s.cut = p.cut /\ s.out = Append(p.out, e)
    BY <2>6
  <2>9. PanelShape(s)
    <3>1. \A o \in DOMAIN rows : RowShape(rows[o])
      BY <2>2, <2>5, <2>7 DEF PanelShape
    <3> QED BY <2>6, <2>7, <2>8, <3>1 DEF PanelShape
  <2>10. /\ RowTracked(P, p, r) /\ ~Loads(p, r) /\ OutTo(p, r) = {}
    <3>1. RowTracked(P, p, r) /\ ~Loads(p, r)
      BY <1>2 DEF Tracks, Loads
    <3> QED BY <3>1 DEF RowTracked, Loads, Keeps
  <2>11. /\ NewRequests(s.out)
         /\ \A o : o # r => OutTo(s, o) = OutTo(p, o)
         /\ OutRoot(s) = OutRoot(p)
         /\ One(OutTo(s, r))
         /\ \A k \in OutTo(s, r) : s.out[k] = e
         /\ \A o : \A k \in OutTo(p, o) : s.out[k] = p.out[k]
    <3>1. NewRequests(p.out)
      BY DEF Tracks
    <3>2. NewRequest(e) /\ s.out = Append(p.out, e)
      BY <2>4, <2>8
    <3>3. NewRequests(s.out)
      BY <3>1, <3>2, OutAppended
    <3>4. \A o : ~(e.kind = "children" /\ e.ref = o) => OutTo(s, o) = OutTo(p, o)
      BY <3>1, <3>2, OutAppended
    <3>5. e.kind = "children" => OutRoot(s) = OutRoot(p)
      BY <3>1, <3>2, OutAppended
    <3>6. OutTo(p, e.ref) = {} /\ e.kind = "children" => One(OutTo(s, e.ref))
      BY <3>1, <3>2, OutAppended
    <3>6a. \A k \in OutTo(s, e.ref) : s.out[k] = e \/ k \in OutTo(p, e.ref)
      BY <3>1, <3>2, OutAppended
    <3>7. \A o : \A k \in OutTo(p, o) : s.out[k] = p.out[k]
      BY <3>1, <3>2, OutAppended
    <3>8. \A o : o # r => OutTo(s, o) = OutTo(p, o)
      BY <2>4, <3>4
    <3>9. One(OutTo(s, r)) /\ \A k \in OutTo(s, r) : s.out[k] = e
      BY <2>4, <2>10, <3>6, <3>6a
    <3> QED BY <2>4, <3>3, <3>5, <3>7, <3>8, <3>9
  <2>12. ASSUME NEW o, o \notin handled
         PROVE  RowTracked(P, s, o)
    <3>1. CASE o = r
      <4>1. Loads(s, r) /\ s.rows[r].at = p.rows[r].at
            /\ s.rows[r].pending.after = after
        BY <2>3, <2>5, <2>7, <2>8 DEF Loads
      <4>2. Loads(P, r) => r \in s.cut
        BY <2>8, <2>10 DEF RowTracked, Loads, Keeps
      <4> QED BY <2>4, <2>11, <3>1, <4>1, <4>2 DEF RowTracked
    <3>2. CASE o # r
      <4>1. RowTracked(P, p, o)
        BY <2>12 DEF Tracks
      <4>2. /\ o \in DOMAIN s.rows <=> o \in DOMAIN p.rows
            /\ o \in DOMAIN p.rows => s.rows[o] = p.rows[o]
            /\ OutTo(s, o) = OutTo(p, o) /\ s.cut = p.cut
            /\ \A k \in OutTo(p, o) : s.out[k] = p.out[k]
        BY <2>7, <2>8, <2>11, <3>2
      <4> QED BY <4>1, <4>2 DEF RowTracked, Loads, Keeps
    <3> QED BY <3>1, <3>2
  <2>13. \A o \in handled : OutTo(s, o) = {}
    BY <2>11 DEF Tracks
  <2>14. Tracks(P, handled, s)
    BY <2>9, <2>11, <2>12, <2>13 DEF Tracks
  <2>15. SameOut(p, s, {r})
    BY <2>11 DEF SameOut
  <2>16. SameRoot(p, s)
    BY <2>6, <2>11 DEF SameRoot
  <2> QED BY <2>1, <2>14, <2>15, <2>16
<1> QED BY <1>1, <1>2

\* What a change of one row's revision leaves alone
LEMMA AdvanceIs ==
  ASSUME NEW p, PanelShape(p), NEW r \in DOMAIN p.rows, NEW rev
  PROVE  LET q == Advance(p, r, rev)
         IN  /\ PanelShape(q) /\ q.out = p.out /\ q.asking = p.asking
             /\ DOMAIN q.rows = DOMAIN p.rows
             /\ q.rows[r].pending = None
             /\ p.rows[r].pending # None => r \in q.cut
             /\ p.cut \subseteq q.cut /\ q.cut \subseteq p.cut \cup {r}
             /\ \A o \in DOMAIN p.rows : o # r => q.rows[o] = p.rows[o]
<1> DEFINE s == Settle(p, {r})
           x == [s.rows[r] EXCEPT !.at = rev, !.loaded = FALSE, !.more = None]
           q == Advance(p, r, rev)
           given == {o \in {r} \cap DOMAIN p.rows : p.rows[o].pending # None}
<1>1. /\ Trims(p, q) /\ DOMAIN q.rows = DOMAIN p.rows
      /\ q.rows[r].pending = None
  BY AdvanceTrims
<1>2. /\ s.cut = p.cut \cup given
      /\ s.rows = [o \in DOMAIN p.rows |->
                      IF o \in given THEN [p.rows[o] EXCEPT !.pending = None]
                      ELSE p.rows[o]]
      /\ PanelShape(s)
  <2>1. PanelShape(s)
    BY SettleTrims DEF Trims
  <2>2. /\ s.cut = p.cut \cup given
        /\ s.rows = [o \in DOMAIN p.rows |->
                        IF o \in given THEN [p.rows[o] EXCEPT !.pending = None]
                        ELSE p.rows[o]]
    BY DEF Settle, PanelShape
  <2> QED BY <2>1, <2>2
<1>3. q = [s EXCEPT !.rows[r] =
              [@ EXCEPT !.at = rev, !.loaded = FALSE, !.more = None]]
  BY DEF Advance
<1>4. given \subseteq {r} /\ (p.rows[r].pending # None => r \in given)
  OBVIOUS
<1> HIDE DEF s, given
<1>5. q.rows = [s.rows EXCEPT ![r] = x] /\ q.cut = s.cut
  BY <1>2, <1>3 DEF PanelShape
<1> HIDE DEF q, x
<1>6. \A o \in DOMAIN p.rows : o # r => q.rows[o] = p.rows[o]
  BY <1>2, <1>4, <1>5
<1>7. PanelShape(q) /\ q.out = p.out /\ q.asking = p.asking
  BY <1>1 DEF Trims
<1>8. /\ p.rows[r].pending # None => r \in q.cut
      /\ p.cut \subseteq q.cut /\ q.cut \subseteq p.cut \cup {r}
  BY <1>2, <1>4, <1>5
<1> QED BY <1>1, <1>6, <1>7, <1>8 DEF q

\* A row is at a later revision, and its request given up.
LEMMA AdvanceTracks ==
  ASSUME NEW P, NEW p, NEW handled, Tracks(P, handled, p),
         NEW r \in DOMAIN p.rows, OutTo(p, r) = {}, NEW rev
  PROVE  LET q == Advance(p, r, rev)
         IN  /\ Tracks(P, handled, q)
             /\ DOMAIN q.rows = DOMAIN p.rows
             /\ SameRoot(p, q)
             /\ SameOut(p, q, {})
<1> DEFINE q == Advance(p, r, rev)
<1>1. PanelShape(p)
  BY DEF Tracks
<1>2. /\ PanelShape(q) /\ q.out = p.out /\ q.asking = p.asking
      /\ DOMAIN q.rows = DOMAIN p.rows
      /\ q.rows[r].pending = None
      /\ p.rows[r].pending # None => r \in q.cut
      /\ p.cut \subseteq q.cut /\ q.cut \subseteq p.cut \cup {r}
      /\ \A o \in DOMAIN p.rows : o # r => q.rows[o] = p.rows[o]
  BY <1>1, AdvanceIs
<1> HIDE DEF q
<1>3. OutRoot(q) = OutRoot(p) /\ \A o : OutTo(q, o) = OutTo(p, o)
  BY <1>2 DEF OutRoot, OutTo
<1>4. ASSUME NEW o, o \notin handled
      PROVE  RowTracked(P, q, o)
  <2>1. RowTracked(P, p, o)
    BY <1>4 DEF Tracks
  <2>2. CASE o = r
    <3>1. ~Loads(q, r) /\ (Loads(p, r) => r \in q.cut) /\ OutTo(q, r) = {}
      BY <1>2, <1>3 DEF Loads
    <3>2. Loads(P, r) => r \in p.cut \/ Loads(p, r)
      BY <2>1, <2>2 DEF RowTracked, Loads, Keeps
    <3> QED BY <1>2, <2>2, <3>1, <3>2 DEF RowTracked
  <2>3. CASE o # r
    <3>1. /\ o \in q.cut <=> o \in p.cut
          /\ o \in DOMAIN q.rows <=> o \in DOMAIN p.rows
          /\ o \in DOMAIN p.rows => q.rows[o] = p.rows[o]
          /\ OutTo(q, o) = OutTo(p, o)
      BY <1>2, <1>3, <2>3
    <3> QED BY <1>2, <2>1, <3>1 DEF RowTracked, Loads, Keeps
  <2> QED BY <2>2, <2>3
<1>5. Tracks(P, handled, q)
  BY <1>2, <1>3, <1>4 DEF Tracks
<1>6. SameOut(p, q, {})
  BY <1>3 DEF SameOut
<1>7. SameRoot(p, q)
  BY <1>2, <1>3 DEF SameRoot
<1> QED BY <1>2, <1>5, <1>6, <1>7 DEF q

\* Expanded rows that are not loaded are asked for, each once.
LEMMA ResumeTracks ==
  ASSUME NEW P, NEW p, NEW handled, Tracks(P, handled, p),
         NEW refs, IsFiniteSet(DOMAIN refs), DOMAIN refs \subseteq Nat,
         \A k \in DOMAIN refs : refs[k] \notin handled, NEW owned \in BOOLEAN
  PROVE  LET q == Resume(p, refs, owned)
         IN  /\ Tracks(P, handled, q)
             /\ SameRoot(p, q)
<1> DEFINE Wanted(x, r) ==
               /\ r \in DOMAIN x.rows /\ x.rows[r].exp /\ ~x.rows[r].loaded
               /\ r \in x.expanded /\ r \in Owned(x) \ Held(x)
           Next1(x, r) == IF Wanted(x, r) THEN Fetch(x, r, None, owned) ELSE x
           Pick(s) == Max(s)
           Step(x, k) == Next1(x, refs[k])
<1> DEFINE D == DOMAIN refs
           Goes(f, S) == f = [s \in S |->
               IF s = {} THEN p ELSE Step(f[s \ {Pick(s)}], Pick(s))]
           Sets(m) == {s \in SUBSET D : Cardinality(s) <= m}
           Iter == CHOOSE f : Goes(f, SUBSET D)
<1>a. Resume(p, refs, owned) = Iter[D]
  BY DEF Resume, FoldInOrder, MapThenFoldSet
<1> DEFINE Good(q) == /\ Tracks(P, handled, q)
                      /\ SameRoot(p, q)
           Holds(s) == Good(Iter[s])
<1>b. IsFiniteSet(D)
  OBVIOUS
<1>c. \A s \in SUBSET D : s # {} => Pick(s) \in s
  BY MaxExists
<1>f. ASSUME NEW x, Good(x), NEW k \in D
      PROVE  Good(Step(x, k))
  <2> DEFINE r == refs[k]
  <2>1. CASE Wanted(x, r)
    <3>1. r \in DOMAIN x.rows /\ r \notin handled
      BY <2>1
    <3>2. Step(x, k) = Fetch(x, r, None, owned)
      BY <2>1
    <3> HIDE DEF r, Wanted
    <3>3. Tracks(P, handled, Fetch(x, r, None, owned))
      BY <1>f, <3>1, FetchTracks
    <3>4. SameRoot(x, Fetch(x, r, None, owned))
      BY <1>f, <3>1, FetchTracks
    <3> QED BY <1>f, <3>2, <3>3, <3>4 DEF SameRoot
  <2>2. CASE ~Wanted(x, r)
    <3>1. Step(x, k) = x
      BY <2>2
    <3> QED BY <1>f, <3>1
  <2> QED BY <2>1, <2>2
<1>g. Good(p)
  BY DEF SameRoot
<1> HIDE DEF Good
<1> HIDE DEF D, Step, Pick
<1>1. ASSUME NEW s \in SUBSET D, s # {}
      PROVE  /\ s \ {Pick(s)} \in SUBSET D /\ Pick(s) \in s
             /\ Cardinality(s) \in Nat \ {0}
             /\ Cardinality(s \ {Pick(s)}) = Cardinality(s) - 1
  BY <1>1, <1>b, <1>c, SmallerSet
<1>2. ASSUME NEW m \in Nat
      PROVE  \E f : Goes(f, Sets(m))
  <2> DEFINE Bad == {i \in Nat : ~\E f : Goes(f, Sets(i))}
  <2>1. 0 \notin Bad
    <3> DEFINE g == [s \in Sets(0) |-> p]
    <3>1. ASSUME NEW s \in Sets(0), s # {}
          PROVE  FALSE
      <4>1. s \in SUBSET D /\ Cardinality(s) <= 0
        OBVIOUS
      <4>2. Cardinality(s) \in Nat \ {0}
        BY <1>1, <3>1, <4>1
      <4> QED BY <4>1, <4>2
    <3>2. Goes(g, Sets(0))
      BY <3>1
    <3> QED BY <3>2
  <2>2. ASSUME NEW i \in Nat \ {0}, NEW f, Goes(f, Sets(i - 1))
        PROVE  \E g : Goes(g, Sets(i))
    <3> DEFINE g == [s \in Sets(i) |->
                  IF s = {} THEN p ELSE Step(f[s \ {Pick(s)}], Pick(s))]
    <3>1. ASSUME NEW s \in Sets(i), s # {}
          PROVE  g[s \ {Pick(s)}] = f[s \ {Pick(s)}]
      <4> DEFINE t == s \ {Pick(s)}
      <4>1. t \in Sets(i - 1) /\ t \in Sets(i)
        BY <1>1, <3>1
      <4> HIDE DEF t
      <4>2. f[t] = IF t = {} THEN p ELSE Step(f[t \ {Pick(t)}], Pick(t))
        BY <2>2, <4>1
      <4>3. g[t] = IF t = {} THEN p ELSE Step(f[t \ {Pick(t)}], Pick(t))
        BY <4>1
      <4>4. g[t] = f[t]
        BY <4>2, <4>3
      <4> QED BY <4>4 DEF t
    <3>2. Goes(g, Sets(i))
      BY <3>1
    <3> QED BY <3>2
  <2>3. Bad = {}
    <3> HIDE DEF Goes, Sets
    <3>1. ASSUME NEW i \in Bad
          PROVE  i - 1 \in Bad
      <4>1. i \in Nat \ {0} /\ ~\E f : Goes(f, Sets(i))
        BY <2>1
      <4>2. ~\E f : Goes(f, Sets(i - 1))
        BY <2>2, <4>1
      <4> QED BY <4>1, <4>2
    <3> QED BY <3>1, NoLeastFailure
  <2> QED BY <2>3
<1>3. Goes(Iter, SUBSET D)
  <2>1. Cardinality(D) \in Nat /\ \A s \in SUBSET D : Cardinality(s) <= Cardinality(D)
    BY <1>b, FS_CardinalityType, FS_Subset
  <2>2. Sets(Cardinality(D)) = SUBSET D
    BY <2>1
  <2> QED BY <1>2, <2>1, <2>2
<1>4. /\ Iter[{}] = p
      /\ \A s \in SUBSET D : s # {} => Iter[s] = Step(Iter[s \ {Pick(s)}], Pick(s))
  BY <1>3
<1> HIDE DEF Iter
<1>d. Holds({})
  BY <1>4, <1>g
<1>e. ASSUME NEW s \in SUBSET D, s # {}, Holds(s \ {Pick(s)})
      PROVE  Holds(s)
  <2>1. Iter[s] = Step(Iter[s \ {Pick(s)}], Pick(s))
    BY <1>4, <1>e
  <2>3. Pick(s) \in D
    BY <1>1, <1>e
  <2> QED BY <1>e, <1>f, <2>1, <2>3
<1>5. ASSUME NEW s \in SUBSET D
      PROVE  Holds(s)
  <2> DEFINE Bad == {i \in Nat : \E t \in SUBSET D : Cardinality(t) = i /\ ~Holds(t)}
  <2>1. ASSUME NEW i \in Bad
        PROVE  i - 1 \in Bad
    <3>1. PICK t \in SUBSET D : Cardinality(t) = i /\ ~Holds(t)
      OBVIOUS
    <3>2. t # {}
      BY <1>d, <3>1
    <3>3. ~Holds(t \ {Pick(t)})
      BY <1>e, <3>1, <3>2
    <3>4. /\ t \ {Pick(t)} \in SUBSET D
          /\ Cardinality(t \ {Pick(t)}) = i - 1 /\ i - 1 \in Nat
      <4> HIDE DEF Holds, Bad
      <4>1. /\ t \ {Pick(t)} \in SUBSET D
            /\ Cardinality(t) \in Nat \ {0}
            /\ Cardinality(t \ {Pick(t)}) = Cardinality(t) - 1
        BY <1>1, <3>1, <3>2
      <4> QED BY <3>1, <4>1
    <3> QED BY <3>3, <3>4
  <2>2. Bad = {}
    BY <2>1, NoLeastFailure
  <2>3. Cardinality(s) \in Nat
    BY <1>b, FS_Subset, FS_CardinalityType
  <2> QED BY <2>2, <2>3
<1>6. Good(Iter[D])
  BY <1>5
<1>7. Good(Resume(p, refs, owned))
  BY <1>a, <1>6 DEF Iter, D
<1> QED BY <1>7 DEF Good

\* The root is asked for unless it is already.
LEMMA RefreshRootTracks ==
  ASSUME NEW P, NEW p, NEW handled, Tracks(P, handled, p),
         NEW answered, RootTracked(P, answered, p), NEW required
  PROVE  LET q == RefreshRoot(p, required)
         IN  /\ Tracks(P, handled, q) /\ RootTracked(P, answered, q)
             /\ q.rows = p.rows
             /\ SameOut(p, q, {})
<1> DEFINE e == [kind |-> "root", live |-> TRUE]
           w == [p EXCEPT !.waiters = @ + 1]
           a == [p EXCEPT !.asking = TRUE, !.required = required,
                          !.waiters = p.waiters]
           s == [p EXCEPT !.asking = TRUE, !.required = required,
                          !.out = Append(@, e)]
<1>1. RefreshRoot(p, required) =
          IF p.rootRev >= required THEN p
          ELSE IF p.asking THEN w ELSE s
  BY DEF RefreshRoot
<1>2. PanelShape(p)
  BY DEF Tracks
<1>3. CASE p.asking
  <2>1. /\ w \in [rootRev : {p.rootRev}, asking : BOOLEAN, required : {p.required},
                  waiters : {p.waiters + 1}, rows : {p.rows}, expanded : {p.expanded},
                  held : {p.held}, cut : {p.cut}, out : {p.out}]
        /\ w.asking = p.asking
    BY <1>2 DEF PanelShape
  <2> HIDE DEF w
  <2>2. w.rows = p.rows /\ w.cut = p.cut /\ w.out = p.out
    BY <2>1
  <2>3. PanelShape(w)
    BY <1>2, <2>1 DEF PanelShape
  <2>4. Tracks(P, handled, w) /\ OutRoot(w) = OutRoot(p)
        /\ SameOut(p, w, {})
    BY <2>2, <2>3, SameRowsTrack
  <2>5. RootTracked(P, answered, w)
    BY <2>1, <2>4 DEF RootTracked
  <2> QED BY <1>1, <1>3, <2>2, <2>4, <2>5, SameOutItself
<1>4. CASE ~p.asking
  <2>2. /\ a \in [rootRev : {p.rootRev}, asking : BOOLEAN, required : {required},
                  waiters : {p.waiters}, rows : {p.rows}, expanded : {p.expanded},
                  held : {p.held}, cut : {p.cut}, out : {p.out}]
        /\ a.asking = TRUE
    BY <1>2 DEF PanelShape
  <2>1. /\ Tracks(P, handled, a) /\ PanelShape(a)
        /\ a.out = p.out /\ a.rows = p.rows /\ a.cut = p.cut
        /\ OutRoot(a) = OutRoot(p)
        /\ SameOut(p, a, {})
    <3> HIDE DEF a
    <3>1. a.out = p.out /\ a.rows = p.rows /\ a.cut = p.cut
      BY <2>2
    <3>2. PanelShape(a)
      BY <1>2, <2>2 DEF PanelShape
    <3> QED BY <3>1, <3>2, SameRowsTrack
  <2>3. s = [a EXCEPT !.out = Append(p.out, e)]
    BY <1>2 DEF PanelShape
  <2>4. NewRequest(e) /\ e.kind = "root" /\ e.kind # "children"
    BY DEF NewRequest, RequestShape
  <2> HIDE DEF a, e, s
  <2>5. /\ s \in [rootRev : {p.rootRev}, asking : BOOLEAN, required : {required},
                  waiters : {p.waiters}, rows : {p.rows}, expanded : {p.expanded},
                  held : {p.held}, cut : {p.cut}, out : {Append(p.out, e)}]
        /\ s.asking = a.asking
    BY <2>2, <2>3
  <2>6. s.out = Append(a.out, e) /\ s.asking = TRUE /\ s.rows = p.rows
        /\ s.cut = p.cut
    BY <2>1, <2>2, <2>5
  <2>4a. NewRequest(e) /\ s.out = Append(a.out, e)
    BY <2>4, <2>6
  <2>7. PanelShape(s)
    BY <1>2, <2>5 DEF PanelShape
  <2>8. NewRequests(a.out)
    BY <2>1 DEF Tracks
  <2>9. NewRequests(s.out)
    BY <2>4a, <2>8, OutAppended
  <2>10. \A o : ~(e.kind = "children" /\ e.ref = o) => OutTo(s, o) = OutTo(a, o)
    BY <2>4a, <2>8, OutAppended
  <2>11. OutRoot(a) = {} /\ e.kind = "root" => One(OutRoot(s))
    BY <2>4a, <2>8, OutAppended
  <2>12. \A o : \A k \in OutTo(a, o) : s.out[k] = a.out[k]
    BY <2>4a, <2>8, OutAppended
  <2>13. \A o : OutTo(s, o) = OutTo(a, o)
    BY <2>4, <2>10
  <2>14. ASSUME NEW r, r \notin handled
         PROVE  RowTracked(P, s, r)
    <3>1. RowTracked(P, a, r)
      BY <2>1, <2>14 DEF Tracks
    <3>2. /\ s.rows = a.rows /\ s.cut = a.cut /\ OutTo(s, r) = OutTo(a, r)
          /\ \A k \in OutTo(a, r) : s.out[k] = a.out[k]
      BY <2>1, <2>6, <2>12, <2>13
    <3> QED BY <3>1, <3>2 DEF RowTracked, Loads, Keeps
  <2>15. \A r \in handled : OutTo(s, r) = {}
    BY <2>1, <2>13 DEF Tracks
  <2>16. Tracks(P, handled, s)
    BY <2>7, <2>9, <2>14, <2>15 DEF Tracks
  <2>17. OutRoot(p) = {} /\ (P.asking => answered)
    BY <1>4 DEF RootTracked
  <2>18. RootTracked(P, answered, s)
    BY <2>1, <2>4, <2>6, <2>11, <2>17 DEF RootTracked
  <2>19. SameOut(p, s, {})
    BY <2>1, <2>13 DEF SameOut
  <2> QED BY <1>1, <1>4, <2>6, <2>16, <2>18, <2>19, SameOutItself
<1> QED BY <1>3, <1>4

\* The request for the root ends, and perhaps another is made.
LEMMA RootAskedTracks ==
  ASSUME NEW P, NEW p, NEW handled, Tracks(P, handled, p), OutRoot(p) = {}
  PROVE  LET q == RootAsked(p)
         IN  Tracks(P, handled, q) /\ RootTracked(P, TRUE, q)
<1> DEFINE latest == p.rows[RootRef].at
           newer == latest > p.required
           q == [p EXCEPT !.asking = FALSE, !.required = 0, !.waiters = 0]
           s == RefreshRoot(q, latest)
           n == IF newer THEN p.waiters ELSE p.waiters - 1
           t == [s EXCEPT !.waiters = n]
<1>1. RootAsked(p) = IF ~(newer \/ p.waiters > 0) \/ ~s.asking THEN q ELSE t
  BY DEF RootAsked
<1>2. Tracks(P, handled, q) /\ q.asking = FALSE /\ OutRoot(q) = {}
  <2>1. PanelShape(p)
    BY DEF Tracks
  <2>2. /\ q \in [rootRev : {p.rootRev}, asking : BOOLEAN, required : {0},
                  waiters : {0}, rows : {p.rows}, expanded : {p.expanded},
                  held : {p.held}, cut : {p.cut}, out : {p.out}]
        /\ q.asking = FALSE
    BY <2>1 DEF PanelShape
  <2> HIDE DEF q
  <2>3. q.rows = p.rows /\ q.cut = p.cut /\ q.out = p.out
    BY <2>2
  <2>4. PanelShape(q)
    BY <2>1, <2>2 DEF PanelShape
  <2> QED BY <2>2, <2>3, <2>4, SameRowsTrack
<1>3. RootTracked(P, TRUE, q)
  BY <1>2 DEF RootTracked
<1> HIDE DEF q, latest, n
<1>4. Tracks(P, handled, s) /\ RootTracked(P, TRUE, s)
  BY <1>2, <1>3, RefreshRootTracks
<1> HIDE DEF s
<1>5. PanelShape(s)
  BY <1>4 DEF Tracks
<1>6. /\ t \in [rootRev : {s.rootRev}, asking : BOOLEAN, required : {s.required},
                waiters : {n}, rows : {s.rows}, expanded : {s.expanded},
                held : {s.held}, cut : {s.cut}, out : {s.out}]
      /\ t.asking = s.asking
  BY <1>5 DEF PanelShape
<1> HIDE DEF t
<1>7. t.rows = s.rows /\ t.cut = s.cut /\ t.out = s.out /\ PanelShape(t)
  BY <1>5, <1>6 DEF PanelShape
<1>8. Tracks(P, handled, t) /\ t.asking = s.asking /\ OutRoot(t) = OutRoot(s)
  BY <1>4, <1>6, <1>7, SameRowsTrack
<1>9. RootTracked(P, TRUE, t)
  BY <1>4, <1>8 DEF RootTracked
<1> QED BY <1>1, <1>2, <1>3, <1>8, <1>9

\* The branches of an event: a sequence that names no branch twice
Branches(branches) ==
    /\ IsSeq(branches)
    /\ \A i, j \in DOMAIN branches : branches[i].ref = branches[j].ref => i = j

\* A branch is invalidated, and asked for again when it is on display.
LEMMA InvalidateTracks ==
  ASSUME NEW P, NEW p, Tracks(P, {}, p), RootTracked(P, FALSE, p),
         NEW b, OutTo(p, b.ref) = {}
  PROVE  LET q == Invalidate(p, b)
         IN  /\ Tracks(P, {}, q) /\ RootTracked(P, FALSE, q)
             /\ SameOut(p, q, {b.ref})
<1> DEFINE r == b.ref
           kept == r = RootRef /\ ~p.rows[r].exp
           q == IF kept THEN p ELSE Advance(p, r, b.rev)
           s == IF r = RootRef THEN RefreshRoot(q, b.rev) ELSE q
           t == IF r \in s.expanded \cap Owned(s) THEN Fetch(s, r, None, TRUE)
                ELSE s
<1>1. Invalidate(p, b) = IF r \notin DOMAIN p.rows THEN p
                         ELSE IF b.rev <= p.rows[r].at THEN p ELSE t
  BY DEF Invalidate
<1>2. CASE r \in DOMAIN p.rows
  <2>1. /\ Tracks(P, {}, q) /\ RootTracked(P, FALSE, q)
        /\ r \in DOMAIN q.rows
        /\ SameOut(p, q, {})
    <3>1. CASE kept
      BY <1>2, <3>1, SameOutItself
    <3>2. CASE ~kept
      <4> DEFINE a == Advance(p, r, b.rev)
      <4>1. Tracks(P, {}, a) /\ DOMAIN a.rows = DOMAIN p.rows
            /\ SameRoot(p, a)
            /\ SameOut(p, a, {})
        <5> HIDE DEF r
        <5> QED BY <1>2, AdvanceTracks DEF r
      <4>2. q = a
        BY <3>2
      <4> HIDE DEF a, q, r
      <4>3. RootTracked(P, FALSE, a)
        BY <4>1 DEF RootTracked, SameRoot
      <4> QED BY <1>2, <4>1, <4>2, <4>3
    <3> QED BY <3>1, <3>2
  <2> HIDE DEF q, kept
  <2>2. /\ Tracks(P, {}, s) /\ RootTracked(P, FALSE, s)
        /\ r \in DOMAIN s.rows
        /\ SameOut(q, s, {})
    <3> DEFINE a == RefreshRoot(q, b.rev)
    <3>1. Tracks(P, {}, a) /\ RootTracked(P, FALSE, a) /\ a.rows = q.rows
          /\ SameOut(q, a, {})
      BY <2>1, RefreshRootTracks
    <3>2. s = a \/ s = q
      OBVIOUS
    <3> HIDE DEF a, s, r
    <3> QED BY <2>1, <3>1, <3>2, SameOutItself
  <2> HIDE DEF s
  <2>3. /\ Tracks(P, {}, t) /\ RootTracked(P, FALSE, t)
        /\ SameOut(s, t, {r})
    <3> DEFINE a == Fetch(s, r, None, TRUE)
    <3>1. Tracks(P, {}, a) /\ SameRoot(s, a)
          /\ SameOut(s, a, {r})
      <4> HIDE DEF r
      <4>1. r \notin {}
        OBVIOUS
      <4>2. None \in Node \cup {None} /\ TRUE \in BOOLEAN
        OBVIOUS
      <4>3. Tracks(P, {}, Fetch(s, r, None, TRUE))
        BY <2>2, <4>1, <4>2, FetchTracks
      <4>4. SameRoot(s, Fetch(s, r, None, TRUE))
        BY <2>2, <4>1, <4>2, FetchTracks
      <4>6. SameOut(s, Fetch(s, r, None, TRUE), {r})
        BY <2>2, <4>1, <4>2, <4>3, FetchTracks
      <4> QED BY <4>3, <4>4, <4>6
    <3>2. t = a \/ t = s
      OBVIOUS
    <3> HIDE DEF a, t, r
    <3>3. RootTracked(P, FALSE, a)
      BY <2>2, <3>1 DEF RootTracked, SameRoot
    <3>4. SameOut(s, s, {r})
      BY SameOutItself
    <3> QED BY <2>2, <3>1, <3>2, <3>3, <3>4
  <2> HIDE DEF t
  <2>4. SameOut(p, t, {r})
    <3>1. SameOut(p, q, {}) /\ SameOut(q, s, {}) /\ SameOut(s, t, {r})
      BY <2>1, <2>2, <2>3
    <3> HIDE DEF r
    <3> QED BY <3>1, SameOutOn
  <2>5. Invalidate(p, b) = p \/ Invalidate(p, b) = t
    BY <1>1, <1>2
  <2>6. SameOut(p, p, {b.ref})
    BY SameOutItself
  <2> QED BY <2>3, <2>4, <2>5, <2>6
<1>3. CASE r \notin DOMAIN p.rows
  BY <1>1, <1>3, SameOutItself
<1> QED BY <1>2, <1>3

\* The branches of one event, which are all different
LEMMA InvalidatedTracks ==
  ASSUME NEW P, NEW p, Tracks(P, {}, p), RootTracked(P, FALSE, p),
         \A r : OutTo(p, r) = {}, NEW branches, Branches(branches)
  PROVE  LET q == FoldLeft(Invalidate, p, branches)
         IN  Tracks(P, {}, q) /\ RootTracked(P, FALSE, q)
<1> DEFINE Pick(s) == Max(s)
           Step(x, k) == Invalidate(x, branches[k])
<1> DEFINE D == DOMAIN branches
           Goes(f, S) == f = [s \in S |->
               IF s = {} THEN p ELSE Step(f[s \ {Pick(s)}], Pick(s))]
           Sets(m) == {s \in SUBSET D : Cardinality(s) <= m}
           Iter == CHOOSE f : Goes(f, SUBSET D)
<1>a. FoldLeft(Invalidate, p, branches) = Iter[D]
  BY DEF FoldLeft, MapThenFoldSet
<1> DEFINE Good(q) == Tracks(P, {}, q) /\ RootTracked(P, FALSE, q)
           Idle(q, s) == \A i \in D \ s : OutTo(q, branches[i].ref) = {}
           Holds(s) == Good(Iter[s]) /\ Idle(Iter[s], s)
<1>b. IsFiniteSet(D) /\ D \subseteq Nat
  <2>1. D = 1..Len(branches) /\ Len(branches) \in Nat
    BY IsSeqFacts DEF Branches
  <2> HIDE DEF D
  <2> QED BY <2>1, FS_Interval
<1>c. \A s \in SUBSET D : s # {} => Pick(s) \in s
  <2> HIDE DEF D
  <2> QED BY <1>b, MaxExists
<1>f. ASSUME NEW s \in SUBSET D, NEW k \in s, NEW x, Good(x), Idle(x, s \ {k})
      PROVE  Good(Step(x, k)) /\ Idle(Step(x, k), s)
  <2> DEFINE b == branches[k]
             q == Invalidate(x, b)
  <2>1. OutTo(x, b.ref) = {}
    BY <1>f
  <2>2. Good(q) /\ SameOut(x, q, {b.ref})
    <3> HIDE DEF b
    <3> QED BY <1>f, <2>1, InvalidateTracks
  <2>3. q = Step(x, k)
    OBVIOUS
  <2> HIDE DEF q
  <2>4. \A i \in D \ s : branches[i].ref # b.ref
    BY DEF Branches
  <2> HIDE DEF b
  <2>5. \A i \in D \ s : OutTo(q, branches[i].ref) = {}
    BY <1>f, <2>2, <2>4 DEF SameOut
  <2> HIDE DEF Step
  <2> QED BY <2>2, <2>3, <2>5
<1>g. Good(p) /\ Idle(p, {})
  OBVIOUS
<1> HIDE DEF Good, Idle
<1> HIDE DEF D, Step, Pick
<1>1. ASSUME NEW s \in SUBSET D, s # {}
      PROVE  /\ s \ {Pick(s)} \in SUBSET D /\ Pick(s) \in s
             /\ Cardinality(s) \in Nat \ {0}
             /\ Cardinality(s \ {Pick(s)}) = Cardinality(s) - 1
  BY <1>1, <1>b, <1>c, SmallerSet
<1>2. ASSUME NEW m \in Nat
      PROVE  \E f : Goes(f, Sets(m))
  <2> DEFINE Bad == {i \in Nat : ~\E f : Goes(f, Sets(i))}
  <2>1. 0 \notin Bad
    <3> DEFINE g == [s \in Sets(0) |-> p]
    <3>1. ASSUME NEW s \in Sets(0), s # {}
          PROVE  FALSE
      <4>1. s \in SUBSET D /\ Cardinality(s) <= 0
        OBVIOUS
      <4>2. Cardinality(s) \in Nat \ {0}
        BY <1>1, <3>1, <4>1
      <4> QED BY <4>1, <4>2
    <3>2. Goes(g, Sets(0))
      BY <3>1
    <3> QED BY <3>2
  <2>2. ASSUME NEW i \in Nat \ {0}, NEW f, Goes(f, Sets(i - 1))
        PROVE  \E g : Goes(g, Sets(i))
    <3> DEFINE g == [s \in Sets(i) |->
                  IF s = {} THEN p ELSE Step(f[s \ {Pick(s)}], Pick(s))]
    <3>1. ASSUME NEW s \in Sets(i), s # {}
          PROVE  g[s \ {Pick(s)}] = f[s \ {Pick(s)}]
      <4> DEFINE t == s \ {Pick(s)}
      <4>1. t \in Sets(i - 1) /\ t \in Sets(i)
        BY <1>1, <3>1
      <4> HIDE DEF t
      <4>2. f[t] = IF t = {} THEN p ELSE Step(f[t \ {Pick(t)}], Pick(t))
        BY <2>2, <4>1
      <4>3. g[t] = IF t = {} THEN p ELSE Step(f[t \ {Pick(t)}], Pick(t))
        BY <4>1
      <4>4. g[t] = f[t]
        BY <4>2, <4>3
      <4> QED BY <4>4 DEF t
    <3>2. Goes(g, Sets(i))
      BY <3>1
    <3> QED BY <3>2
  <2>3. Bad = {}
    <3> HIDE DEF Goes, Sets
    <3>1. ASSUME NEW i \in Bad
          PROVE  i - 1 \in Bad
      <4>1. i \in Nat \ {0} /\ ~\E f : Goes(f, Sets(i))
        BY <2>1
      <4>2. ~\E f : Goes(f, Sets(i - 1))
        BY <2>2, <4>1
      <4> QED BY <4>1, <4>2
    <3> QED BY <3>1, NoLeastFailure
  <2> QED BY <2>3
<1>3. Goes(Iter, SUBSET D)
  <2>1. Cardinality(D) \in Nat /\ \A s \in SUBSET D : Cardinality(s) <= Cardinality(D)
    BY <1>b, FS_CardinalityType, FS_Subset
  <2>2. Sets(Cardinality(D)) = SUBSET D
    BY <2>1
  <2> QED BY <1>2, <2>1, <2>2
<1>4. /\ Iter[{}] = p
      /\ \A s \in SUBSET D : s # {} => Iter[s] = Step(Iter[s \ {Pick(s)}], Pick(s))
  BY <1>3
<1> HIDE DEF Iter
<1>d. Holds({})
  BY <1>4, <1>g
<1>e. ASSUME NEW s \in SUBSET D, s # {}, Holds(s \ {Pick(s)})
      PROVE  Holds(s)
  <2>1. Iter[s] = Step(Iter[s \ {Pick(s)}], Pick(s))
    BY <1>4, <1>e
  <2>3. Pick(s) \in s
    BY <1>1, <1>e
  <2> QED BY <1>e, <1>f, <2>1, <2>3
<1>5. ASSUME NEW s \in SUBSET D
      PROVE  Holds(s)
  <2> DEFINE Bad == {i \in Nat : \E t \in SUBSET D : Cardinality(t) = i /\ ~Holds(t)}
  <2>1. ASSUME NEW i \in Bad
        PROVE  i - 1 \in Bad
    <3>1. PICK t \in SUBSET D : Cardinality(t) = i /\ ~Holds(t)
      OBVIOUS
    <3>2. t # {}
      BY <1>d, <3>1
    <3>3. ~Holds(t \ {Pick(t)})
      BY <1>e, <3>1, <3>2
    <3>4. /\ t \ {Pick(t)} \in SUBSET D
          /\ Cardinality(t \ {Pick(t)}) = i - 1 /\ i - 1 \in Nat
      <4> HIDE DEF Holds, Bad
      <4>1. /\ t \ {Pick(t)} \in SUBSET D
            /\ Cardinality(t) \in Nat \ {0}
            /\ Cardinality(t \ {Pick(t)}) = Cardinality(t) - 1
        BY <1>1, <3>1, <3>2
      <4> QED BY <3>1, <4>1
    <3> QED BY <3>3, <3>4
  <2>2. Bad = {}
    BY <2>1, NoLeastFailure
  <2>3. Cardinality(s) \in Nat
    BY <1>b, FS_Subset, FS_CardinalityType
  <2> QED BY <2>2, <2>3
<1>6. Good(Iter[D])
  BY <1>5
<1>7. Good(FoldLeft(Invalidate, p, branches))
  BY <1>a, <1>6 DEF Iter, D
<1> QED BY <1>7 DEF Good

-----------------------------------------------------------------------------
\* The handlers.

\* What the handling of a message comes to
Handles(P, handled, answered, q) ==
    /\ Tracks(P, handled, q)
    /\ RootTracked(P, answered, q)
    /\ \A r \in handled : ~Loads(q, r)

\* What does not touch the request for the root
LEMMA RootKept ==
  ASSUME NEW P, NEW p, OutRoot(p) = {}, p.asking = P.asking, NEW q, SameRoot(p, q)
  PROVE  RootTracked(P, FALSE, q)
BY DEF SameRoot, RootTracked

\* The end of a request
LEMMA EndHandles ==
  ASSUME NEW P, NEW r, NEW p, Tracks(P, {r}, p), RootTracked(P, FALSE, p)
  PROVE  Handles(P, {r}, FALSE, [p EXCEPT !.rows[r].pending = None])
<1> DEFINE q == [p EXCEPT !.rows[r].pending = None]
           x == [p.rows[r] EXCEPT !.pending = None]
           rows == [p.rows EXCEPT ![r] = x]
<1>1. PanelShape(p)
  BY DEF Tracks
<1>2. /\ q \in [rootRev : {p.rootRev}, asking : BOOLEAN, required : {p.required},
                waiters : {p.waiters}, rows : {rows}, expanded : {p.expanded},
                held : {p.held}, cut : {p.cut}, out : {p.out}]
      /\ q.asking = p.asking
  BY <1>1 DEF PanelShape
<1>3. /\ DOMAIN rows = DOMAIN p.rows /\ rows = [o \in DOMAIN rows |-> rows[o]]
      /\ r \in DOMAIN p.rows => rows[r] = x
      /\ \A o \in DOMAIN p.rows : o # r => rows[o] = p.rows[o]
  BY <1>1 DEF PanelShape
<1>4. r \in DOMAIN p.rows => RowShape(x) /\ x.pending = None
  <2>1. r \in DOMAIN p.rows => RowShape(p.rows[r])
    BY <1>1 DEF PanelShape
  <2> QED BY <2>1 DEF RowShape
<1> HIDE DEF q, x, rows
<1>5. q.rows = rows /\ q.cut = p.cut /\ q.out = p.out
  BY <1>2
<1>6. \A o \in DOMAIN rows : RowShape(rows[o])
  BY <1>1, <1>3, <1>4 DEF PanelShape
<1>7. PanelShape(q)
  BY <1>2, <1>3, <1>5, <1>6 DEF PanelShape
<1>8. \A o : o \notin {r} =>
          /\ o \in q.cut <=> o \in p.cut
          /\ Loads(q, o) <=> Loads(p, o)
          /\ Loads(p, o) => Keeps(p, q, o)
  BY <1>3, <1>5 DEF Loads, Keeps
<1>9. Tracks(P, {r}, q)
  BY <1>5, <1>7, <1>8, TracksOn
<1>10. RootTracked(P, FALSE, q)
  <2>1. q.asking = p.asking /\ OutRoot(q) = OutRoot(p)
    BY <1>2, <1>5 DEF OutRoot
  <2> QED BY <2>1 DEF RootTracked
<1>11. ~Loads(q, r)
  BY <1>3, <1>4, <1>5 DEF Loads
<1> QED BY <1>9, <1>10, <1>11 DEF Handles, q

\* A request fails.
LEMMA FailedHandles ==
  ASSUME NEW P, PanelShape(P), P.out = <<>>, NEW r \in DOMAIN P.rows,
         P.cut \subseteq {r}
  PROVE  Handles(P, {r}, FALSE, Failed(P, r))
<1> DEFINE first == P.rows[r].pending.after = None
           p == IF first THEN FailFirstPage(P, r) ELSE P
<1>1. Failed(P, r) = [p EXCEPT !.rows[r].pending = None]
  BY DEF Failed
<1>2. Trims(P, p)
  BY FailFirstPageTrims, TrimsItself
<1> HIDE DEF p
<1>3. Tracks(P, {r}, p)
  BY <1>2, TracksFrom
<1>4. OutRoot(p) = {} /\ p.asking = P.asking
  BY <1>2, <1>3, TracksFrom
<1>5. RootTracked(P, FALSE, p)
  BY <1>4 DEF RootTracked
<1>6. Handles(P, {r}, FALSE, [p EXCEPT !.rows[r].pending = None])
  BY <1>3, <1>5, EndHandles
<1> QED BY <1>1, <1>6

\* A page arrives.
LEMMA LoadedHandles ==
  ASSUME NEW P, PanelShape(P), P.out = <<>>, P.cut = {},
         NEW m, m.ref \in DOMAIN P.rows, P.rows[m.ref].pending # None,
         Views(m.views), m.more \in Node \cup {None}
  PROVE  Handles(P, {m.ref}, FALSE, Loaded(P, m))
<1> DEFINE r == m.ref
           asked == P.rows[r].pending
           q == IF asked.after = None THEN ReplaceChildren(P, r, m.views, asked.owned)
                ELSE AdoptPage(P, r, m.views, TRUE)
           x == [q.rows[r] EXCEPT !.loaded = TRUE, !.more = m.more]
           t == [q EXCEPT !.rows[r] = [@ EXCEPT !.loaded = TRUE, !.more = m.more]]
           refs == [k \in DOMAIN m.views |-> m.views[k].ref]
           s == Resume(t, refs, asked.owned)
           cycle == \E k \in DOMAIN m.views : MakesCycle(P, r, m.views[k].ref)
<1>1. Loaded(P, m) = IF cycle THEN Failed(P, r) ELSE [s EXCEPT !.rows[r].pending = None]
  BY DEF Loaded
<1>2. CASE cycle
  <2>1. Handles(P, {r}, FALSE, Failed(P, r))
    BY FailedHandles
  <2> QED BY <1>1, <1>2, <2>1
<1>3. CASE ~cycle
  <2>1. asked \in Pending /\ asked.owned \in BOOLEAN
    <3>1. RowShape(P.rows[r])
      BY DEF PanelShape
    <3> QED BY <3>1 DEF RowShape, Pending
  <2>2. \A k \in DOMAIN refs : refs[k] \notin {r}
    BY <1>3 DEF MakesCycle
  <2>3. IsFiniteSet(DOMAIN refs) /\ DOMAIN refs \subseteq Nat
    BY DEF Views
  <2>4. Trims(P, q) /\ PanelShape(q)
    <3>1. Trims(P, ReplaceChildren(P, r, m.views, asked.owned))
      <4> HIDE DEF asked
      <4> QED BY ReplaceChildrenTrims
    <3>2. Trims(P, AdoptPage(P, r, m.views, TRUE))
      BY AdoptPageTrims
    <3>3. Trims(P, q)
      BY <3>1, <3>2
    <3> HIDE DEF q
    <3> QED BY <3>3 DEF Trims
  <2> HIDE DEF q, refs, asked, cycle
  <2>5. Trims(q, t)
    <3>1. CASE r \in DOMAIN q.rows
      <4>1. RowShape(q.rows[r])
        BY <2>4, <3>1 DEF PanelShape
      <4>2. RowShape(x) /\ x.pending = q.rows[r].pending /\ x.at = q.rows[r].at
        <5> HIDE DEF r
        <5> QED BY <4>1 DEF RowShape
      <4>3. t = [q EXCEPT !.rows[r] = x, !.expanded = q.expanded]
        BY <2>4, <3>1 DEF PanelShape
      <4> HIDE DEF t, x, r
      <4> QED BY <2>4, <3>1, <4>2, <4>3, RowTrims
    <3>2. CASE r \notin DOMAIN q.rows
      <4>1. t = [q EXCEPT !.held = q.held]
        BY <2>4, <3>2 DEF PanelShape
      <4> HIDE DEF t
      <4> QED BY <2>4, <4>1, HeldTrims
    <3> QED BY <3>1, <3>2
  <2> HIDE DEF t, r
  <2>6. Trims(P, t)
    BY <2>4, <2>5, TrimsOn
  <2>7. Tracks(P, {r}, t)
    BY <2>6, TracksFrom
  <2>8. OutRoot(t) = {} /\ t.asking = P.asking
    BY <2>6, <2>7, TracksFrom
  <2>9. Tracks(P, {r}, s)
    BY <2>1, <2>2, <2>3, <2>7, ResumeTracks
  <2>10. SameRoot(t, s)
    BY <2>1, <2>2, <2>3, <2>7, ResumeTracks
  <2> HIDE DEF s
  <2>11. RootTracked(P, FALSE, s)
    BY <2>8, <2>10, RootKept
  <2>12. Handles(P, {r}, FALSE, [s EXCEPT !.rows[r].pending = None])
    BY <2>9, <2>11, EndHandles
  <2> QED BY <1>1, <1>3, <2>12 DEF r
<1> QED BY <1>2, <1>3

\* The view of the root arrives.
LEMMA RootLoadedHandles ==
  ASSUME NEW P, PanelShape(P), P.out = <<>>, P.cut = {}, NEW view
  PROVE  Handles(P, {}, TRUE, RootLoaded(P, view))
<1> DEFINE a == [P EXCEPT !.rootRev = view.rev]
           u == Upsert(a, view, None)
           s == Resume(u, <<RootRef>>, TRUE)
           p == IF view.rev < P.rows[RootRef].at THEN P ELSE s
<1>1. RootLoaded(P, view) = RootAsked(p)
  BY DEF RootLoaded
<1>2. Trims(P, u)
  <2>1. /\ a \in [rootRev : {view.rev}, asking : BOOLEAN, required : {P.required},
                  waiters : {P.waiters}, rows : {P.rows}, expanded : {P.expanded},
                  held : {P.held}, cut : {P.cut}, out : {P.out}]
        /\ a.asking = P.asking
    BY DEF PanelShape
  <2> HIDE DEF a
  <2>2. /\ PanelShape(a) /\ a.rows = P.rows /\ a.cut = P.cut /\ a.out = P.out
    BY <2>1 DEF PanelShape
  <2>3. Trims(P, a)
    BY <2>1, <2>2 DEF Trims, Keeps
  <2>4. Trims(a, u)
    BY <2>2, UpsertTrims
  <2> HIDE DEF u
  <2> QED BY <2>3, <2>4, TrimsOn
<1> HIDE DEF u
<1>3. Tracks(P, {}, u)
  BY <1>2, TracksFrom
<1>4. OutRoot(u) = {} /\ u.asking = P.asking
  BY <1>2, <1>3, TracksFrom
<1>5. Tracks(P, {}, s) /\ SameRoot(u, s)
  <2> DEFINE refs == <<RootRef>>
  <2>1. IsSeq(refs) /\ Len(refs) = 1
    BY SingleIs
  <2>2. DOMAIN refs = 1..1
    BY <2>1, IsSeqFacts
  <2> HIDE DEF refs
  <2>3. IsFiniteSet(DOMAIN refs) /\ DOMAIN refs \subseteq Nat
    BY <2>2, FS_Interval
  <2>4. \A k \in DOMAIN refs : refs[k] \notin {}
    OBVIOUS
  <2>5. TRUE \in BOOLEAN
    OBVIOUS
  <2>6. Tracks(P, {}, Resume(u, refs, TRUE))
    BY <1>3, <2>3, <2>4, <2>5, ResumeTracks
  <2>7. SameRoot(u, Resume(u, refs, TRUE))
    BY <1>3, <2>3, <2>4, <2>5, ResumeTracks
  <2> QED BY <2>6, <2>7 DEF refs
<1>6. Tracks(P, {}, P) /\ OutRoot(P) = {}
  <2>1. Trims(P, P)
    BY TrimsItself
  <2>2. Tracks(P, {}, P)
    BY <2>1, TracksFrom
  <2> QED BY <2>1, <2>2, TracksFrom
<1> HIDE DEF s
<1>7. Tracks(P, {}, p) /\ OutRoot(p) = {}
  BY <1>4, <1>5, <1>6 DEF SameRoot
<1> HIDE DEF p
<1>8. Tracks(P, {}, RootAsked(p)) /\ RootTracked(P, TRUE, RootAsked(p))
  BY <1>7, RootAskedTracks
<1> QED BY <1>1, <1>8 DEF Handles

\* An event arrives.
LEMMA InvalidatedHandles ==
  ASSUME NEW P, PanelShape(P), P.out = <<>>, P.cut = {},
         NEW branches, Branches(branches)
  PROVE  Handles(P, {}, FALSE, FoldLeft(Invalidate, P, branches))
<1>1. Trims(P, P)
  BY TrimsItself
<1>2. Tracks(P, {}, P)
  BY <1>1, TracksFrom
<1>3. OutRoot(P) = {} /\ \A r : OutTo(P, r) = {}
  BY <1>1, <1>2, TracksFrom
<1>4. RootTracked(P, FALSE, P)
  BY <1>3 DEF RootTracked
<1>5. /\ Tracks(P, {}, FoldLeft(Invalidate, P, branches))
      /\ RootTracked(P, FALSE, FoldLeft(Invalidate, P, branches))
  BY <1>2, <1>3, <1>4, InvalidatedTracks
<1> QED BY <1>5 DEF Handles

\* What the user adds
LEMMA FetchHandles ==
  ASSUME NEW P, PanelShape(P), P.out = <<>>, P.cut = {},
         NEW p, Trims(P, p), NEW r \in DOMAIN p.rows, NEW after \in Node \cup {None}
  PROVE  /\ Handles(P, {}, FALSE, p)
         /\ Handles(P, {}, FALSE, Fetch(p, r, after, FALSE))
<1>1. Tracks(P, {}, p)
  BY TracksFrom
<1>2. OutRoot(p) = {} /\ p.asking = P.asking
  BY <1>1, TracksFrom
<1>3. r \notin {} /\ FALSE \in BOOLEAN
  OBVIOUS
<1>4. Tracks(P, {}, Fetch(p, r, after, FALSE))
  BY <1>1, <1>3, FetchTracks
<1>5. SameRoot(p, Fetch(p, r, after, FALSE))
  BY <1>1, <1>3, FetchTracks
<1>6. RootTracked(P, FALSE, Fetch(p, r, after, FALSE))
  BY <1>2, <1>5, RootKept
<1>7. RootTracked(P, FALSE, p)
  BY <1>2 DEF RootTracked
<1> QED BY <1>1, <1>4, <1>6, <1>7 DEF Handles

-----------------------------------------------------------------------------
\* The messages under way: which there are when some are added, taken, or
\* dropped.

\* The places of a sequence that have a message of a set
Marked(s, S) == {k \in DOMAIN s : s[k] \in S}

\* B has one element, or none, as A does.
AsMany(A, B) == (A = {} => B = {}) /\ (One(A) => One(B))

\* Of two sequences one has such messages.
LEMMA MarkedConcat ==
  ASSUME NEW s, NEW t, IsSeq(s), IsSeq(t), NEW S
  PROVE  /\ Marked(t, S) = {} => AsMany(Marked(s, S), Marked(s \o t, S))
         /\ Marked(s, S) = {} => AsMany(Marked(t, S), Marked(s \o t, S))
<1> DEFINE n == Len(s)
           A == Marked(s, S)
           B == Marked(t, S)
           C == Marked(s \o t, S)
           BB == {k + n : k \in B}
<1>1. /\ n \in Nat /\ DOMAIN s = 1..n
      /\ Len(t) \in Nat /\ DOMAIN t = 1..Len(t)
  BY IsSeqFacts
<1>2. /\ IsSeq(s \o t) /\ Len(s \o t) = n + Len(t)
      /\ \A k \in 1..n : (s \o t)[k] = s[k]
      /\ \A k \in 1..Len(t) : (s \o t)[k + n] = t[k]
  BY ConcatIs
<1>3. DOMAIN (s \o t) = 1..(n + Len(t))
  BY <1>2, IsSeqFacts
<1> HIDE DEF n
<1>4. ASSUME NEW k \in C
      PROVE  k \in A \/ k \in BB
  <2>1. k \in 1..(n + Len(t)) /\ (s \o t)[k] \in S
    BY <1>3 DEF Marked
  <2>2. CASE k \in 1..n
    BY <1>1, <1>2, <2>1, <2>2 DEF Marked
  <2>3. CASE k \notin 1..n
    <3>1. k - n \in 1..Len(t) /\ k - n + n = k
      BY <1>1, <2>1, <2>3
    <3>2. t[k - n] \in S
      BY <1>2, <2>1, <3>1
    <3>3. k - n \in B
      BY <1>1, <3>1, <3>2 DEF Marked
    <3> QED BY <3>1, <3>3
  <2> QED BY <2>2, <2>3
<1>5. A \subseteq C
  BY <1>1, <1>2, <1>3 DEF Marked
<1>6. ASSUME NEW k \in B
      PROVE  k + n \in C
  <2>1. k \in 1..Len(t) /\ t[k] \in S
    BY <1>1 DEF Marked
  <2>2. k + n \in 1..(n + Len(t))
    BY <1>1, <2>1
  <2> QED BY <1>2, <1>3, <2>1, <2>2 DEF Marked
<1>7. B \in SUBSET Int /\ n \in Int
  BY <1>1 DEF Marked
<1> HIDE DEF A, B, C
<1>8. C = A \cup BB
  BY <1>4, <1>5, <1>6
<1>9. (B = {} <=> BB = {}) /\ (One(B) => One(BB))
  BY <1>7, ShiftedOne
<1> HIDE DEF BB
<1>10. B = {} => C = A
  BY <1>8, <1>9
<1>11. A = {} => C = BB
  BY <1>8
<1>12. B = {} => AsMany(A, C)
  BY <1>10 DEF AsMany
<1>13. A = {} => AsMany(B, C)
  BY <1>9, <1>11 DEF AsMany
<1> QED BY <1>12, <1>13 DEF A, B, C

\* The first message goes.
LEMMA MarkedTail ==
  ASSUME NEW s, IsSeq(s), s # <<>>, NEW S
  PROVE  /\ Head(s) \notin S => AsMany(Marked(s, S), Marked(Tail(s), S))
         /\ Head(s) \in S => Marked(s, S) # {}
         /\ Head(s) \in S /\ One(Marked(s, S)) => Marked(Tail(s), S) = {}
<1> DEFINE A == Marked(s, S)
           B == Marked(Tail(s), S)
           BB == {k + 1 : k \in B}
<1>1. /\ Len(s) \in Nat \ {0} /\ Head(s) = s[1]
      /\ IsSeq(Tail(s)) /\ Len(Tail(s)) = Len(s) - 1
      /\ \A k \in 1..Len(Tail(s)) : Tail(s)[k] = s[k + 1]
  BY TailIs
<1>2. DOMAIN s = 1..Len(s) /\ DOMAIN Tail(s) = 1..(Len(s) - 1)
  BY <1>1, IsSeqFacts
<1>3. A \in SUBSET Int /\ B \in SUBSET Int
  BY <1>1, <1>2 DEF Marked
<1>4. \A k \in Int : k + 1 \in A /\ k + 1 # 1 => k \in B
  BY <1>1, <1>2 DEF Marked
<1>5. \A k \in B : k + 1 \in A /\ k + 1 # 1
  BY <1>1, <1>2 DEF Marked
<1>6. 1 \in A <=> Head(s) \in S
  BY <1>1, <1>2 DEF Marked
<1> HIDE DEF A, B
<1>7. A \ {1} = BB
  <2>1. ASSUME NEW k \in A \ {1}
        PROVE  k \in BB
    <3>1. k - 1 \in Int /\ k - 1 + 1 = k
      BY <1>3, <2>1
    <3>2. k - 1 \in B
      BY <1>4, <2>1, <3>1
    <3> QED BY <3>1, <3>2
  <2> QED BY <1>5, <2>1
<1>8. ASSUME Head(s) \notin S
      PROVE  AsMany(A, B)
  <2>1. A = BB
    BY <1>6, <1>7, <1>8
  <2>2. A = {} => B = {}
    BY <2>1
  <2>3. ASSUME NEW k, A = {k}
        PROVE  One(B)
    <3>1. PICK j \in B : k = j + 1
      BY <2>1, <2>3
    <3>2. ASSUME NEW i \in B
          PROVE  i = j
      <4>1. i + 1 \in A
        BY <2>1
      <4>2. i + 1 = k
        BY <2>3, <4>1
      <4> QED BY <1>3, <3>1, <4>2
    <3>3. B = {j}
      BY <3>1, <3>2
    <3> QED BY <3>3 DEF One
  <2> QED BY <2>2, <2>3 DEF AsMany, One
<1>9. Head(s) \in S => A # {}
  BY <1>6
<1>10. ASSUME Head(s) \in S, One(A)
       PROVE  B = {}
  <2>1. A = {1}
    BY <1>6, <1>10 DEF One
  <2>2. BB = {}
    BY <1>7, <2>1
  <2> QED BY <2>2
<1> QED BY <1>8, <1>9, <1>10 DEF A, B

\* The messages of w are those of s at the places of a set, but the dropped.
TakenFrom(f, w, s, places, dropped) ==
    /\ \A k \in DOMAIN w :
           f[k] \in places /\ w[k] = s[f[k]] /\ w[k] \notin dropped
    /\ \A i, j \in DOMAIN w : f[i] = f[j] => i = j
    /\ \A k \in places : s[k] \notin dropped => \E i \in DOMAIN w : f[i] = k

\* What is left of a sequence without some messages
LEMMA WithoutIs ==
  ASSUME NEW s, IsSeq(s), NEW dropped
  PROVE  /\ IsSeq(Without(s, dropped))
         /\ \E f : TakenFrom(f, Without(s, dropped), s, DOMAIN s, dropped)
<1> DEFINE Pick(a) == Max(a)
           Step(x, k) == IF s[k] \in dropped THEN x ELSE Append(x, s[k])
<1> DEFINE D == DOMAIN s
           Goes(f, S) == f = [a \in S |->
               IF a = {} THEN <<>> ELSE Step(f[a \ {Pick(a)}], Pick(a))]
           Sets(m) == {a \in SUBSET D : Cardinality(a) <= m}
           Iter == CHOOSE f : Goes(f, SUBSET D)
<1>a. Without(s, dropped) = Iter[D]
  BY DEF Without, FoldLeft, MapThenFoldSet
<1> DEFINE From(f, w, a) == TakenFrom(f, w, s, a, dropped)
           Holds(a) == IsSeq(Iter[a]) /\ \E f : From(f, Iter[a], a)
<1>b. IsFiniteSet(D) /\ D \subseteq Nat
  <2>1. D = 1..Len(s) /\ Len(s) \in Nat
    BY IsSeqFacts
  <2> HIDE DEF D
  <2> QED BY <2>1, FS_Interval
<1>c. \A a \in SUBSET D : a # {} => Pick(a) \in a
  <2> HIDE DEF D
  <2> QED BY <1>b, MaxExists
<1>f. ASSUME NEW a \in SUBSET D, NEW i \in a, NEW w, IsSeq(w),
             NEW f, From(f, w, a \ {i})
      PROVE  IsSeq(Step(w, i)) /\ \E g : From(g, Step(w, i), a)
  <2> HIDE DEF D
  <2>1. CASE s[i] \in dropped
    <3>1. Step(w, i) = w
      BY <2>1
    <3>2. From(f, w, a)
      BY <1>f, <2>1 DEF TakenFrom
    <3> HIDE DEF Step, From
    <3> QED BY <1>f, <3>1, <3>2
  <2>2. CASE s[i] \notin dropped
    <3> DEFINE x == Append(w, s[i])
               n == Len(w)
               g == [k \in 1..(n + 1) |-> IF k = n + 1 THEN i ELSE f[k]]
    <3>1. /\ IsSeq(x) /\ Len(x) = n + 1
          /\ \A k \in 1..n : x[k] = w[k]
          /\ x[n + 1] = s[i]
      BY <1>f, AppendIs
    <3>2. n \in Nat /\ DOMAIN w = 1..n /\ DOMAIN x = 1..(n + 1)
      BY <1>f, <3>1, IsSeqFacts
    <3>3. Step(w, i) = x
      BY <2>2
    <3> HIDE DEF x, n
    <3>4. g[n + 1] = i /\ \A k \in 1..n : g[k] = f[k]
      BY <3>2
    <3> HIDE DEF g
    <3>5. \A k \in DOMAIN x : k = n + 1 \/ k \in 1..n
      BY <3>2
    <3>6. n + 1 \in DOMAIN x /\ \A k \in 1..n : k \in DOMAIN x
      BY <3>2
    <3>7. \A k \in 1..n :
              f[k] \in a /\ f[k] # i /\ w[k] = s[f[k]] /\ w[k] \notin dropped
      BY <1>f, <3>2 DEF TakenFrom
    <3>8. \A k \in DOMAIN x : g[k] \in a /\ x[k] = s[g[k]] /\ x[k] \notin dropped
      BY <2>2, <3>1, <3>4, <3>5, <3>7
    <3>9. \A j, k \in DOMAIN x : g[j] = g[k] => j = k
      <4>1. \A j, k \in 1..n : f[j] = f[k] => j = k
        BY <1>f, <3>2 DEF TakenFrom
      <4> QED BY <3>4, <3>5, <3>7, <4>1
    <3>10. ASSUME NEW k \in a, s[k] \notin dropped
           PROVE  \E j \in DOMAIN x : g[j] = k
      <4>1. CASE k = i
        BY <3>4, <3>6, <4>1
      <4>2. CASE k # i
        <5>1. PICK j \in 1..n : f[j] = k
          BY <1>f, <3>2, <3>10, <4>2 DEF TakenFrom
        <5> QED BY <3>4, <3>6, <5>1
      <4> QED BY <4>1, <4>2
    <3>11. From(g, x, a)
      BY <3>8, <3>9, <3>10 DEF TakenFrom
    <3> HIDE DEF Step, From
    <3> QED BY <3>1, <3>3, <3>11
  <2> QED BY <2>1, <2>2
<1>g. IsSeq(<<>>) /\ \E f : From(f, <<>>, {})
  <2>1. IsSeq(<<>>) /\ DOMAIN <<>> = {}
    BY EmptyIs
  <2> DEFINE e == <<>>
  <2>2. IsSeq(e) /\ DOMAIN e = {}
    BY <2>1
  <2> HIDE DEF e
  <2>3. From(e, e, {})
    BY <2>2 DEF TakenFrom
  <2> HIDE DEF From
  <2>4. \E f : From(f, e, {})
    BY <2>3
  <2> QED BY <2>1, <2>4 DEF e
<1> HIDE DEF From
<1> HIDE DEF D, Step, Pick
<1>1. ASSUME NEW a \in SUBSET D, a # {}
      PROVE  /\ a \ {Pick(a)} \in SUBSET D /\ Pick(a) \in a
             /\ Cardinality(a) \in Nat \ {0}
             /\ Cardinality(a \ {Pick(a)}) = Cardinality(a) - 1
  BY <1>1, <1>b, <1>c, SmallerSet
<1>2. ASSUME NEW m \in Nat
      PROVE  \E f : Goes(f, Sets(m))
  <2> DEFINE Bad == {i \in Nat : ~\E f : Goes(f, Sets(i))}
  <2>1. 0 \notin Bad
    <3> DEFINE g == [a \in Sets(0) |-> <<>>]
    <3>1. ASSUME NEW a \in Sets(0), a # {}
          PROVE  FALSE
      <4>1. a \in SUBSET D /\ Cardinality(a) <= 0
        OBVIOUS
      <4>2. Cardinality(a) \in Nat \ {0}
        BY <1>1, <3>1, <4>1
      <4> QED BY <4>1, <4>2
    <3>2. Goes(g, Sets(0))
      BY <3>1
    <3> QED BY <3>2
  <2>2. ASSUME NEW i \in Nat \ {0}, NEW f, Goes(f, Sets(i - 1))
        PROVE  \E g : Goes(g, Sets(i))
    <3> DEFINE g == [a \in Sets(i) |->
                  IF a = {} THEN <<>> ELSE Step(f[a \ {Pick(a)}], Pick(a))]
    <3>1. ASSUME NEW a \in Sets(i), a # {}
          PROVE  g[a \ {Pick(a)}] = f[a \ {Pick(a)}]
      <4> DEFINE t == a \ {Pick(a)}
      <4>1. t \in Sets(i - 1) /\ t \in Sets(i)
        BY <1>1, <3>1
      <4> HIDE DEF t
      <4>2. f[t] = IF t = {} THEN <<>> ELSE Step(f[t \ {Pick(t)}], Pick(t))
        BY <2>2, <4>1
      <4>3. g[t] = IF t = {} THEN <<>> ELSE Step(f[t \ {Pick(t)}], Pick(t))
        BY <4>1
      <4>4. g[t] = f[t]
        BY <4>2, <4>3
      <4> QED BY <4>4 DEF t
    <3>2. Goes(g, Sets(i))
      BY <3>1
    <3> QED BY <3>2
  <2>3. Bad = {}
    <3> HIDE DEF Goes, Sets
    <3>1. ASSUME NEW i \in Bad
          PROVE  i - 1 \in Bad
      <4>1. i \in Nat \ {0} /\ ~\E f : Goes(f, Sets(i))
        BY <2>1
      <4>2. ~\E f : Goes(f, Sets(i - 1))
        BY <2>2, <4>1
      <4> QED BY <4>1, <4>2
    <3> QED BY <3>1, NoLeastFailure
  <2> QED BY <2>3
<1>3. Goes(Iter, SUBSET D)
  <2>1. Cardinality(D) \in Nat /\ \A a \in SUBSET D : Cardinality(a) <= Cardinality(D)
    BY <1>b, FS_CardinalityType, FS_Subset
  <2>2. Sets(Cardinality(D)) = SUBSET D
    BY <2>1
  <2> QED BY <1>2, <2>1, <2>2
<1>4. /\ Iter[{}] = <<>>
      /\ \A a \in SUBSET D : a # {} => Iter[a] = Step(Iter[a \ {Pick(a)}], Pick(a))
  BY <1>3
<1> HIDE DEF Iter
<1>d. Holds({})
  BY <1>4, <1>g
<1>e. ASSUME NEW a \in SUBSET D, a # {}, Holds(a \ {Pick(a)})
      PROVE  Holds(a)
  <2>1. Iter[a] = Step(Iter[a \ {Pick(a)}], Pick(a))
    BY <1>4, <1>e
  <2>3. Pick(a) \in a
    BY <1>1, <1>e
  <2>4. PICK f : From(f, Iter[a \ {Pick(a)}], a \ {Pick(a)})
    BY <1>e
  <2>5. IsSeq(Iter[a \ {Pick(a)}])
    BY <1>e
  <2>6. IsSeq(Step(Iter[a \ {Pick(a)}], Pick(a)))
        /\ \E h : From(h, Step(Iter[a \ {Pick(a)}], Pick(a)), a)
    BY <1>f, <2>3, <2>4, <2>5
  <2> QED BY <2>1, <2>6
<1>5. ASSUME NEW a \in SUBSET D
      PROVE  Holds(a)
  <2> DEFINE Bad == {i \in Nat : \E t \in SUBSET D : Cardinality(t) = i /\ ~Holds(t)}
  <2>1. ASSUME NEW i \in Bad
        PROVE  i - 1 \in Bad
    <3>1. PICK t \in SUBSET D : Cardinality(t) = i /\ ~Holds(t)
      OBVIOUS
    <3>2. t # {}
      BY <1>d, <3>1
    <3>3. ~Holds(t \ {Pick(t)})
      BY <1>e, <3>1, <3>2
    <3>4. /\ t \ {Pick(t)} \in SUBSET D
          /\ Cardinality(t \ {Pick(t)}) = i - 1 /\ i - 1 \in Nat
      <4> HIDE DEF Holds, Bad
      <4>1. /\ t \ {Pick(t)} \in SUBSET D
            /\ Cardinality(t) \in Nat \ {0}
            /\ Cardinality(t \ {Pick(t)}) = Cardinality(t) - 1
        BY <1>1, <3>1, <3>2
      <4> QED BY <3>1, <4>1
    <3> QED BY <3>3, <3>4
  <2>2. Bad = {}
    BY <2>1, NoLeastFailure
  <2>3. Cardinality(a) \in Nat
    BY <1>b, FS_Subset, FS_CardinalityType
  <2> QED BY <2>2, <2>3
<1>6. IsSeq(Iter[D]) /\ \E f : From(f, Iter[D], D)
  BY <1>5
<1>7. IsSeq(Without(s, dropped)) /\ \E f : From(f, Without(s, dropped), D)
  BY <1>a, <1>6 DEF Iter
<1> QED BY <1>7 DEF From, D

\* All of the messages are dropped, or none of them is.
LEMMA MarkedWithout ==
  ASSUME NEW s, IsSeq(s), NEW dropped, NEW S
  PROVE  LET w == Without(s, dropped)
         IN  /\ S \cap dropped = {} => AsMany(Marked(s, S), Marked(w, S))
             /\ S \subseteq dropped => Marked(w, S) = {}
<1> DEFINE w == Without(s, dropped)
<1>1. PICK f : TakenFrom(f, w, s, DOMAIN s, dropped)
  BY WithoutIs
<1> HIDE DEF w
<1>2. ASSUME S \cap dropped = {}
      PROVE  AsMany(Marked(s, S), Marked(w, S))
  <2>1. \A k \in Marked(w, S) : f[k] \in Marked(s, S)
    BY <1>1 DEF Marked, TakenFrom
  <2>2. ASSUME NEW k, Marked(s, S) = {k}
        PROVE  One(Marked(w, S))
    <3>1. k \in DOMAIN s /\ s[k] \in S /\ s[k] \notin dropped
      BY <1>2, <2>2 DEF Marked
    <3>2. PICK i \in DOMAIN w : f[i] = k
      BY <1>1, <3>1 DEF TakenFrom
    <3>3. i \in Marked(w, S)
      BY <1>1, <3>1, <3>2 DEF Marked, TakenFrom
    <3>4. \A j \in Marked(w, S) : j = i
      <4>1. \A j \in Marked(w, S) : f[j] = k /\ j \in DOMAIN w
        BY <2>1, <2>2 DEF Marked
      <4> QED BY <1>1, <3>2, <4>1 DEF TakenFrom
    <3>5. Marked(w, S) = {i}
      BY <3>3, <3>4
    <3> QED BY <3>5 DEF One
  <2>3. Marked(s, S) = {} => Marked(w, S) = {}
    BY <2>1
  <2> QED BY <2>2, <2>3 DEF AsMany, One
<1>3. S \subseteq dropped => Marked(w, S) = {}
  BY <1>1 DEF Marked, TakenFrom
<1> QED BY <1>2, <1>3 DEF w

About(m, kinds, r) == m.kind \in kinds /\ (m.kind = "root" \/ m.ref = r)

\* The requests that somebody waits for, and the answers
Requests(s, kinds, r) == {k \in DOMAIN s : s[k].live /\ About(s[k], kinds, r)}
Answers(t, kinds, r) == {k \in DOMAIN t : About(t[k], kinds, r)}

\* The requests were made at this revision, after this node.
Fits(s, r, at, after) ==
    \A k \in Requests(s, {"children"}, r) : s[k].at = at /\ s[k].after = after

\* A request is awaited, or else its answer.
Once(A, B, waiting) ==
    IF waiting THEN (One(A) /\ B = {}) \/ (A = {} /\ One(B))
    ELSE A = {} /\ B = {}

\* What is left was there before.
LEMMA WithoutKeeps ==
  ASSUME NEW s, IsSeq(s), NEW dropped
  PROVE  /\ IsSeq(Without(s, dropped))
         /\ \A k \in DOMAIN Without(s, dropped) :
                /\ Without(s, dropped)[k] \notin dropped
                /\ \E i \in DOMAIN s : Without(s, dropped)[k] = s[i]
<1> DEFINE w == Without(s, dropped)
<1>1. PICK f : TakenFrom(f, w, s, DOMAIN s, dropped)
  BY WithoutIs
<1>2. IsSeq(w)
  BY WithoutIs
<1> HIDE DEF w
<1>3. \A k \in DOMAIN w : w[k] \notin dropped /\ \E i \in DOMAIN s : w[k] = s[i]
  BY <1>1 DEF TakenFrom
<1> QED BY <1>2, <1>3 DEF w

\* Only one of two sequences has such requests.
LEMMA RequestsConcat ==
  ASSUME NEW s, NEW t, IsSeq(s), IsSeq(t), NEW kinds, NEW r
  PROVE  /\ Requests(t, kinds, r) = {} =>
                AsMany(Requests(s, kinds, r), Requests(s \o t, kinds, r))
         /\ Requests(s, kinds, r) = {} =>
                AsMany(Requests(t, kinds, r), Requests(s \o t, kinds, r))
<1> DEFINE all == {s[k] : k \in DOMAIN s} \cup {t[k] : k \in DOMAIN t}
           S == {m \in all : m.live /\ About(m, kinds, r)}
           u == s \o t
<1>1. /\ DOMAIN s = 1..Len(s) /\ DOMAIN t = 1..Len(t)
      /\ Len(s) \in Nat /\ Len(t) \in Nat
  BY IsSeqFacts
<1>2. /\ IsSeq(u) /\ Len(u) = Len(s) + Len(t)
      /\ \A k \in 1..Len(s) : u[k] = s[k]
      /\ \A k \in 1..Len(t) : u[k + Len(s)] = t[k]
  BY ConcatIs
<1>3. DOMAIN u = 1..(Len(s) + Len(t))
  BY <1>2, IsSeqFacts
<1> HIDE DEF u
<1>4. ASSUME NEW k \in DOMAIN u
      PROVE  u[k] \in all
  <2>1. CASE k \in 1..Len(s)
    BY <1>1, <1>2, <2>1
  <2>2. CASE k \notin 1..Len(s)
    <3> DEFINE j == k - Len(s)
    <3>1. j \in 1..Len(t) /\ k = j + Len(s)
      BY <1>1, <1>3, <2>2
    <3> HIDE DEF j
    <3> QED BY <1>1, <1>2, <3>1
  <2> QED BY <2>1, <2>2
<1>5. /\ Requests(s, kinds, r) = Marked(s, S)
      /\ Requests(t, kinds, r) = Marked(t, S)
  <2> HIDE DEF all
  <2>1. \A k \in DOMAIN s : s[k] \in all
    BY DEF all
  <2>2. \A k \in DOMAIN t : t[k] \in all
    BY DEF all
  <2> QED BY <2>1, <2>2 DEF Requests, Marked
<1>6. Requests(u, kinds, r) = Marked(u, S)
  <2> HIDE DEF all
  <2> QED BY <1>4 DEF Requests, Marked
<1> HIDE DEF S, all
<1> QED BY <1>5, <1>6, MarkedConcat DEF u

\* Only one of two sequences has such answers.
LEMMA AnswersConcat ==
  ASSUME NEW s, NEW t, IsSeq(s), IsSeq(t), NEW kinds, NEW r
  PROVE  /\ Answers(t, kinds, r) = {} =>
                AsMany(Answers(s, kinds, r), Answers(s \o t, kinds, r))
         /\ Answers(s, kinds, r) = {} =>
                AsMany(Answers(t, kinds, r), Answers(s \o t, kinds, r))
<1> DEFINE all == {s[k] : k \in DOMAIN s} \cup {t[k] : k \in DOMAIN t}
           S == {m \in all : About(m, kinds, r)}
           u == s \o t
<1>1. /\ DOMAIN s = 1..Len(s) /\ DOMAIN t = 1..Len(t)
      /\ Len(s) \in Nat /\ Len(t) \in Nat
  BY IsSeqFacts
<1>2. /\ IsSeq(u) /\ Len(u) = Len(s) + Len(t)
      /\ \A k \in 1..Len(s) : u[k] = s[k]
      /\ \A k \in 1..Len(t) : u[k + Len(s)] = t[k]
  BY ConcatIs
<1>3. DOMAIN u = 1..(Len(s) + Len(t))
  BY <1>2, IsSeqFacts
<1> HIDE DEF u
<1>4. ASSUME NEW k \in DOMAIN u
      PROVE  u[k] \in all
  <2>1. CASE k \in 1..Len(s)
    BY <1>1, <1>2, <2>1
  <2>2. CASE k \notin 1..Len(s)
    <3> DEFINE j == k - Len(s)
    <3>1. j \in 1..Len(t) /\ k = j + Len(s)
      BY <1>1, <1>3, <2>2
    <3> HIDE DEF j
    <3> QED BY <1>1, <1>2, <3>1
  <2> QED BY <2>1, <2>2
<1>5. /\ Answers(s, kinds, r) = Marked(s, S)
      /\ Answers(t, kinds, r) = Marked(t, S)
  <2> HIDE DEF all
  <2>1. \A k \in DOMAIN s : s[k] \in all
    BY DEF all
  <2>2. \A k \in DOMAIN t : t[k] \in all
    BY DEF all
  <2> QED BY <2>1, <2>2 DEF Answers, Marked
<1>6. Answers(u, kinds, r) = Marked(u, S)
  <2> HIDE DEF all
  <2> QED BY <1>4 DEF Answers, Marked
<1> HIDE DEF S, all
<1> QED BY <1>5, <1>6, MarkedConcat DEF u

\* The requests of both are made for the same.
LEMMA FitsConcat ==
  ASSUME NEW s, NEW t, IsSeq(s), IsSeq(t), NEW r, NEW at, NEW after,
         Fits(s, r, at, after), Fits(t, r, at, after)
  PROVE  Fits(s \o t, r, at, after)
<1> DEFINE u == s \o t
<1>1. /\ DOMAIN s = 1..Len(s) /\ DOMAIN t = 1..Len(t)
      /\ Len(s) \in Nat /\ Len(t) \in Nat
  BY IsSeqFacts
<1>2. /\ IsSeq(u) /\ Len(u) = Len(s) + Len(t)
      /\ \A k \in 1..Len(s) : u[k] = s[k]
      /\ \A k \in 1..Len(t) : u[k + Len(s)] = t[k]
  BY ConcatIs
<1>3. DOMAIN u = 1..(Len(s) + Len(t))
  BY <1>2, IsSeqFacts
<1> HIDE DEF u
<1>4. ASSUME NEW k \in Requests(u, {"children"}, r)
      PROVE  u[k].at = at /\ u[k].after = after
  <2>1. CASE k \in 1..Len(s)
    <3>1. u[k] = s[k] /\ k \in Requests(s, {"children"}, r)
      BY <1>1, <1>2, <2>1 DEF Requests
    <3> QED BY <3>1 DEF Fits
  <2>2. CASE k \notin 1..Len(s)
    <3> DEFINE j == k - Len(s)
    <3>1. j \in 1..Len(t) /\ k = j + Len(s)
      BY <1>1, <1>3, <2>2 DEF Requests
    <3> HIDE DEF j
    <3>2. u[k] = t[j]
      BY <1>2, <3>1
    <3>3. j \in Requests(t, {"children"}, r)
      BY <1>1, <3>1, <3>2 DEF Requests
    <3> QED BY <3>2, <3>3 DEF Fits
  <2> QED BY <2>1, <2>2
<1> QED BY <1>4 DEF Fits, u

\* The first message is taken.
LEMMA RequestsTail ==
  ASSUME NEW s, IsSeq(s), s # <<>>, NEW kinds, NEW r
  PROVE  LET taken == Head(s).live /\ About(Head(s), kinds, r)
             A == Requests(s, kinds, r)
             B == Requests(Tail(s), kinds, r)
         IN  /\ ~taken => AsMany(A, B)
             /\ taken => A # {}
             /\ taken /\ One(A) => B = {}
<1> DEFINE all == {s[k] : k \in DOMAIN s}
           S == {m \in all : m.live /\ About(m, kinds, r)}
           u == Tail(s)
<1>1. /\ Len(s) \in Nat \ {0} /\ Head(s) = s[1]
      /\ IsSeq(u) /\ Len(u) = Len(s) - 1
      /\ \A k \in 1..Len(u) : u[k] = s[k + 1]
  BY TailIs
<1>2. DOMAIN s = 1..Len(s) /\ DOMAIN u = 1..(Len(s) - 1)
  BY <1>1, IsSeqFacts
<1> HIDE DEF u
<1>3. Head(s) \in all /\ \A k \in DOMAIN u : u[k] \in all
  BY <1>1, <1>2
<1>4. Requests(s, kinds, r) = Marked(s, S)
  <2> HIDE DEF all
  <2>1. \A k \in DOMAIN s : s[k] \in all
    BY DEF all
  <2> QED BY <2>1 DEF Requests, Marked
<1>5. /\ Requests(u, kinds, r) = Marked(u, S)
      /\ Head(s).live /\ About(Head(s), kinds, r) <=> Head(s) \in S
  <2> HIDE DEF all
  <2> QED BY <1>3 DEF Requests, Marked
<1> HIDE DEF S, all
<1> QED BY <1>4, <1>5, MarkedTail DEF u

LEMMA AnswersTail ==
  ASSUME NEW s, IsSeq(s), s # <<>>, NEW kinds, NEW r
  PROVE  LET taken == About(Head(s), kinds, r)
             A == Answers(s, kinds, r)
             B == Answers(Tail(s), kinds, r)
         IN  /\ ~taken => AsMany(A, B)
             /\ taken => A # {}
             /\ taken /\ One(A) => B = {}
<1> DEFINE all == {s[k] : k \in DOMAIN s}
           S == {m \in all : About(m, kinds, r)}
           u == Tail(s)
<1>1. /\ Len(s) \in Nat \ {0} /\ Head(s) = s[1]
      /\ IsSeq(u) /\ Len(u) = Len(s) - 1
      /\ \A k \in 1..Len(u) : u[k] = s[k + 1]
  BY TailIs
<1>2. DOMAIN s = 1..Len(s) /\ DOMAIN u = 1..(Len(s) - 1)
  BY <1>1, IsSeqFacts
<1> HIDE DEF u
<1>3. Head(s) \in all /\ \A k \in DOMAIN u : u[k] \in all
  BY <1>1, <1>2
<1>4. Answers(s, kinds, r) = Marked(s, S)
  <2> HIDE DEF all
  <2>1. \A k \in DOMAIN s : s[k] \in all
    BY DEF all
  <2> QED BY <2>1 DEF Answers, Marked
<1>5. /\ Answers(u, kinds, r) = Marked(u, S)
      /\ About(Head(s), kinds, r) <=> Head(s) \in S
  <2> HIDE DEF all
  <2> QED BY <1>3 DEF Answers, Marked
<1> HIDE DEF S, all
<1> QED BY <1>4, <1>5, MarkedTail DEF u

LEMMA FitsTail ==
  ASSUME NEW s, IsSeq(s), s # <<>>, NEW r, NEW at, NEW after,
         Fits(s, r, at, after)
  PROVE  Fits(Tail(s), r, at, after)
<1>1. /\ Len(s) \in Nat \ {0}
      /\ IsSeq(Tail(s)) /\ Len(Tail(s)) = Len(s) - 1
      /\ \A k \in 1..Len(Tail(s)) : Tail(s)[k] = s[k + 1]
  BY TailIs
<1>2. DOMAIN s = 1..Len(s) /\ DOMAIN Tail(s) = 1..(Len(s) - 1)
  BY <1>1, IsSeqFacts
<1>3. ASSUME NEW k \in Requests(Tail(s), {"children"}, r)
      PROVE  Tail(s)[k].at = at /\ Tail(s)[k].after = after
  <2>1. k \in DOMAIN Tail(s)
    BY DEF Requests
  <2>2. Tail(s)[k] = s[k + 1] /\ k + 1 \in DOMAIN s
    BY <1>1, <1>2, <2>1
  <2>3. k + 1 \in Requests(s, {"children"}, r)
    BY <2>2 DEF Requests
  <2> QED BY <2>2, <2>3 DEF Fits
<1> QED BY <1>3 DEF Fits

\* Some messages are dropped: none about r, or all of them.
LEMMA AnswersWithout ==
  ASSUME NEW s, IsSeq(s), NEW dropped, NEW kinds, NEW r
  PROVE  LET A == Answers(s, kinds, r)
             B == Answers(Without(s, dropped), kinds, r)
         IN  /\ (\A k \in A : s[k] \notin dropped) => AsMany(A, B)
             /\ (\A k \in A : s[k] \in dropped) => B = {}
<1> DEFINE all == {s[k] : k \in DOMAIN s}
           S == {m \in all : About(m, kinds, r)}
           w == Without(s, dropped)
<1>1. \A k \in DOMAIN w : \E i \in DOMAIN s : w[k] = s[i]
  BY WithoutKeeps
<1>2. S \cap dropped = {} => AsMany(Marked(s, S), Marked(w, S))
  <2> HIDE DEF S
  <2> QED BY MarkedWithout
<1>3. S \subseteq dropped => Marked(w, S) = {}
  <2> HIDE DEF S
  <2> QED BY MarkedWithout
<1> HIDE DEF w
<1>4. \A k \in DOMAIN w : w[k] \in all
  BY <1>1
<1>5. Answers(s, kinds, r) = Marked(s, S)
  <2> HIDE DEF all
  <2>1. \A k \in DOMAIN s : s[k] \in all
    BY DEF all
  <2> QED BY <2>1 DEF Answers, Marked
<1>6. Answers(w, kinds, r) = Marked(w, S)
  <2> HIDE DEF all
  <2> QED BY <1>4 DEF Answers, Marked
<1>7. (\A k \in Answers(s, kinds, r) : s[k] \notin dropped) => S \cap dropped = {}
  BY DEF Answers
<1>8. (\A k \in Answers(s, kinds, r) : s[k] \in dropped) => S \subseteq dropped
  BY DEF Answers
<1> HIDE DEF S, all
<1> QED BY <1>2, <1>3, <1>5, <1>6, <1>7, <1>8 DEF w

-----------------------------------------------------------------------------
\* What a row awaits, before a handler and after it.

RequestsShape(s) == IsSeq(s) /\ \A k \in DOMAIN s : RequestShape(s[k])

\* A row that loads awaits one answer, to a request for what it is at now.
AwaitsRow(s, t, p, r) ==
    /\ Once(Requests(s, {"children"}, r), Answers(t, {"children", "error"}, r),
            Loads(p, r))
    /\ Fits(s, r, p.rows[r].at, p.rows[r].pending.after)

AwaitsRoot(s, t, p) ==
    Once(Requests(s, {"root"}, RootRef), Answers(t, {"root"}, RootRef), p.asking)

\* As many, step by step
LEMMA AsManyOn ==
  ASSUME NEW A, NEW B, NEW C, AsMany(A, B), AsMany(B, C)
  PROVE  AsMany(A, C)
BY DEF AsMany

\* What was awaited once still is.
LEMMA OnceOn ==
  ASSUME NEW A, NEW B, NEW C, NEW D, NEW waiting \in BOOLEAN,
         Once(A, B, waiting), AsMany(A, C), AsMany(B, D)
  PROVE  Once(C, D, waiting)
BY DEF AsMany, Once

\* One is not none.
LEMMA OneIsSome ==
  ASSUME NEW A, One(A)
  PROVE  A # {}
BY DEF One

\* The requests for the children of some rows are given up.
GivenUp(s, cut) ==
    [k \in DOMAIN s |->
        IF s[k].kind \in {"children", "error"} /\ s[k].ref \in cut
        THEN [s[k] EXCEPT !.live = FALSE] ELSE s[k]]

\* The requests for other rows stay.
LEMMA GivenUpIs ==
  ASSUME NEW s, RequestsShape(s), NEW cut
  PROVE  /\ RequestsShape(GivenUp(s, cut))
         /\ \A r \in cut : Requests(GivenUp(s, cut), {"children"}, r) = {}
         /\ \A r : r \notin cut =>
                Requests(GivenUp(s, cut), {"children"}, r) = Requests(s, {"children"}, r)
         /\ \A r : Requests(GivenUp(s, cut), {"root"}, r) = Requests(s, {"root"}, r)
         /\ \A r, at, after : Fits(s, r, at, after) => Fits(GivenUp(s, cut), r, at, after)
<1> DEFINE u == GivenUp(s, cut)
           given(m) == m.kind \in {"children", "error"} /\ m.ref \in cut
<1>1. DOMAIN s = 1..Len(s) /\ Len(s) \in Nat
  BY IsSeqFacts DEF RequestsShape
<1>2. /\ DOMAIN u = DOMAIN s
      /\ u = [k \in DOMAIN s |-> u[k]]
      /\ \A k \in DOMAIN s :
             /\ given(s[k]) => u[k] = [s[k] EXCEPT !.live = FALSE]
             /\ ~given(s[k]) => u[k] = s[k]
  BY DEF GivenUp
<1> HIDE DEF u
<1>3. ASSUME NEW k \in DOMAIN s
      PROVE  /\ RequestShape(u[k]) /\ u[k].kind = s[k].kind
             /\ given(s[k]) => s[k].kind = "children" /\ u[k].ref = s[k].ref /\ ~u[k].live
             /\ ~given(s[k]) => u[k] = s[k]
  <2>1. RequestShape(s[k])
    BY DEF RequestsShape
  <2>2. CASE ~given(s[k])
    BY <1>2, <2>1, <2>2
  <2>3. CASE given(s[k])
    <3> DEFINE m == s[k]
    <3>1. m \in [kind : {"children"}, ref : {m.ref}, at : {m.at},
                 after : {m.after}, live : BOOLEAN]
      BY <2>1, <2>3 DEF RequestShape
    <3>2. u[k] = [m EXCEPT !.live = FALSE]
      BY <1>2, <2>3
    <3> HIDE DEF m
    <3>3. u[k] \in [kind : {"children"}, ref : {m.ref}, at : {m.at},
                    after : {m.after}, live : {FALSE}]
      BY <3>1, <3>2
    <3>4. RequestShape(u[k]) /\ u[k].kind = "children" /\ m.kind = "children"
          /\ u[k].ref = m.ref /\ ~u[k].live
      BY <3>1, <3>3 DEF RequestShape
    <3> QED BY <2>3, <3>4 DEF m
  <2> QED BY <2>2, <2>3
<1>4. IsSeq(u)
  BY <1>1, <1>2, FunctionIsSeq
<1>5. RequestsShape(u)
  BY <1>2, <1>3, <1>4 DEF RequestsShape
<1>6. ASSUME NEW r \in cut
      PROVE  Requests(u, {"children"}, r) = {}
  <2>1. ASSUME NEW k \in Requests(u, {"children"}, r)
        PROVE  FALSE
    <3>1. k \in DOMAIN s /\ u[k].live /\ u[k].kind = "children" /\ u[k].ref = r
      BY <1>2 DEF Requests, About
    <3>2. CASE given(s[k])
      BY <1>3, <3>1, <3>2
    <3>3. CASE ~given(s[k])
      BY <1>3, <3>1, <3>3
    <3> QED BY <3>2, <3>3
  <2> QED BY <2>1
<1>7. ASSUME NEW k \in DOMAIN u, NEW kinds, NEW r,
             u[k].live /\ About(u[k], kinds, r)
      PROVE  u[k] = s[k]
  BY <1>2, <1>3, <1>7
<1>8. ASSUME NEW k \in DOMAIN s, NEW r, r \notin cut, About(s[k], {"children"}, r)
      PROVE  u[k] = s[k]
  BY <1>3, <1>8 DEF About
<1>9. ASSUME NEW k \in DOMAIN s, NEW r, About(s[k], {"root"}, r)
      PROVE  u[k] = s[k]
  BY <1>3, <1>9 DEF About
<1>10. ASSUME NEW r, r \notin cut
       PROVE  Requests(u, {"children"}, r) = Requests(s, {"children"}, r)
  <2>1. \A k \in Requests(u, {"children"}, r) : k \in Requests(s, {"children"}, r)
    BY <1>2, <1>7 DEF Requests
  <2>2. \A k \in Requests(s, {"children"}, r) : k \in Requests(u, {"children"}, r)
    BY <1>2, <1>8, <1>10 DEF Requests
  <2> QED BY <2>1, <2>2
<1>11. ASSUME NEW r
       PROVE  Requests(u, {"root"}, r) = Requests(s, {"root"}, r)
  <2>1. \A k \in Requests(u, {"root"}, r) : k \in Requests(s, {"root"}, r)
    BY <1>2, <1>7 DEF Requests
  <2>2. \A k \in Requests(s, {"root"}, r) : k \in Requests(u, {"root"}, r)
    BY <1>2, <1>9 DEF Requests
  <2> QED BY <2>1, <2>2
<1>12. ASSUME NEW r, NEW at, NEW after, Fits(s, r, at, after)
       PROVE  Fits(u, r, at, after)
  <2>1. ASSUME NEW k \in Requests(u, {"children"}, r)
        PROVE  u[k] = s[k] /\ k \in Requests(s, {"children"}, r)
    BY <1>2, <1>7 DEF Requests
  <2> QED BY <1>12, <2>1 DEF Fits
<1> QED BY <1>5, <1>6, <1>10, <1>11, <1>12 DEF u

\* The new requests of a panel
LEMMA OutRequests ==
  ASSUME NEW p, NewRequests(p.out), NEW r
  PROVE  /\ RequestsShape(p.out)
         /\ Requests(p.out, {"children"}, r) = OutTo(p, r)
         /\ Requests(p.out, {"root"}, r) = OutRoot(p)
<1>1. \A k \in DOMAIN p.out :
          /\ RequestShape(p.out[k]) /\ p.out[k].live
          /\ p.out[k].kind \in {"root", "children"}
  BY DEF NewRequests, NewRequest, RequestShape
<1>2. RequestsShape(p.out)
  BY <1>1 DEF NewRequests, RequestsShape
<1>3. Requests(p.out, {"children"}, r) = OutTo(p, r)
  BY <1>1 DEF Requests, About, OutTo
<1>4. Requests(p.out, {"root"}, r) = OutRoot(p)
  BY <1>1 DEF Requests, About, OutRoot
<1> QED BY <1>2, <1>3, <1>4

\* A row that awaits nothing
LEMMA NoneAwaited ==
  ASSUME NEW s, RequestsShape(s), NEW t, NEW p, NewRequests(p.out), NEW r,
         Requests(s, {"children"}, r) = {}, OutTo(p, r) = {},
         Answers(t, {"children", "error"}, r) = {}, ~Loads(p, r)
  PROVE  AwaitsRow(s \o p.out, t, p, r)
<1>1. RequestsShape(p.out) /\ Requests(p.out, {"children"}, r) = {}
  BY OutRequests
<1>2. IsSeq(s) /\ IsSeq(p.out)
  BY <1>1 DEF RequestsShape
<1>3. AsMany(Requests(s, {"children"}, r), Requests(s \o p.out, {"children"}, r))
  BY <1>1, <1>2, RequestsConcat
<1>4. Requests(s \o p.out, {"children"}, r) = {}
  BY <1>3 DEF AsMany
<1> QED BY <1>4 DEF AwaitsRow, Once, Fits

\* Of the requests for r's children, and of the answers, none is left, or all.
KeepsRequests(s, g, r, lost) ==
    IF lost THEN Requests(g, {"children"}, r) = {}
    ELSE /\ Requests(g, {"children"}, r) = Requests(s, {"children"}, r)
         /\ \A at, after : Fits(s, r, at, after) => Fits(g, r, at, after)

KeepsAnswers(t, u, r, lost) ==
    IF lost THEN Answers(u, {"children", "error"}, r) = {}
    ELSE AsMany(Answers(t, {"children", "error"}, r), Answers(u, {"children", "error"}, r))

\* A row that is tracked still awaits one answer, or none.
LEMMA RowAwaits ==
  ASSUME NEW s, NEW t, NEW P, NEW r, AwaitsRow(s, t, P, r),
         NEW p, RowTracked(P, p, r), NewRequests(p.out),
         NEW g, RequestsShape(g), KeepsRequests(s, g, r, r \in p.cut),
         NEW u, KeepsAnswers(t, u, r, r \in p.cut)
  PROVE  AwaitsRow(g \o p.out, u, p, r)
<1> DEFINE R(x) == Requests(x, {"children"}, r)
           A(x) == Answers(x, {"children", "error"}, r)
           new == p.out
           at == p.rows[r].at
           after == p.rows[r].pending.after
<1>1. /\ RequestsShape(g)
      /\ r \in p.cut => R(g) = {} /\ A(u) = {}
      /\ r \notin p.cut => R(g) = R(s) /\ AsMany(A(t), A(u))
  BY DEF KeepsRequests, KeepsAnswers
<1>2. r \notin p.cut => \A x, y : Fits(s, r, x, y) => Fits(g, r, x, y)
  BY DEF KeepsRequests
<1>3. RequestsShape(new) /\ R(new) = OutTo(p, r)
  BY OutRequests
<1>4. IsSeq(g) /\ IsSeq(new)
  BY <1>1, <1>3 DEF RequestsShape
<1>5. /\ R(new) = {} => AsMany(R(g), R(g \o new))
      /\ R(g) = {} => AsMany(R(new), R(g \o new))
  BY <1>4, RequestsConcat
<1>6. Fits(g, r, at, after) /\ Fits(new, r, at, after) => Fits(g \o new, r, at, after)
  BY <1>4, FitsConcat
<1>7. R(new) = {} => Fits(new, r, at, after)
  BY DEF Fits
<1>8. Once(R(s), A(t), Loads(P, r)) /\ Fits(s, r, P.rows[r].at, P.rows[r].pending.after)
  BY DEF AwaitsRow
<1>9. ASSUME Loads(P, r) => r \in p.cut
      PROVE  R(g) = {} /\ A(u) = {}
  BY <1>1, <1>8, <1>9 DEF Once, AsMany
<1>10. CASE Loads(P, r) /\ Keeps(P, p, r) /\ r \notin p.cut /\ OutTo(p, r) = {}
  <2>1. Loads(p, r) /\ at = P.rows[r].at /\ after = P.rows[r].pending.after
    BY <1>10 DEF Loads, Keeps
  <2>2. Fits(g \o new, r, at, after)
    BY <1>2, <1>3, <1>6, <1>7, <1>8, <1>10, <2>1
  <2>3. AsMany(R(s), R(g \o new)) /\ AsMany(A(t), A(u))
    BY <1>1, <1>3, <1>5, <1>10
  <2>4. Once(R(s), A(t), TRUE)
    BY <1>8, <1>10 DEF Once
  <2>5. Once(R(g \o new), A(u), TRUE)
    <3> HIDE DEF R, A, new
    <3> QED BY <2>3, <2>4, OnceOn
  <2> QED BY <2>1, <2>2, <2>5 DEF AwaitsRow, Once
<1>11. CASE /\ Loads(p, r) /\ (Loads(P, r) => r \in p.cut) /\ One(OutTo(p, r))
            /\ \A k \in OutTo(p, r) : new[k].at = at /\ new[k].after = after
  <2>1. R(g) = {} /\ A(u) = {}
    BY <1>9, <1>11
  <2>2. Fits(new, r, at, after)
    BY <1>3, <1>11 DEF Fits
  <2>3. Fits(g, r, at, after)
    BY <2>1 DEF Fits
  <2>4. Fits(g \o new, r, at, after)
    BY <1>6, <2>2, <2>3
  <2>5. One(R(g \o new))
    BY <1>3, <1>5, <1>11, <2>1 DEF AsMany
  <2> QED BY <1>11, <2>1, <2>4, <2>5 DEF AwaitsRow, Once
<1>12. CASE ~Loads(p, r) /\ (Loads(P, r) => r \in p.cut) /\ OutTo(p, r) = {}
  <2>1. R(g) = {} /\ A(u) = {}
    BY <1>9, <1>12
  <2>2. AwaitsRow(g \o p.out, u, p, r)
    BY <1>1, <1>12, <2>1, NoneAwaited
  <2> QED BY <2>2
<1> QED BY <1>10, <1>11, <1>12 DEF RowTracked

\* So does the root.
LEMMA RootAwaits ==
  ASSUME NEW s, NEW t, NEW P, AwaitsRoot(s, t, P),
         NEW answered \in BOOLEAN, NEW p, RootTracked(P, answered, p), NewRequests(p.out),
         NEW v, RequestsShape(v), NEW u,
         answered => /\ Requests(v, {"root"}, RootRef) = {}
                     /\ Answers(u, {"root"}, RootRef) = {},
         ~answered => /\ AsMany(Requests(s, {"root"}, RootRef), Requests(v, {"root"}, RootRef))
                      /\ AsMany(Answers(t, {"root"}, RootRef), Answers(u, {"root"}, RootRef))
  PROVE  AwaitsRoot(v \o p.out, u, p)
<1> DEFINE R(x) == Requests(x, {"root"}, RootRef)
           A(x) == Answers(x, {"root"}, RootRef)
           new == p.out
<1>1. RequestsShape(new) /\ R(new) = OutRoot(p)
  BY OutRequests
<1>2. IsSeq(v) /\ IsSeq(new)
  BY <1>1 DEF RequestsShape
<1>3. /\ R(new) = {} => AsMany(R(v), R(v \o new))
      /\ R(v) = {} => AsMany(R(new), R(v \o new))
  BY <1>2, RequestsConcat
<1>4. Once(R(s), A(t), P.asking)
  BY DEF AwaitsRoot
<1>5. /\ answered => R(v) = {} /\ A(u) = {}
      /\ ~answered => AsMany(R(s), R(v)) /\ AsMany(A(t), A(u))
  OBVIOUS
<1> HIDE DEF R, A, new
<1>6. ASSUME P.asking => answered
      PROVE  R(v) = {} /\ A(u) = {}
  BY <1>4, <1>5, <1>6 DEF Once, AsMany
<1>7. CASE p.asking /\ One(OutRoot(p)) /\ (P.asking => answered)
  <2>1. R(v) = {} /\ A(u) = {}
    BY <1>6, <1>7
  <2>2. One(R(v \o new))
    BY <1>1, <1>3, <1>7, <2>1 DEF AsMany
  <2> QED BY <1>7, <2>1, <2>2 DEF AwaitsRoot, Once, R, A, new
<1>8. CASE p.asking /\ OutRoot(p) = {} /\ P.asking /\ ~answered
  <2>1. AsMany(R(v), R(v \o new))
    BY <1>1, <1>3, <1>8
  <2>2. AsMany(R(s), R(v \o new)) /\ AsMany(A(t), A(u))
    BY <1>5, <1>8, <2>1, AsManyOn
  <2>3. Once(R(s), A(t), TRUE)
    BY <1>4, <1>8 DEF Once
  <2>4. Once(R(v \o new), A(u), TRUE)
    BY <2>2, <2>3, OnceOn
  <2> QED BY <1>8, <2>4 DEF AwaitsRoot, Once, R, A, new
<1>9. CASE ~p.asking /\ OutRoot(p) = {} /\ (P.asking => answered)
  <2>1. R(v) = {} /\ A(u) = {}
    BY <1>6, <1>9
  <2>2. R(v \o new) = {}
    BY <1>1, <1>3, <1>9, <2>1 DEF AsMany
  <2> QED BY <1>9, <2>1, <2>2 DEF AwaitsRoot, Once, R, A, new
<1> QED BY <1>7, <1>8, <1>9 DEF RootTracked

ReplyShape(m) ==
    /\ m.kind \in {"root", "children", "error", "invalidated"}
    /\ m.kind = "children" => Views(m.views) /\ m.more \in Node \cup {None}
    /\ m.kind = "invalidated" => Branches(m.branches)

RepliesShape(t) == IsSeq(t) /\ \A k \in DOMAIN t : ReplyShape(t[k])

RowsAwait(s, t, p) == \A r : AwaitsRow(s, t, p, r)

\* Every load of the panel is awaited once, and every message is whole.
Awaiting(s, t, p) ==
    /\ RequestsShape(s) /\ RepliesShape(t) /\ PanelShape(p)
    /\ RowsAwait(s, t, p)
    /\ AwaitsRoot(s, t, p)

\* The inductive invariant: between handlers nothing is still to be sent or
\* given up, and all that was asked for is awaited.
AwaitedInv ==
    /\ up \in [Node -> Elem \cup {None}]
    /\ records \subseteq Record
    /\ panel.cut = {} /\ panel.out = <<>>
    /\ Awaiting(toPage, toPanel, panel)

KeepRequests(s, g, lost) == \A r : KeepsRequests(s, g, r, r \in lost)
KeepAnswers(t, u, lost) == \A r : KeepsAnswers(t, u, r, r \in lost)

\* The root's request and its answer stay, or both are gone.
KeepRoot(s, t, g, u, answered) ==
    IF answered
    THEN Requests(g, {"root"}, RootRef) = {} /\ Answers(u, {"root"}, RootRef) = {}
    ELSE /\ AsMany(Requests(s, {"root"}, RootRef), Requests(g, {"root"}, RootRef))
         /\ AsMany(Answers(t, {"root"}, RootRef), Answers(u, {"root"}, RootRef))

Committed(p) == [p EXCEPT !.cut = {}, !.out = <<>>]

\* The messages stay whole.
LEMMA RequestsConcatShape ==
  ASSUME NEW s, NEW t, RequestsShape(s), RequestsShape(t)
  PROVE  RequestsShape(s \o t)
<1> DEFINE u == s \o t
<1>1. /\ DOMAIN s = 1..Len(s) /\ DOMAIN t = 1..Len(t)
      /\ Len(s) \in Nat /\ Len(t) \in Nat
  BY IsSeqFacts DEF RequestsShape
<1>2. /\ IsSeq(u) /\ Len(u) = Len(s) + Len(t)
      /\ \A k \in 1..Len(s) : u[k] = s[k]
      /\ \A k \in 1..Len(t) : u[k + Len(s)] = t[k]
  BY ConcatIs DEF RequestsShape
<1>3. DOMAIN u = 1..(Len(s) + Len(t))
  BY <1>2, IsSeqFacts
<1> HIDE DEF u
<1>4. ASSUME NEW k \in DOMAIN u
      PROVE  RequestShape(u[k])
  <2>1. CASE k \in 1..Len(s)
    BY <1>1, <1>2, <2>1 DEF RequestsShape
  <2>2. CASE k \notin 1..Len(s)
    <3> DEFINE j == k - Len(s)
    <3>1. j \in 1..Len(t) /\ k = j + Len(s)
      BY <1>1, <1>3, <2>2
    <3> HIDE DEF j
    <3>2. u[k] = t[j]
      BY <1>2, <3>1
    <3> QED BY <1>1, <3>1, <3>2 DEF RequestsShape
  <2> QED BY <2>1, <2>2
<1>5. RequestsShape(u)
  BY <1>2, <1>4 DEF RequestsShape
<1> QED BY <1>5 DEF u

LEMMA RepliesConcatShape ==
  ASSUME NEW s, NEW t, RepliesShape(s), RepliesShape(t)
  PROVE  RepliesShape(s \o t)
<1> DEFINE u == s \o t
<1>1. /\ DOMAIN s = 1..Len(s) /\ DOMAIN t = 1..Len(t)
      /\ Len(s) \in Nat /\ Len(t) \in Nat
  BY IsSeqFacts DEF RepliesShape
<1>2. /\ IsSeq(u) /\ Len(u) = Len(s) + Len(t)
      /\ \A k \in 1..Len(s) : u[k] = s[k]
      /\ \A k \in 1..Len(t) : u[k + Len(s)] = t[k]
  BY ConcatIs DEF RepliesShape
<1>3. DOMAIN u = 1..(Len(s) + Len(t))
  BY <1>2, IsSeqFacts
<1> HIDE DEF u
<1>4. ASSUME NEW k \in DOMAIN u
      PROVE  ReplyShape(u[k])
  <2>1. CASE k \in 1..Len(s)
    BY <1>1, <1>2, <2>1 DEF RepliesShape
  <2>2. CASE k \notin 1..Len(s)
    <3> DEFINE j == k - Len(s)
    <3>1. j \in 1..Len(t) /\ k = j + Len(s)
      BY <1>1, <1>3, <2>2
    <3> HIDE DEF j
    <3>2. u[k] = t[j]
      BY <1>2, <3>1
    <3> QED BY <1>1, <3>1, <3>2 DEF RepliesShape
  <2> QED BY <2>1, <2>2
<1>5. RepliesShape(u)
  BY <1>2, <1>4 DEF RepliesShape
<1> QED BY <1>5 DEF u

LEMMA TailShapes ==
  ASSUME NEW s, s # <<>>
  PROVE  /\ RequestsShape(s) => RequestShape(Head(s)) /\ RequestsShape(Tail(s))
         /\ RepliesShape(s) => ReplyShape(Head(s)) /\ RepliesShape(Tail(s))
<1>1. ASSUME IsSeq(s)
      PROVE  /\ IsSeq(Tail(s)) /\ Head(s) = s[1] /\ 1 \in DOMAIN s
             /\ \A k \in DOMAIN Tail(s) : Tail(s)[k] = s[k + 1] /\ k + 1 \in DOMAIN s
  <2>1. /\ Len(s) \in Nat \ {0} /\ Head(s) = s[1]
        /\ IsSeq(Tail(s)) /\ Len(Tail(s)) = Len(s) - 1
        /\ \A k \in 1..Len(Tail(s)) : Tail(s)[k] = s[k + 1]
    BY <1>1, TailIs
  <2>2. DOMAIN s = 1..Len(s) /\ DOMAIN Tail(s) = 1..(Len(s) - 1)
    BY <1>1, <2>1, IsSeqFacts
  <2> QED BY <2>1, <2>2
<1> QED BY <1>1 DEF RequestsShape, RepliesShape

LEMMA WithoutShape ==
  ASSUME NEW t, RepliesShape(t), NEW dropped
  PROVE  RepliesShape(Without(t, dropped))
<1> DEFINE w == Without(t, dropped)
<1>1. IsSeq(w) /\ \A k \in DOMAIN w : \E i \in DOMAIN t : w[k] = t[i]
  BY WithoutKeeps DEF RepliesShape
<1> HIDE DEF w
<1>2. RepliesShape(w)
  BY <1>1 DEF RepliesShape
<1> QED BY <1>2 DEF w

\* The answers to what was given up are dropped, and no others.
LEMMA StillAwaitedIs ==
  ASSUME NEW t, RepliesShape(t), NEW p
  PROVE  /\ RepliesShape(StillAwaited(t, p))
         /\ KeepAnswers(t, StillAwaited(t, p), p.cut)
         /\ AsMany(Answers(t, {"root"}, RootRef),
                   Answers(StillAwaited(t, p), {"root"}, RootRef))
<1> DEFINE dropped == {m \in ToSet(t) :
                          m.kind \in {"children", "error"} /\ m.ref \in p.cut}
           u == StillAwaited(t, p)
<1>1. u = Without(t, dropped) /\ IsSeq(t)
  BY DEF StillAwaited, RepliesShape
<1>2. RepliesShape(u)
  <2> HIDE DEF u, dropped
  <2> QED BY <1>1, WithoutShape
<1>3. \A k \in DOMAIN t :
          t[k] \in dropped <=> t[k].kind \in {"children", "error"} /\ t[k].ref \in p.cut
  BY DEF ToSet
<1> HIDE DEF u, dropped
<1>4. ASSUME NEW r \in p.cut
      PROVE  Answers(u, {"children", "error"}, r) = {}
  <2>1. \A k \in Answers(t, {"children", "error"}, r) : t[k] \in dropped
    BY <1>3 DEF Answers, About
  <2> QED BY <1>1, <2>1, AnswersWithout
<1>5. ASSUME NEW r, r \notin p.cut
      PROVE  AsMany(Answers(t, {"children", "error"}, r), Answers(u, {"children", "error"}, r))
  <2>1. \A k \in Answers(t, {"children", "error"}, r) : t[k] \notin dropped
    BY <1>3, <1>5 DEF Answers, About
  <2> QED BY <1>1, <2>1, AnswersWithout
<1>6. AsMany(Answers(t, {"root"}, RootRef), Answers(u, {"root"}, RootRef))
  <2>1. \A k \in Answers(t, {"root"}, RootRef) : t[k] \notin dropped
    BY <1>3 DEF Answers, About
  <2> QED BY <1>1, <2>1, AnswersWithout
<1>7. KeepAnswers(t, u, p.cut)
  BY <1>4, <1>5 DEF KeepsAnswers, KeepAnswers
<1> QED BY <1>2, <1>6, <1>7 DEF u

\* The requests that were given up are nobody's, and no others.
LEMMA GivenUpKeeps ==
  ASSUME NEW s, RequestsShape(s), NEW cut
  PROVE  /\ RequestsShape(GivenUp(s, cut))
         /\ KeepRequests(s, GivenUp(s, cut), cut)
         /\ AsMany(Requests(s, {"root"}, RootRef), Requests(GivenUp(s, cut), {"root"}, RootRef))
<1> DEFINE u == GivenUp(s, cut)
<1>1. RequestsShape(u)
  BY GivenUpIs
<1>2. \A r \in cut : Requests(u, {"children"}, r) = {}
  BY GivenUpIs
<1>3. \A r : r \notin cut =>
                Requests(u, {"children"}, r) = Requests(s, {"children"}, r)
  BY GivenUpIs
<1>4. \A r : Requests(u, {"root"}, r) = Requests(s, {"root"}, r)
  BY GivenUpIs
<1>5. \A r, at, after : Fits(s, r, at, after) => Fits(u, r, at, after)
  BY GivenUpIs
<1> HIDE DEF u
<1>6. KeepRequests(s, u, cut)
  BY <1>2, <1>3, <1>5 DEF KeepsRequests, KeepRequests
<1>7. AsMany(Requests(s, {"root"}, RootRef), Requests(u, {"root"}, RootRef))
  BY <1>4 DEF AsMany
<1> QED BY <1>1, <1>6, <1>7 DEF u

\* What a handler has made of the panel is put into force.
LEMMA HandledAwaits ==
  ASSUME NEW s, NEW t, NEW P, RowsAwait(s, t, P), AwaitsRoot(s, t, P),
         NEW handled, NEW answered \in BOOLEAN, NEW p, Handles(P, handled, answered, p),
         NEW g, RequestsShape(g), NEW u, RepliesShape(u),
         KeepRequests(s, g, p.cut \cup handled),
         KeepAnswers(t, u, p.cut \cup handled),
         KeepRoot(s, t, g, u, answered)
  PROVE  /\ Awaiting(g \o p.out, u, Committed(p))
         /\ Committed(p).cut = {} /\ Committed(p).out = <<>>
<1> DEFINE q == Committed(p)
<1>1. PanelShape(p) /\ NewRequests(p.out)
  BY DEF Handles, Tracks
<1>2. /\ q \in [rootRev : {p.rootRev}, asking : BOOLEAN, required : {p.required},
                waiters : {p.waiters}, rows : {p.rows}, expanded : {p.expanded},
                held : {p.held}, cut : {{}}, out : {<<>>}]
      /\ q.asking = p.asking
  BY <1>1 DEF PanelShape, Committed
<1> HIDE DEF q
<1>3. q.rows = p.rows /\ q.cut = {} /\ q.out = <<>> /\ q.asking = p.asking
  BY <1>2
<1>4. PanelShape(q)
  BY <1>1, <1>2, <1>3 DEF PanelShape
<1>5. ASSUME NEW r
      PROVE  AwaitsRow(g \o p.out, u, p, r)
  <2>1. CASE r \notin handled
    <3>1. RowTracked(P, p, r)
      BY <2>1 DEF Handles, Tracks
    <3>2. KeepsRequests(s, g, r, r \in p.cut) /\ KeepsAnswers(t, u, r, r \in p.cut)
      <4>1. r \in p.cut \cup handled <=> r \in p.cut
        BY <2>1
      <4>2. KeepsRequests(s, g, r, r \in p.cut \cup handled)
            /\ KeepsAnswers(t, u, r, r \in p.cut \cup handled)
        BY DEF KeepRequests, KeepAnswers
      <4> QED BY <4>1, <4>2 DEF KeepsRequests, KeepsAnswers
    <3>3. AwaitsRow(s, t, P, r)
      BY DEF RowsAwait
    <3> QED BY <1>1, <3>1, <3>2, <3>3, RowAwaits
  <2>2. CASE r \in handled
    <3>1. KeepsRequests(s, g, r, r \in p.cut \cup handled)
          /\ KeepsAnswers(t, u, r, r \in p.cut \cup handled)
      BY DEF KeepRequests, KeepAnswers
    <3>2. Requests(g, {"children"}, r) = {} /\ Answers(u, {"children", "error"}, r) = {}
      BY <2>2, <3>1 DEF KeepsRequests, KeepsAnswers
    <3>3. OutTo(p, r) = {} /\ ~Loads(p, r)
      BY <2>2 DEF Handles, Tracks
    <3> QED BY <1>1, <3>2, <3>3, NoneAwaited
  <2> QED BY <2>1, <2>2
<1>6. AwaitsRoot(g \o p.out, u, p)
  <2>1. RootTracked(P, answered, p)
    BY DEF Handles
  <2>2. answered => /\ Requests(g, {"root"}, RootRef) = {}
                    /\ Answers(u, {"root"}, RootRef) = {}
    BY DEF KeepRoot
  <2>3. ~answered => /\ AsMany(Requests(s, {"root"}, RootRef), Requests(g, {"root"}, RootRef))
                     /\ AsMany(Answers(t, {"root"}, RootRef), Answers(u, {"root"}, RootRef))
    BY DEF KeepRoot
  <2> QED BY <1>1, <2>1, <2>2, <2>3, RootAwaits
<1>7. RowsAwait(g \o p.out, u, q)
  BY <1>3, <1>5 DEF AwaitsRow, Loads, RowsAwait
<1>8. AwaitsRoot(g \o p.out, u, q)
  BY <1>3, <1>6 DEF AwaitsRoot
<1>9. RequestsShape(g \o p.out)
  <2>1. RequestsShape(p.out)
    BY <1>1, OutRequests
  <2> QED BY <2>1, RequestsConcatShape
<1>10. Awaiting(g \o p.out, u, q)
  BY <1>4, <1>7, <1>8, <1>9 DEF Awaiting
<1> QED BY <1>3, <1>10 DEF q

-----------------------------------------------------------------------------
\* The steps of the panel and its user.

\* Commit in the words of these lemmas
LEMMA CommitIs ==
  ASSUME NEW p, Commit(p)
  PROVE  /\ panel' = Committed(p)
         /\ toPage' = GivenUp(toPage, p.cut) \o p.out
BY DEF Commit, Committed, GivenUp

\* Receive: the answer that arrives is the one the row awaited, so nothing
\* else is under way for it; what the handler gives up loses its answer too.
LEMMA ReceiveAwaits ==
  ASSUME AwaitedInv, Receive
  PROVE  AwaitedInv'
<1> DEFINE m == Head(toPanel)
           t == Tail(toPanel)
           handled == IF m.kind \in {"children", "error"} THEN {m.ref} ELSE {}
           answered == m.kind = "root"
           p == CASE m.kind = "children" -> Loaded(panel, m)
                  [] m.kind = "error" -> Failed(panel, m.ref)
                  [] m.kind = "root" -> RootLoaded(panel, m.view)
                  [] m.kind = "invalidated" ->
                         FoldLeft(Invalidate, panel, m.branches)
           g == GivenUp(toPage, p.cut)
           u == StillAwaited(t, p)
           R(s, r) == Requests(s, {"children"}, r)
           A(s, r) == Answers(s, {"children", "error"}, r)
<1>1. /\ toPanel # <<>> /\ Commit(p) /\ toPanel' = u
      /\ UNCHANGED <<up, records>>
  BY DEF Receive
<1>2. panel' = Committed(p) /\ toPage' = g \o p.out
  <2> HIDE DEF p
  <2> QED BY <1>1, CommitIs
<1>3. /\ PanelShape(panel) /\ panel.cut = {} /\ panel.out = <<>>
      /\ RequestsShape(toPage) /\ RepliesShape(toPanel)
      /\ RowsAwait(toPage, toPanel, panel)
      /\ AwaitsRoot(toPage, toPanel, panel)
  BY DEF AwaitedInv, Awaiting
<1>4. ReplyShape(m) /\ RepliesShape(t) /\ IsSeq(toPanel)
  <2>1. ReplyShape(Head(toPanel)) /\ RepliesShape(Tail(toPanel))
    BY <1>1, <1>3, TailShapes
  <2> QED BY <1>3, <2>1 DEF RepliesShape
<1>5. ASSUME NEW kinds, NEW r
      PROVE  /\ ~About(m, kinds, r) => AsMany(Answers(toPanel, kinds, r), Answers(t, kinds, r))
             /\ About(m, kinds, r) => Answers(toPanel, kinds, r) # {}
             /\ About(m, kinds, r) /\ One(Answers(toPanel, kinds, r)) => Answers(t, kinds, r) = {}
  BY <1>1, <1>4, AnswersTail
<1>6. ASSUME NEW r \in handled
      PROVE  R(toPage, r) = {} /\ A(t, r) = {} /\ Loads(panel, r)
  <2>1. About(m, {"children", "error"}, r)
    BY DEF About
  <2>2. A(toPanel, r) # {}
    BY <1>5, <2>1
  <2>3. Once(R(toPage, r), A(toPanel, r), Loads(panel, r))
    BY <1>3 DEF RowsAwait, AwaitsRow
  <2>4. R(toPage, r) = {} /\ One(A(toPanel, r)) /\ Loads(panel, r)
    BY <2>2, <2>3 DEF Once
  <2> QED BY <1>5, <2>1, <2>4
<1>7. ASSUME NEW r, r \notin handled
      PROVE  AsMany(A(toPanel, r), A(t, r))
  <2>1. ~About(m, {"children", "error"}, r)
    BY <1>7 DEF About
  <2> QED BY <1>5, <2>1
<1>8. Handles(panel, handled, answered, p)
  <2>1. CASE m.kind = "children"
    <3>1. Loads(panel, m.ref)
      BY <1>6, <2>1
    <3>2. m.ref \in DOMAIN panel.rows /\ panel.rows[m.ref].pending # None
      BY <3>1 DEF Loads
    <3>3. Views(m.views) /\ m.more \in Node \cup {None}
      BY <1>4, <2>1 DEF ReplyShape
    <3>4. Handles(panel, {m.ref}, FALSE, Loaded(panel, m))
      <4> HIDE DEF m
      <4> QED BY <1>3, <3>2, <3>3, LoadedHandles
    <3>5. p = Loaded(panel, m) /\ handled = {m.ref} /\ answered = FALSE
      BY <2>1
    <3> HIDE DEF p, handled, answered, m
    <3> QED BY <3>4, <3>5
  <2>2. CASE m.kind = "error"
    <3>1. Loads(panel, m.ref)
      BY <1>6, <2>2
    <3>2. m.ref \in DOMAIN panel.rows
      BY <3>1 DEF Loads
    <3>3. Handles(panel, {m.ref}, FALSE, Failed(panel, m.ref))
      <4> DEFINE r == m.ref
      <4>1. r \in DOMAIN panel.rows /\ panel.cut \subseteq {r}
        BY <1>3, <3>2
      <4> HIDE DEF r
      <4>2. Handles(panel, {r}, FALSE, Failed(panel, r))
        BY <1>3, <4>1, FailedHandles
      <4> QED BY <4>2 DEF r
    <3>4. p = Failed(panel, m.ref) /\ handled = {m.ref} /\ answered = FALSE
      BY <2>2
    <3> HIDE DEF p, handled, answered, m
    <3> QED BY <3>3, <3>4
  <2>3. CASE m.kind = "root"
    <3>1. Handles(panel, {}, TRUE, RootLoaded(panel, m.view))
      BY <1>3, RootLoadedHandles
    <3>2. p = RootLoaded(panel, m.view) /\ handled = {} /\ answered = TRUE
      BY <2>3
    <3> HIDE DEF p, handled, answered, m
    <3> QED BY <3>1, <3>2
  <2>4. CASE m.kind = "invalidated"
    <3>1. Branches(m.branches)
      BY <1>4, <2>4 DEF ReplyShape
    <3>2. Handles(panel, {}, FALSE, FoldLeft(Invalidate, panel, m.branches))
      BY <1>3, <3>1, InvalidatedHandles
    <3>3. p = FoldLeft(Invalidate, panel, m.branches) /\ handled = {} /\ answered = FALSE
      BY <2>4
    <3> HIDE DEF p, handled, answered, m
    <3> QED BY <3>2, <3>3
  <2> QED BY <1>4, <2>1, <2>2, <2>3, <2>4 DEF ReplyShape
<1>9. answered => /\ Requests(toPage, {"root"}, RootRef) = {}
                  /\ Answers(t, {"root"}, RootRef) = {}
  <2>1. answered => About(m, {"root"}, RootRef)
    BY DEF About
  <2>2. Once(Requests(toPage, {"root"}, RootRef), Answers(toPanel, {"root"}, RootRef),
             panel.asking)
    BY <1>3 DEF AwaitsRoot
  <2> QED BY <1>5, <2>1, <2>2 DEF Once
<1>10. ~answered => AsMany(Answers(toPanel, {"root"}, RootRef), Answers(t, {"root"}, RootRef))
  <2>1. ~answered => ~About(m, {"root"}, RootRef)
    BY DEF About
  <2> QED BY <1>5, <2>1
<1>11. answered \in BOOLEAN
  OBVIOUS
<1> HIDE DEF p, m, t, handled, answered
<1>12. /\ RequestsShape(g) /\ KeepRequests(toPage, g, p.cut)
       /\ AsMany(Requests(toPage, {"root"}, RootRef), Requests(g, {"root"}, RootRef))
  BY <1>3, GivenUpKeeps
<1>13. /\ RepliesShape(u) /\ KeepAnswers(t, u, p.cut)
       /\ AsMany(Answers(t, {"root"}, RootRef), Answers(u, {"root"}, RootRef))
  BY <1>4, StillAwaitedIs
<1> HIDE DEF g, u
<1>14. KeepRequests(toPage, g, p.cut \cup handled)
  <2>1. ASSUME NEW r
        PROVE  KeepsRequests(toPage, g, r, r \in p.cut \cup handled)
    <3>1. KeepsRequests(toPage, g, r, r \in p.cut)
      BY <1>12 DEF KeepRequests
    <3> QED BY <1>6, <3>1 DEF KeepsRequests
  <2> QED BY <2>1 DEF KeepRequests
<1>15. KeepAnswers(toPanel, u, p.cut \cup handled)
  <2>1. ASSUME NEW r
        PROVE  KeepsAnswers(toPanel, u, r, r \in p.cut \cup handled)
    <3>1. KeepsAnswers(t, u, r, r \in p.cut)
      BY <1>13 DEF KeepAnswers
    <3>2. CASE r \in p.cut
      BY <3>1, <3>2 DEF KeepsAnswers
    <3>3. CASE r \notin p.cut /\ r \in handled
      <4>1. A(t, r) = {} /\ AsMany(A(t, r), A(u, r))
        BY <1>6, <3>1, <3>3 DEF KeepsAnswers
      <4> QED BY <3>3, <4>1 DEF KeepsAnswers, AsMany
    <3>4. CASE r \notin p.cut /\ r \notin handled
      <4>1. AsMany(A(toPanel, r), A(t, r)) /\ AsMany(A(t, r), A(u, r))
        BY <1>7, <3>1, <3>4 DEF KeepsAnswers
      <4>2. AsMany(A(toPanel, r), A(u, r))
        BY <4>1, AsManyOn
      <4> QED BY <3>4, <4>2 DEF KeepsAnswers
    <3> QED BY <3>2, <3>3, <3>4
  <2> QED BY <2>1 DEF KeepAnswers
<1>16. KeepRoot(toPage, toPanel, g, u, answered)
  <2>1. CASE answered
    BY <1>9, <1>12, <1>13, <2>1 DEF KeepRoot, AsMany
  <2>2. CASE ~answered
    <3>1. AsMany(Answers(toPanel, {"root"}, RootRef), Answers(u, {"root"}, RootRef))
      BY <1>10, <1>13, <2>2, AsManyOn
    <3> QED BY <1>12, <2>2, <3>1 DEF KeepRoot
  <2> QED BY <2>1, <2>2
<1> HIDE DEF R, A
<1>17. /\ Awaiting(g \o p.out, u, Committed(p))
       /\ Committed(p).cut = {} /\ Committed(p).out = <<>>
  BY <1>3, <1>8, <1>11, <1>12, <1>13, <1>14, <1>15, <1>16, HandledAwaits
<1>18. Awaiting(toPage', toPanel', panel') /\ panel'.cut = {} /\ panel'.out = <<>>
  BY <1>1, <1>2, <1>17
<1> QED BY <1>1, <1>18 DEF AwaitedInv

\* A failure gives up no less.
LEMMA FailedCut ==
  ASSUME NEW P, PanelShape(P), NEW r \in DOMAIN P.rows
  PROVE  P.cut \subseteq Failed(P, r).cut
<1> DEFINE first == P.rows[r].pending.after = None
           p == IF first THEN FailFirstPage(P, r) ELSE P
<1>1. Failed(P, r) = [p EXCEPT !.rows[r].pending = None]
  BY DEF Failed
<1>2. Trims(P, p)
  BY FailFirstPageTrims, TrimsItself
<1> HIDE DEF p
<1>3. PanelShape(p) /\ P.cut \subseteq p.cut
  BY <1>2 DEF Trims
<1>4. [p EXCEPT !.rows[r].pending = None].cut = p.cut
  BY <1>3 DEF PanelShape
<1> QED BY <1>1, <1>3, <1>4

\* TimesOut: the request and its answer are given up together.
LEMMA TimesOutAwaits ==
  ASSUME AwaitedInv, TimesOut
  PROVE  AwaitedInv'
<1>1. PICK r \in DOMAIN panel.rows :
          LET p == Failed([panel EXCEPT !.cut = {r}], r)
          IN  Commit(p) /\ toPanel' = StillAwaited(toPanel, p)
  BY DEF TimesOut
<1> DEFINE P == [panel EXCEPT !.cut = {r}]
           p == Failed(P, r)
           g == GivenUp(toPage, p.cut)
           u == StillAwaited(toPanel, p)
<1>2. UNCHANGED <<up, records>>
  BY DEF TimesOut
<1>3. Commit(p) /\ toPanel' = u
  BY <1>1
<1>4. panel' = Committed(p) /\ toPage' = g \o p.out
  <2> HIDE DEF p
  <2> QED BY <1>3, CommitIs
<1>5. /\ PanelShape(panel) /\ panel.out = <<>>
      /\ RequestsShape(toPage) /\ RepliesShape(toPanel)
      /\ RowsAwait(toPage, toPanel, panel)
      /\ AwaitsRoot(toPage, toPanel, panel)
  BY DEF AwaitedInv, Awaiting
<1>6. /\ P \in [rootRev : {panel.rootRev}, asking : BOOLEAN,
                required : {panel.required}, waiters : {panel.waiters},
                rows : {panel.rows}, expanded : {panel.expanded},
                held : {panel.held}, cut : {{r}}, out : {panel.out}]
      /\ P.asking = panel.asking
  BY <1>5 DEF PanelShape
<1> HIDE DEF P
<1>7. P.rows = panel.rows /\ P.cut = {r} /\ P.out = <<>>
  BY <1>5, <1>6
<1>8. PanelShape(P)
  BY <1>5, <1>6, <1>7 DEF PanelShape
<1>9. Handles(P, {r}, FALSE, p)
  BY <1>7, <1>8, FailedHandles
<1>10. RowsAwait(toPage, toPanel, P)
  BY <1>5, <1>7 DEF RowsAwait, AwaitsRow, Loads
<1>11. AwaitsRoot(toPage, toPanel, P)
  BY <1>5, <1>6 DEF AwaitsRoot
<1>12. r \in p.cut
  BY <1>7, <1>8, FailedCut
<1> HIDE DEF p
<1>13. p.cut \cup {r} = p.cut
  BY <1>12
<1>14. /\ RequestsShape(g) /\ KeepRequests(toPage, g, p.cut)
       /\ AsMany(Requests(toPage, {"root"}, RootRef), Requests(g, {"root"}, RootRef))
  BY <1>5, GivenUpKeeps
<1>15. /\ RepliesShape(u) /\ KeepAnswers(toPanel, u, p.cut)
       /\ AsMany(Answers(toPanel, {"root"}, RootRef), Answers(u, {"root"}, RootRef))
  BY <1>5, StillAwaitedIs
<1> HIDE DEF g, u
<1>16. KeepRequests(toPage, g, p.cut \cup {r}) /\ KeepAnswers(toPanel, u, p.cut \cup {r})
  BY <1>13, <1>14, <1>15
<1>17. KeepRoot(toPage, toPanel, g, u, FALSE)
  BY <1>14, <1>15 DEF KeepRoot
<1> DEFINE answered == FALSE
           handled == {r}
<1>18. /\ answered \in BOOLEAN
       /\ Handles(P, handled, answered, p)
       /\ KeepRequests(toPage, g, p.cut \cup handled)
       /\ KeepAnswers(toPanel, u, p.cut \cup handled)
       /\ KeepRoot(toPage, toPanel, g, u, answered)
  BY <1>9, <1>16, <1>17
<1> HIDE DEF answered, handled
<1>19. /\ Awaiting(g \o p.out, u, Committed(p))
       /\ Committed(p).cut = {} /\ Committed(p).out = <<>>
  BY <1>10, <1>11, <1>14, <1>15, <1>18, HandledAwaits
<1>20. Awaiting(toPage', toPanel', panel') /\ panel'.cut = {} /\ panel'.out = <<>>
  BY <1>3, <1>4, <1>19
<1> QED BY <1>2, <1>20 DEF AwaitedInv

\* The request for the root is given up.
RootGivenUp(s) ==
    [k \in DOMAIN s |->
        IF s[k].kind = "root" THEN [s[k] EXCEPT !.live = FALSE] ELSE s[k]]

\* The requests for children stay.
LEMMA RootGivenUpKeeps ==
  ASSUME NEW s, RequestsShape(s)
  PROVE  /\ RequestsShape(RootGivenUp(s))
         /\ Requests(RootGivenUp(s), {"root"}, RootRef) = {}
         /\ KeepRequests(s, RootGivenUp(s), {})
<1> DEFINE u == RootGivenUp(s)
           late(m) == m.kind = "root"
<1>1. DOMAIN s = 1..Len(s) /\ Len(s) \in Nat
  BY IsSeqFacts DEF RequestsShape
<1>2. /\ DOMAIN u = DOMAIN s
      /\ u = [k \in DOMAIN s |-> u[k]]
      /\ \A k \in DOMAIN s :
             /\ late(s[k]) => u[k] = [s[k] EXCEPT !.live = FALSE]
             /\ ~late(s[k]) => u[k] = s[k]
  BY DEF RootGivenUp
<1> HIDE DEF u
<1>3. ASSUME NEW k \in DOMAIN s
      PROVE  /\ RequestShape(u[k]) /\ u[k].kind = s[k].kind
             /\ late(s[k]) => ~u[k].live
             /\ ~late(s[k]) => u[k] = s[k]
  <2>1. RequestShape(s[k])
    BY DEF RequestsShape
  <2>2. CASE ~late(s[k])
    BY <1>2, <2>1, <2>2
  <2>3. CASE late(s[k])
    <3>1. s[k] \in [kind : {"root"}, live : BOOLEAN]
      BY <2>1, <2>3 DEF RequestShape
    <3>2. u[k] = [s[k] EXCEPT !.live = FALSE]
      BY <1>2, <2>3
    <3>3. u[k] \in [kind : {"root"}, live : {FALSE}]
      BY <3>1, <3>2
    <3> QED BY <2>3, <3>3 DEF RequestShape
  <2> QED BY <2>2, <2>3
<1>4. IsSeq(u)
  BY <1>1, <1>2, FunctionIsSeq
<1>5. RequestsShape(u)
  BY <1>2, <1>3, <1>4 DEF RequestsShape
<1>6. Requests(u, {"root"}, RootRef) = {}
  BY <1>2, <1>3 DEF Requests, About
<1>7. ASSUME NEW r
      PROVE  KeepsRequests(s, u, r, r \in {})
  <2>1. \A k \in DOMAIN s : u[k].kind = "children" \/ s[k].kind = "children" => u[k] = s[k]
    BY <1>3
  <2>2. Requests(u, {"children"}, r) = Requests(s, {"children"}, r)
    BY <1>2, <2>1 DEF Requests, About
  <2>3. \A k \in Requests(u, {"children"}, r) : u[k] = s[k]
    BY <1>2, <2>1 DEF Requests, About
  <2>4. \A at, after : Fits(s, r, at, after) => Fits(u, r, at, after)
    BY <2>2, <2>3 DEF Fits
  <2> QED BY <2>2, <2>4 DEF KeepsRequests
<1> QED BY <1>5, <1>6, <1>7 DEF u, KeepRequests

\* The root's end gives up no row.
LEMMA RootAskedCut ==
  ASSUME NEW p, PanelShape(p)
  PROVE  RootAsked(p).cut = p.cut
BY DEF RootAsked, RefreshRoot, PanelShape

\* RootTimesOut: a late view of the root is dropped, and the next is another.
LEMMA RootTimesOutAwaits ==
  ASSUME AwaitedInv, RootTimesOut
  PROVE  AwaitedInv'
<1> DEFINE p == RootAsked(panel)
           late(m) == m.kind = "root"
           g == RootGivenUp(toPage)
           dropped == {m \in ToSet(toPanel) : late(m)}
           u == Without(toPanel, dropped)
<1>1. /\ panel' = [p EXCEPT !.out = <<>>]
      /\ toPage' = g \o p.out /\ toPanel' = u
      /\ UNCHANGED <<up, records>>
  BY DEF RootTimesOut, RootGivenUp
<1>2. /\ PanelShape(panel) /\ panel.cut = {} /\ panel.out = <<>>
      /\ RequestsShape(toPage) /\ RepliesShape(toPanel)
      /\ RowsAwait(toPage, toPanel, panel)
      /\ AwaitsRoot(toPage, toPanel, panel)
  BY DEF AwaitedInv, Awaiting
<1>3. p.cut = {}
  BY <1>2, RootAskedCut
<1>4. Handles(panel, {}, TRUE, p)
  <2>1. Trims(panel, panel)
    BY <1>2, TrimsItself
  <2>2. Tracks(panel, {}, panel)
    BY <1>2, <2>1, TracksFrom
  <2>3. OutRoot(panel) = {}
    BY <1>2, <2>1, TracksFrom
  <2>4. Tracks(panel, {}, RootAsked(panel))
    BY <2>2, <2>3, RootAskedTracks
  <2>5. RootTracked(panel, TRUE, RootAsked(panel))
    BY <2>2, <2>3, RootAskedTracks
  <2> QED BY <2>4, <2>5 DEF Handles
<1> HIDE DEF p
<1>5. PanelShape(p)
  BY <1>4 DEF Handles, Tracks
<1>6. [p EXCEPT !.out = <<>>] = Committed(p)
  BY <1>3, <1>5 DEF PanelShape, Committed
<1>7. /\ RequestsShape(g) /\ Requests(g, {"root"}, RootRef) = {}
      /\ KeepRequests(toPage, g, {})
  BY <1>2, RootGivenUpKeeps
<1>8. IsSeq(toPanel) /\ \A k \in DOMAIN toPanel : toPanel[k] \in dropped <=> late(toPanel[k])
  BY <1>2 DEF RepliesShape, ToSet
<1>9. RepliesShape(u)
  <2> HIDE DEF dropped
  <2> QED BY <1>2, WithoutShape
<1> HIDE DEF dropped
<1>10. Answers(u, {"root"}, RootRef) = {}
  <2>1. \A k \in Answers(toPanel, {"root"}, RootRef) : toPanel[k] \in dropped
    BY <1>8 DEF Answers, About
  <2> QED BY <1>8, <2>1, AnswersWithout
<1>11. ASSUME NEW r
       PROVE  KeepsAnswers(toPanel, u, r, r \in {})
  <2>1. \A k \in Answers(toPanel, {"children", "error"}, r) : toPanel[k] \notin dropped
    BY <1>8 DEF Answers, About
  <2>2. AsMany(Answers(toPanel, {"children", "error"}, r), Answers(u, {"children", "error"}, r))
    BY <1>8, <2>1, AnswersWithout
  <2> QED BY <2>2 DEF KeepsAnswers
<1> HIDE DEF g, u
<1>12. KeepRequests(toPage, g, p.cut \cup {}) /\ KeepAnswers(toPanel, u, p.cut \cup {})
  <2>1. p.cut \cup {} = {}
    BY <1>3
  <2> QED BY <1>7, <1>11, <2>1 DEF KeepAnswers
<1>13. KeepRoot(toPage, toPanel, g, u, TRUE)
  BY <1>7, <1>10 DEF KeepRoot
<1> DEFINE answered == TRUE
<1>14. /\ answered \in BOOLEAN
       /\ Handles(panel, {}, answered, p)
       /\ KeepRoot(toPage, toPanel, g, u, answered)
  BY <1>4, <1>13
<1> HIDE DEF answered
<1>15. /\ Awaiting(g \o p.out, u, Committed(p))
       /\ Committed(p).cut = {} /\ Committed(p).out = <<>>
  BY <1>2, <1>7, <1>9, <1>12, <1>14, HandledAwaits
<1>16. Awaiting(toPage', toPanel', panel') /\ panel'.cut = {} /\ panel'.out = <<>>
  BY <1>1, <1>6, <1>15
<1> QED BY <1>1, <1>16 DEF AwaitedInv

\* What the user does
LEMMA AskAwaits ==
  ASSUME AwaitedInv, NEW p, Handles(panel, {}, FALSE, p), p.cut = {}, Ask(p)
  PROVE  AwaitedInv'
<1> DEFINE g == GivenUp(toPage, p.cut)
<1>1. Commit(p) /\ UNCHANGED <<up, records, toPanel>>
  BY DEF Ask
<1>2. panel' = Committed(p) /\ toPage' = g \o p.out
  BY <1>1, CommitIs
<1>3. /\ RequestsShape(toPage) /\ RepliesShape(toPanel)
      /\ RowsAwait(toPage, toPanel, panel)
      /\ AwaitsRoot(toPage, toPanel, panel)
  BY DEF AwaitedInv, Awaiting
<1>4. /\ RequestsShape(g) /\ KeepRequests(toPage, g, p.cut)
      /\ AsMany(Requests(toPage, {"root"}, RootRef), Requests(g, {"root"}, RootRef))
  BY <1>3, GivenUpKeeps
<1> HIDE DEF g
<1>5. KeepRequests(toPage, g, p.cut \cup {}) /\ KeepAnswers(toPanel, toPanel, p.cut \cup {})
  <2>1. p.cut \cup {} = p.cut /\ p.cut = {}
    OBVIOUS
  <2>2. KeepAnswers(toPanel, toPanel, {})
    BY DEF KeepAnswers, KeepsAnswers, AsMany
  <2> QED BY <1>4, <2>1, <2>2
<1>6. KeepRoot(toPage, toPanel, g, toPanel, FALSE)
  BY <1>4 DEF KeepRoot, AsMany
<1> DEFINE answered == FALSE
<1>7. /\ answered \in BOOLEAN
      /\ Handles(panel, {}, answered, p)
      /\ KeepRoot(toPage, toPanel, g, toPanel, answered)
  BY <1>6
<1> HIDE DEF answered
<1>8. /\ Awaiting(g \o p.out, toPanel, Committed(p))
      /\ Committed(p).cut = {} /\ Committed(p).out = <<>>
  BY <1>3, <1>4, <1>5, <1>7, HandledAwaits
<1>9. Awaiting(toPage', toPanel', panel') /\ panel'.cut = {} /\ panel'.out = <<>>
  BY <1>1, <1>2, <1>8
<1> QED BY <1>1, <1>9 DEF AwaitedInv

\* A request gives up none.
LEMMA FetchCut ==
  ASSUME NEW p, PanelShape(p), NEW r, NEW after, NEW owned
  PROVE  Fetch(p, r, after, owned).cut = p.cut
BY DEF Fetch, PanelShape

\* Expand, Collapse and LoadMore: a row that is on display is asked for once.
LEMMA UserAwaits ==
  ASSUME AwaitedInv, Expand \/ Collapse \/ LoadMore
  PROVE  AwaitedInv'
<1>1. PanelShape(panel) /\ panel.cut = {} /\ panel.out = <<>>
  BY DEF AwaitedInv, Awaiting
<1>2. ASSUME NEW expanded
      PROVE  LET p == [panel EXCEPT !.expanded = expanded]
             IN  /\ Trims(panel, p) /\ PanelShape(p)
                 /\ p.cut = {} /\ p.rows = panel.rows
  <2> DEFINE p == [panel EXCEPT !.expanded = expanded]
  <2>1. /\ p \in [rootRev : {panel.rootRev}, asking : BOOLEAN,
                  required : {panel.required}, waiters : {panel.waiters},
                  rows : {panel.rows}, expanded : {expanded},
                  held : {panel.held}, cut : {panel.cut}, out : {panel.out}]
        /\ p.asking = panel.asking
    BY <1>1 DEF PanelShape
  <2> HIDE DEF p
  <2>2. p.rows = panel.rows /\ p.cut = panel.cut /\ p.out = panel.out
    BY <2>1
  <2>3. PanelShape(p)
    BY <1>1, <2>1, <2>2 DEF PanelShape
  <2>4. Trims(panel, p)
    BY <2>1, <2>2, <2>3 DEF Trims, Keeps
  <2> QED BY <1>1, <2>2, <2>3, <2>4 DEF p
<1>3. ASSUME NEW p, Trims(panel, p), PanelShape(p), p.cut = {},
             NEW r \in DOMAIN p.rows, NEW after \in Node \cup {None}
      PROVE  /\ Handles(panel, {}, FALSE, p)
             /\ Handles(panel, {}, FALSE, Fetch(p, r, after, FALSE))
             /\ Fetch(p, r, after, FALSE).cut = {}
  <2>1. Handles(panel, {}, FALSE, p)
    BY <1>1, <1>3, FetchHandles
  <2>2. Handles(panel, {}, FALSE, Fetch(p, r, after, FALSE))
    BY <1>1, <1>3, FetchHandles
  <2> QED BY <1>3, <2>1, <2>2, FetchCut
<1>4. Usable \subseteq DOMAIN panel.rows
  BY DEF Usable
<1>5. CASE Expand
  <2>1. PICK r \in Usable :
            LET p == [panel EXCEPT !.expanded = @ \cup {r}]
            IN  Ask(IF p.rows[r].loaded THEN p ELSE Fetch(p, r, None, FALSE))
    BY <1>5 DEF Expand
  <2> DEFINE expanded == panel.expanded \cup {r}
             p == [panel EXCEPT !.expanded = expanded]
             q == IF p.rows[r].loaded THEN p ELSE Fetch(p, r, None, FALSE)
  <2>2. Ask(q)
    BY <2>1
  <2>3. /\ Trims(panel, p) /\ PanelShape(p)
        /\ p.cut = {} /\ p.rows = panel.rows
    <3> HIDE DEF expanded
    <3> QED BY <1>2
  <2> HIDE DEF p
  <2>4. r \in DOMAIN p.rows /\ None \in Node \cup {None}
    BY <1>4, <2>3
  <2>5. Handles(panel, {}, FALSE, q) /\ q.cut = {}
    BY <1>3, <2>3, <2>4
  <2> HIDE DEF q
  <2> QED BY <2>2, <2>5, AskAwaits
<1>6. CASE Collapse
  <2>1. PICK r \in Usable \cap panel.expanded :
            Ask([panel EXCEPT !.expanded = @ \ {r}])
    BY <1>6 DEF Collapse
  <2> DEFINE expanded == panel.expanded \ {r}
             p == [panel EXCEPT !.expanded = expanded]
  <2>2. Ask(p)
    BY <2>1
  <2>3. /\ Trims(panel, p) /\ PanelShape(p)
        /\ p.cut = {} /\ p.rows = panel.rows
    <3> HIDE DEF expanded
    <3> QED BY <1>2
  <2> HIDE DEF p
  <2>4. r \in DOMAIN p.rows /\ None \in Node \cup {None}
    BY <1>4, <2>3
  <2>5. Handles(panel, {}, FALSE, p)
    BY <1>3, <2>3, <2>4
  <2> QED BY <2>2, <2>3, <2>5, AskAwaits
<1>7. CASE LoadMore
  <2>1. PICK r \in Usable : Ask(Fetch(panel, r, panel.rows[r].more, FALSE))
    BY <1>7 DEF LoadMore
  <2> DEFINE after == panel.rows[r].more
             q == Fetch(panel, r, after, FALSE)
  <2>2. r \in DOMAIN panel.rows /\ Trims(panel, panel)
    BY <1>1, <1>4, TrimsItself
  <2>3. after \in Node \cup {None}
    <3>1. RowShape(panel.rows[r])
      BY <1>1, <2>2 DEF PanelShape
    <3> QED BY <3>1 DEF RowShape
  <2> HIDE DEF after
  <2>4. Handles(panel, {}, FALSE, q) /\ q.cut = {}
    BY <1>1, <1>3, <2>2, <2>3
  <2>5. Ask(q)
    BY <2>1 DEF after
  <2> HIDE DEF q
  <2> QED BY <2>4, <2>5, AskAwaits
<1> QED BY <1>5, <1>6, <1>7

-----------------------------------------------------------------------------
\* The steps of the page.

\* The elements of the document
LEMMA ElemFinite == IsFiniteSet(Elem) /\ IsFiniteSet(Node) /\ Node \subseteq Nat
<1>1. IsFiniteSet(Node) /\ Node \subseteq Nat
  BY DomTreeAssumption, FS_Interval DEF Node
<1>2. IsFiniteSet({Root})
  BY FS_Singleton
<1> QED BY <1>1, <1>2, FS_Union DEF Elem

\* A set whose members come from those of a finite one is finite.
LEMMA ImageFinite ==
  ASSUME NEW S, IsFiniteSet(S), NEW f, NEW T, \A y \in T : \E x \in S : y = f[x]
  PROVE  IsFiniteSet(T)
<1> DEFINE U == {f[x] : x \in S}
           g == [x \in S |-> f[x]]
<1>1. g \in Surjection(S, U)
  BY DEF Surjection
<1> HIDE DEF g
<1>2. IsFiniteSet(U)
  <2> HIDE DEF U
  <2> QED BY <1>1, FS_Surjection
<1>3. T \subseteq U
  OBVIOUS
<1> QED BY <1>2, <1>3, FS_Subset

\* The branches of one event
BranchSet(branches) ==
    /\ IsFiniteSet(branches)
    /\ \A b, c \in branches : b.ref = c.ref => b = c

\* Each branch is told once.
LEMMA InvalidateBranchesIs ==
  ASSUME NEW v, NEW affected, NEW forced, NEW all, IsFiniteSet(all),
         affected \cup forced \subseteq all
  PROVE  BranchSet(InvalidateBranches(v, affected, forced).branches)
<1> DEFINE told == {r \in affected : IsOpen(v, r)} \cup forced
           f == [r \in told |-> [ref |-> r, rev |-> RevisionOf(v, r[1]) + 1]]
           branches == InvalidateBranches(v, affected, forced).branches
<1>1. branches = {[ref |-> r, rev |-> RevisionOf(v, r[1]) + 1] : r \in told}
  BY DEF InvalidateBranches
<1>2. IsFiniteSet(told)
  BY FS_Subset
<1> HIDE DEF told, branches
<1>3. \A y \in branches : \E x \in told : y = f[x]
  BY <1>1
<1>4. \A b, c \in branches : b.ref = c.ref => b = c
  BY <1>1
<1> HIDE DEF f
<1>5. IsFiniteSet(branches)
  BY <1>2, <1>3, ImageFinite
<1> QED BY <1>4, <1>5 DEF BranchSet, branches

\* So it is however the mutations are processed.
LEMMA DrainedIs ==
  ASSUME records \subseteq Record, NEW o
  PROVE  BranchSet(Drained(o).branches)
<1>1. BranchSet({})
  BY FS_EmptySet DEF BranchSet
<1>2. BranchSet(Process(page).branches)
  <2> DEFINE v == page
             targets == {m.target : m \in records}
             removed == {m.node : m \in {x \in records : ~x.added}}
             moved == {n \in removed : n \in v.known /\ Connected(n)}
             w == FoldSet(LAMBDA n, x : PathRecorded(x, n), v, moved)
             gone == (UNION {Subtree(n) : n \in removed \ moved}) \cap w.live
             x1 == [w EXCEPT !.live = @ \ gone, !.known = @ \ gone, !.open = @ \ gone,
                       !.parent = [e \in Elem |-> IF e \in gone THEN None ELSE @[e]],
                       !.gen = [e \in Elem |-> IF e \in gone THEN 0 ELSE @[e]]]
             affected == (UNION {Affected(v, t) : t \in targets})
                             \cup {RefOf(w, up[n]) : n \in moved}
             forced == {RefOf(v, t) : t \in {x \in targets : Forced(v, x)}}
  <2>1. Process(page) = InvalidateBranches(x1, affected, forced)
    BY DEF Process
  <2>2. targets \subseteq Elem /\ moved \subseteq Node
    BY DEF Record
  <2>3. IsFiniteSet(targets) /\ IsFiniteSet(moved)
    <3> HIDE DEF targets, moved
    <3> QED BY <2>2, ElemFinite, FS_Subset
  <2> HIDE DEF targets, moved, x1, w
  <2> DEFINE own == [t \in targets |-> RefOf(v, t)]
             above == [t \in targets |-> v.parent[t]]
             of == [n \in moved |-> RefOf(w, up[n])]
             O == {own[t] : t \in targets}
             A == {above[t] : t \in targets}
             M == {of[n] : n \in moved}
  <2>4. affected \subseteq O \cup A \cup M
    <3>1. ASSUME NEW t \in targets, NEW r \in Affected(v, t)
          PROVE  r \in O \cup A
      <4>1. r = own[t] \/ r = above[t]
        BY DEF Affected
      <4> QED BY <4>1
    <3>2. ASSUME NEW n \in moved
          PROVE  RefOf(w, up[n]) \in M
      <4>1. of[n] = RefOf(w, up[n])
        OBVIOUS
      <4>2. of[n] \in M
        <5> HIDE DEF of
        <5> QED OBVIOUS
      <4> QED BY <4>1, <4>2
    <3> HIDE DEF O, A, M
    <3> QED BY <3>1, <3>2
  <2>5. forced \subseteq O
    OBVIOUS
  <2> HIDE DEF own, above, of, affected, forced
  <2>6. IsFiniteSet(O)
    <3>1. \A y \in O : \E x \in targets : y = own[x]
      OBVIOUS
    <3> HIDE DEF O
    <3> QED BY <2>3, <3>1, ImageFinite
  <2>7. IsFiniteSet(A)
    <3>1. \A y \in A : \E x \in targets : y = above[x]
      OBVIOUS
    <3> HIDE DEF A
    <3> QED BY <2>3, <3>1, ImageFinite
  <2>8. IsFiniteSet(M)
    <3>1. \A y \in M : \E x \in moved : y = of[x]
      OBVIOUS
    <3> HIDE DEF M
    <3> QED BY <2>3, <3>1, ImageFinite
  <2> HIDE DEF O, A, M
  <2> DEFINE all == (O \cup A) \cup M
  <2>9. IsFiniteSet(all) /\ affected \cup forced \subseteq all
    <3>1. IsFiniteSet(O \cup A)
      BY <2>6, <2>7, FS_Union
    <3>2. IsFiniteSet(all)
      BY <2>8, <3>1, FS_Union
    <3> QED BY <2>4, <2>5, <3>2
  <2> HIDE DEF all
  <2> QED BY <2>1, <2>9, InvalidateBranchesIs
<1>3. BranchSet(Recover(page).branches)
  <2> DEFINE refs == {RefOf(page, e) : e \in Elem}
             forced == {RootRef}
             f == [e \in Elem |-> RefOf(page, e)]
             all == refs \cup forced
  <2>1. Recover(page).branches = InvalidateBranches(page, refs, forced).branches
    BY DEF Recover, InvalidateBranches
  <2>2. \A y \in refs : \E x \in Elem : y = f[x]
    OBVIOUS
  <2>3. IsFiniteSet(forced)
    BY FS_Singleton
  <2> HIDE DEF f, refs, forced
  <2>4. IsFiniteSet(refs)
    BY <2>2, ElemFinite, ImageFinite
  <2>5. IsFiniteSet(all) /\ refs \cup forced \subseteq all
    BY <2>3, <2>4, FS_Union
  <2> HIDE DEF all
  <2> QED BY <2>1, <2>5, InvalidateBranchesIs
<1> QED BY <1>1, <1>2, <1>3 DEF Drained

\* The event answers no request.
LEMMA EventIs ==
  ASSUME NEW branches, BranchSet(branches), NEW event \in Events(branches)
  PROVE  /\ RepliesShape(event)
         /\ \A r : Answers(event, {"children", "error"}, r) = {}
         /\ Answers(event, {"root"}, RootRef) = {}
<1>1. CASE branches = {}
  <2>1. event = <<>>
    BY <1>1 DEF Events
  <2> QED BY <2>1, EmptyIs DEF RepliesShape, Answers
<1>2. CASE branches # {}
  <2>1. PICK s \in SetToSeqs(branches) :
            event = <<[kind |-> "invalidated", branches |-> s]>>
    BY <1>2 DEF Events
  <2> DEFINE n == Cardinality(branches)
             m == [kind |-> "invalidated", branches |-> s]
  <2>2. n \in Nat
    BY FS_CardinalityType DEF BranchSet
  <2>3. s \in [1..n -> branches] /\ \A i, j \in 1..n : i # j => s[i] # s[j]
    BY <2>1 DEF SetToSeqs
  <2> HIDE DEF n
  <2>4. IsSeq(s) /\ DOMAIN s = 1..n
    BY <2>2, <2>3, FunctionIsSeq
  <2>5. \A i, j \in DOMAIN s : s[i].ref = s[j].ref => i = j
    BY <2>3, <2>4 DEF BranchSet
  <2>6. Branches(s)
    BY <2>4, <2>5 DEF Branches
  <2>7. m.kind = "invalidated" /\ m.branches = s
    OBVIOUS
  <2> HIDE DEF m
  <2>8. ReplyShape(m)
    BY <2>6, <2>7 DEF ReplyShape
  <2>9. IsSeq(event) /\ Len(event) = 1 /\ event[1] = m
    BY <2>1, SingleIs DEF m
  <2>10. DOMAIN event = 1..1
    BY <2>9, IsSeqFacts
  <2>11. \A k \in DOMAIN event : event[k] = m
    BY <2>9, <2>10
  <2> QED BY <2>7, <2>8, <2>9, <2>11 DEF RepliesShape, Answers, About
<1> QED BY <1>1, <1>2

\* One answer to each request, with views of the element's children and a
\* cursor among them
LEMMA ChildrenReplied ==
  ASSUME up \in [Node -> Elem \cup {None}], NEW v, NEW m
  PROVE  LET a == GetChildren(v, m).reply
         IN  ReplyShape(a) /\ a.kind \in {"children", "error"} /\ a.ref = m.ref
<1> DEFINE e == m.ref[1]
           rest == {n \in Kids(e) : m.after = None \/ n > m.after}
           some == {n \in rest : Cardinality({k \in rest : k < n}) < PageSize}
           w == FoldSet(LAMBDA n, x : Referenced(x, n, m.ref),
                        [v EXCEPT !.open = @ \cup {e}, !.gen[e] = m.at], some)
           views == [n \in some |-> View(w, n)]
           more == IF rest = some THEN None ELSE Max(some)
           wrong == [kind |-> "error", ref |-> m.ref]
           right == [kind |-> "children", ref |-> m.ref, views |-> views, more |-> more]
           a == GetChildren(v, m).reply
<1>1. a = wrong \/ a = right
  BY DEF GetChildren
<1>2. rest \subseteq Node /\ some \subseteq rest
  BY DEF Kids
<1>3. more \in Node \cup {None}
  <2>1. ASSUME rest # some
        PROVE  some # {}
    <3>1. PICK x \in rest : TRUE
      BY <1>2, <2>1
    <3>2. \E l \in rest : \A k \in rest : ~(k < l)
      <4> DEFINE key == [k \in rest |-> N - k]
      <4> HIDE DEF rest
      <4>1. IsFiniteSet(rest) /\ rest \subseteq 1..N /\ N \in Nat
        BY <1>2, ElemFinite, FS_Subset, DomTreeAssumption DEF Node
      <4>2. key \in [rest -> Nat]
        BY <4>1
      <4>3. \A k \in rest : key[k] = N - k
        OBVIOUS
      <4> HIDE DEF key
      <4>4. PICK l \in rest : \A k \in rest : key[k] <= key[l]
        BY <3>1, <4>1, <4>2, LastExists
      <4> QED BY <4>1, <4>3, <4>4
    <3>3. PICK l \in rest : \A k \in rest : ~(k < l)
      BY <3>2
    <3>4. {k \in rest : k < l} = {}
      BY <3>3
    <3>5. Cardinality({k \in rest : k < l}) < PageSize
      BY <3>4, FS_EmptySet, DomTreeAssumption
    <3> QED BY <3>5
  <2>2. ASSUME some # {}
        PROVE  Max(some) \in Node
    <3> HIDE DEF some, rest
    <3> QED BY <1>2, <2>2, ElemFinite, MaxExists
  <2> QED BY <2>1, <2>2
<1>4. Views(views)
  <2>1. DOMAIN views = some /\ \A n \in some : views[n].ref[1] = n
    BY DEF View, RefOf
  <2>2. IsFiniteSet(some) /\ some \subseteq Nat
    <3> HIDE DEF some, rest
    <3> QED BY <1>2, ElemFinite, FS_Subset
  <2> HIDE DEF views
  <2> QED BY <2>1, <2>2 DEF Views
<1> HIDE DEF more, views, a
<1>5. CASE a = wrong
  BY <1>5 DEF ReplyShape, a
<1>6. CASE a = right
  BY <1>3, <1>4, <1>6 DEF ReplyShape, a
<1> QED BY <1>1, <1>5, <1>6

\* An event and perhaps a reply are added.
LEMMA AnswersAdded ==
  ASSUME NEW t, NEW event, NEW reply, IsSeq(t), IsSeq(event), IsSeq(reply),
         NEW kinds, NEW r, Answers(event, kinds, r) = {}
  PROVE  LET u == t \o event \o reply
         IN  /\ Answers(reply, kinds, r) = {} =>
                    AsMany(Answers(t, kinds, r), Answers(u, kinds, r))
             /\ Answers(t, kinds, r) = {} /\ One(Answers(reply, kinds, r)) =>
                    One(Answers(u, kinds, r))
<1> DEFINE x == t \o event
           u == x \o reply
<1>1. IsSeq(x)
  BY ConcatIs
<1>2. AsMany(Answers(t, kinds, r), Answers(x, kinds, r))
  BY AnswersConcat
<1> HIDE DEF x
<1>3. Answers(reply, kinds, r) = {} => AsMany(Answers(x, kinds, r), Answers(u, kinds, r))
  BY <1>1, AnswersConcat
<1>4. Answers(x, kinds, r) = {} => AsMany(Answers(reply, kinds, r), Answers(u, kinds, r))
  BY <1>1, AnswersConcat
<1> HIDE DEF u
<1>5. Answers(reply, kinds, r) = {} => AsMany(Answers(t, kinds, r), Answers(u, kinds, r))
  BY <1>2, <1>3, AsManyOn
<1>6. Answers(t, kinds, r) = {} /\ One(Answers(reply, kinds, r)) => One(Answers(u, kinds, r))
  BY <1>2, <1>4 DEF AsMany
<1> QED BY <1>5, <1>6 DEF u, x

\* A request that was waited for is taken and answered, or neither.
LEMMA ServedOnce ==
  ASSUME NEW A, NEW B, NEW C, NEW D, NEW waiting, Once(A, B, waiting),
         NEW taken,
         taken => A # {} /\ (One(A) => C = {}) /\ (B = {} => One(D)),
         ~taken => AsMany(A, C) /\ AsMany(B, D)
  PROVE  Once(C, D, waiting)
<1>1. CASE taken
  <2>1. One(A) /\ B = {} /\ waiting
    BY <1>1 DEF Once
  <2> QED BY <1>1, <2>1 DEF Once
<1>2. CASE ~taken
  BY <1>2 DEF Once, AsMany
<1> QED BY <1>1, <1>2

\* Drain: an event is no answer.
LEMMA DrainAwaits ==
  ASSUME AwaitedInv, Drain
  PROVE  AwaitedInv'
<1>1. /\ up \in [Node -> Elem \cup {None}] /\ records \subseteq Record
      /\ panel.cut = {} /\ panel.out = <<>>
      /\ RequestsShape(toPage) /\ RepliesShape(toPanel) /\ PanelShape(panel)
      /\ RowsAwait(toPage, toPanel, panel)
      /\ AwaitsRoot(toPage, toPanel, panel)
  BY DEF AwaitedInv, Awaiting
<1>2. PICK o \in Overflow : \E event \in Events(Drained(o).branches) :
                                toPanel' = toPanel \o event
  BY DEF Drain
<1>3. PICK event \in Events(Drained(o).branches) : toPanel' = toPanel \o event
  BY <1>2
<1>4. UNCHANGED <<up, toPage, panel>> /\ records' = {}
  BY DEF Drain
<1>5. BranchSet(Drained(o).branches)
  BY <1>1, DrainedIs
<1> DEFINE branches == Drained(o).branches
           u == toPanel \o event
<1> HIDE DEF branches
<1>6. RepliesShape(event)
  BY <1>3, <1>5, EventIs DEF branches
<1>7. \A r : Answers(event, {"children", "error"}, r) = {}
  BY <1>3, <1>5, EventIs DEF branches
<1>8. Answers(event, {"root"}, RootRef) = {}
  BY <1>3, <1>5, EventIs DEF branches
<1>9. RepliesShape(u)
  BY <1>1, <1>6, RepliesConcatShape
<1>10. IsSeq(toPanel) /\ IsSeq(event)
  BY <1>1, <1>6 DEF RepliesShape
<1>11. ASSUME NEW r
       PROVE  AsMany(Answers(toPanel, {"children", "error"}, r),
                     Answers(u, {"children", "error"}, r))
  <2>1. Answers(event, {"children", "error"}, r) = {}
    BY <1>7
  <2> QED BY <1>10, <2>1, AnswersConcat
<1>12. AsMany(Answers(toPanel, {"root"}, RootRef), Answers(u, {"root"}, RootRef))
  BY <1>8, <1>10, AnswersConcat
<1> HIDE DEF u
<1>13. RowsAwait(toPage, u, panel)
  <2>1. ASSUME NEW r
        PROVE  AwaitsRow(toPage, u, panel, r)
    <3>1. AwaitsRow(toPage, toPanel, panel, r)
      BY <1>1 DEF RowsAwait
    <3>2. AsMany(Answers(toPanel, {"children", "error"}, r),
                 Answers(u, {"children", "error"}, r))
      BY <1>11
    <3> QED BY <3>1, <3>2 DEF AwaitsRow, Once, AsMany
  <2> QED BY <2>1 DEF RowsAwait
<1>14. AwaitsRoot(toPage, u, panel)
  BY <1>1, <1>12 DEF AwaitsRoot, Once, AsMany
<1>15. Awaiting(toPage, u, panel)
  BY <1>1, <1>9, <1>13, <1>14 DEF Awaiting
<1>16. Awaiting(toPage', toPanel', panel')
  BY <1>3, <1>4, <1>15 DEF u
<1> QED BY <1>1, <1>4, <1>16 DEF AwaitedInv

\* Serve: the request goes and its answer comes, unless nobody waits for it.
LEMMA ServeAwaits ==
  ASSUME AwaitedInv, Serve
  PROVE  AwaitedInv'
<1>1. /\ up \in [Node -> Elem \cup {None}] /\ records \subseteq Record
      /\ panel.cut = {} /\ panel.out = <<>>
      /\ RequestsShape(toPage) /\ RepliesShape(toPanel) /\ PanelShape(panel)
      /\ RowsAwait(toPage, toPanel, panel)
      /\ AwaitsRoot(toPage, toPanel, panel)
  BY DEF AwaitedInv, Awaiting
<1> DEFINE m == Head(toPage)
           Answer(o) == IF m.kind = "root" THEN GetRoot(Drained(o).page)
                        ELSE GetChildren(Drained(o).page, m)
           Replied(o) == IF m.live THEN <<Answer(o).reply>> ELSE <<>>
<1>2. PICK o \in Overflow : \E event \in Events(Drained(o).branches) :
                                toPanel' = toPanel \o event \o Replied(o)
  BY DEF Serve
<1>3. PICK event \in Events(Drained(o).branches) :
          toPanel' = toPanel \o event \o Replied(o)
  BY <1>2
<1>4. /\ toPage # <<>> /\ toPage' = Tail(toPage) /\ records' = {}
      /\ UNCHANGED <<up, panel>>
  BY DEF Serve
<1> DEFINE branches == Drained(o).branches
           a == Answer(o).reply
           reply == Replied(o)
           s == Tail(toPage)
           u == toPanel \o event \o reply
<1>5. RequestShape(m) /\ RequestsShape(s) /\ IsSeq(toPage)
  <2>1. RequestShape(Head(toPage)) /\ RequestsShape(Tail(toPage))
    BY <1>1, <1>4, TailShapes
  <2> QED BY <1>1, <2>1 DEF RequestsShape
<1>6. m.kind \in {"root", "children"}
  BY <1>5 DEF RequestShape
<1>7. /\ ReplyShape(a)
      /\ m.kind = "root" => a.kind = "root"
      /\ m.kind = "children" => a.kind \in {"children", "error"} /\ a.ref = m.ref
  <2>1. CASE m.kind = "root"
    <3>1. a.kind = "root"
      BY <2>1 DEF GetRoot
    <3> HIDE DEF a
    <3> QED BY <2>1, <3>1 DEF ReplyShape
  <2>2. CASE m.kind = "children"
    <3> DEFINE v == Drained(o).page
               b == GetChildren(v, m).reply
    <3>1. a = b
      BY <2>2
    <3>2. ReplyShape(b) /\ b.kind \in {"children", "error"} /\ b.ref = m.ref
      <4> HIDE DEF v, m
      <4> QED BY <1>1, ChildrenReplied
    <3> HIDE DEF a, b
    <3> QED BY <2>2, <3>1, <3>2
  <2> QED BY <1>6, <2>1, <2>2
<1>8. reply = IF m.live THEN <<a>> ELSE <<>>
  OBVIOUS
<1>9. toPanel' = u
  BY <1>3
<1>10. BranchSet(branches) /\ event \in Events(branches)
  BY <1>1, <1>3, DrainedIs
<1> HIDE DEF branches, a, reply, Answer, Replied
<1>11. RepliesShape(event)
  BY <1>10, EventIs
<1>12. \A r : Answers(event, {"children", "error"}, r) = {}
  BY <1>10, EventIs
<1>13. Answers(event, {"root"}, RootRef) = {}
  BY <1>10, EventIs
<1>14. /\ IsSeq(reply)
       /\ m.live => DOMAIN reply = 1..1 /\ reply[1] = a
       /\ ~m.live => DOMAIN reply = {}
  <2>1. CASE m.live
    <3>1. IsSeq(reply) /\ Len(reply) = 1 /\ reply[1] = a
      BY <1>8, <2>1, SingleIs
    <3> QED BY <2>1, <3>1, IsSeqFacts
  <2>2. CASE ~m.live
    BY <1>8, <2>2, EmptyIs
  <2> QED BY <2>1, <2>2
<1>15. RepliesShape(reply)
  BY <1>7, <1>14 DEF RepliesShape
<1>16. RepliesShape(u)
  BY <1>1, <1>11, <1>15, RepliesConcatShape
<1>17. ASSUME NEW kinds, NEW r
       PROVE  /\ m.live /\ About(a, kinds, r) => One(Answers(reply, kinds, r))
              /\ ~(m.live /\ About(a, kinds, r)) => Answers(reply, kinds, r) = {}
  <2>1. CASE m.live /\ About(a, kinds, r)
    <3>1. Answers(reply, kinds, r) = {1}
      BY <1>14, <2>1 DEF Answers
    <3> QED BY <2>1, <3>1 DEF One
  <2>2. CASE ~(m.live /\ About(a, kinds, r))
    BY <1>14, <2>2 DEF Answers
  <2> QED BY <2>1, <2>2
<1>18. IsSeq(toPanel) /\ IsSeq(event)
  BY <1>1, <1>11 DEF RepliesShape
<1> HIDE DEF u
\* Of either kind
<1>19. ASSUME NEW asked, NEW kinds, NEW r, NEW waiting,
              Answers(event, kinds, r) = {},
              About(a, kinds, r) <=> About(m, asked, r),
              Once(Requests(toPage, asked, r), Answers(toPanel, kinds, r), waiting)
       PROVE  Once(Requests(s, asked, r), Answers(u, kinds, r), waiting)
  <2> DEFINE taken == m.live /\ About(m, asked, r)
             A == Requests(toPage, asked, r)
             B == Answers(toPanel, kinds, r)
             C == Requests(s, asked, r)
             D == Answers(u, kinds, r)
             R == Answers(reply, kinds, r)
  <2>1. /\ ~taken => AsMany(A, C)
        /\ taken => A # {}
        /\ taken /\ One(A) => C = {}
    BY <1>4, <1>5, RequestsTail
  <2>2. R = {} => AsMany(B, D)
    BY <1>14, <1>18, <1>19, AnswersAdded DEF u
  <2>3. B = {} /\ One(R) => One(D)
    BY <1>14, <1>18, <1>19, AnswersAdded DEF u
  <2>4. (taken => One(R)) /\ (~taken => R = {})
    BY <1>17, <1>19
  <2>5. Once(A, B, waiting)
    BY <1>19
  <2> HIDE DEF taken, A, B, C, D, R
  <2>6. taken => A # {} /\ (One(A) => C = {}) /\ (B = {} => One(D))
    BY <2>1, <2>3, <2>4
  <2>7. ~taken => AsMany(A, C) /\ AsMany(B, D)
    BY <2>1, <2>2, <2>4
  <2>8. Once(C, D, waiting)
    BY <2>5, <2>6, <2>7, ServedOnce
  <2> QED BY <2>8 DEF C, D
<1>20. RowsAwait(s, u, panel)
  <2>1. ASSUME NEW r
        PROVE  AwaitsRow(s, u, panel, r)
    <3>1. AwaitsRow(toPage, toPanel, panel, r)
      BY <1>1 DEF RowsAwait
    <3>2. About(a, {"children", "error"}, r) <=> About(m, {"children"}, r)
      BY <1>6, <1>7 DEF About
    <3>3. Answers(event, {"children", "error"}, r) = {}
      BY <1>12
    <3>4. Once(Requests(s, {"children"}, r), Answers(u, {"children", "error"}, r),
               Loads(panel, r))
      BY <1>19, <3>1, <3>2, <3>3 DEF AwaitsRow
    <3>5. Fits(s, r, panel.rows[r].at, panel.rows[r].pending.after)
      BY <1>4, <1>5, <3>1, FitsTail DEF AwaitsRow
    <3> QED BY <3>4, <3>5 DEF AwaitsRow
  <2> QED BY <2>1 DEF RowsAwait
<1>21. AwaitsRoot(s, u, panel)
  <2>1. About(a, {"root"}, RootRef) <=> About(m, {"root"}, RootRef)
    BY <1>6, <1>7 DEF About
  <2> QED BY <1>1, <1>13, <1>19, <2>1 DEF AwaitsRoot
<1>22. Awaiting(s, u, panel)
  BY <1>1, <1>5, <1>16, <1>20, <1>21 DEF Awaiting
<1>23. Awaiting(toPage', toPanel', panel')
  BY <1>4, <1>9, <1>22
<1> QED BY <1>1, <1>4, <1>23 DEF AwaitedInv

\* Mutate: the document is not the panel's.
LEMMA MutateAwaits ==
  ASSUME AwaitedInv, Mutate
  PROVE  AwaitedInv'
<1>1. PICK n \in Node, p \in Elem \cup {None} :
          /\ up' = [up EXCEPT ![n] = p]
          /\ records' = records
                 \cup (IF up[n] = None THEN {}
                       ELSE {[target |-> up[n], node |-> n, added |-> FALSE]})
                 \cup (IF p = None THEN {}
                       ELSE {[target |-> p, node |-> n, added |-> TRUE]})
  BY DEF Mutate
<1>2. UNCHANGED <<toPage, toPanel, panel>>
  BY DEF Mutate
<1>3. up' \in [Node -> Elem \cup {None}]
  BY <1>1 DEF AwaitedInv
<1>4. up[n] = None \/ up[n] \in Elem
  BY DEF AwaitedInv
<1>5. records' \subseteq Record
  <2>1. /\ records \subseteq Record
        /\ TRUE \in BOOLEAN /\ FALSE \in BOOLEAN
    BY DEF AwaitedInv
  <2>2. \A e \in Elem, added \in BOOLEAN :
            [target |-> e, node |-> n, added |-> added] \in Record
    BY DEF Record
  <2>3. up[n] # None => [target |-> up[n], node |-> n, added |-> FALSE] \in Record
    BY <1>4, <2>1, <2>2
  <2>4. p # None => [target |-> p, node |-> n, added |-> TRUE] \in Record
    BY <2>1, <2>2
  <2> QED BY <1>1, <2>1, <2>3, <2>4
<1>6. Awaiting(toPage', toPanel', panel') /\ panel'.cut = {} /\ panel'.out = <<>>
  BY <1>2 DEF AwaitedInv
<1> QED BY <1>3, <1>5, <1>6 DEF AwaitedInv

\* Nothing is loading, and nothing under way.
LEMMA InitAwaits ==
  ASSUME Init
  PROVE  AwaitedInv
<1> DEFINE row == NewRow(View(page, Root), None)
           rows == [r \in {RootRef} |-> row]
<1>1. /\ up \in Start /\ records = {} /\ toPage = <<>> /\ toPanel = <<>>
      /\ panel = [ rootRev |-> 1,
                   asking |-> FALSE, required |-> 0, waiters |-> 0,
                   rows |-> rows,
                   expanded |-> {}, held |-> <<>>, cut |-> {}, out |-> <<>> ]
  BY DEF Init
<1>2. up \in [Node -> Elem \cup {None}]
  BY <1>1, DomTreeAssumption
<1>3. RowShape(row) /\ row.pending = None
  <2>1. Refs({})
    BY FS_EmptySet DEF Refs
  <2> QED BY <2>1 DEF RowShape, NewRow
<1> HIDE DEF row
<1>4. /\ panel.rows = rows /\ panel.cut = {} /\ panel.out = <<>>
      /\ panel.asking = FALSE /\ panel.rootRev = 1 /\ panel.required = 0
      /\ panel.waiters = 0 /\ panel.expanded = {} /\ panel.held = <<>>
  <2> DEFINE x == [ rootRev |-> 1,
                    asking |-> FALSE, required |-> 0, waiters |-> 0,
                    rows |-> rows,
                    expanded |-> {}, held |-> <<>>, cut |-> {}, out |-> <<>> ]
  <2>1. panel = x
    BY <1>1
  <2> HIDE DEF rows
  <2>2. /\ x.rows = rows /\ x.cut = {} /\ x.out = <<>>
        /\ x.rootRev = 1 /\ x.required = 0
        /\ x.waiters = 0 /\ x.expanded = {} /\ x.held = <<>>
    OBVIOUS
  <2>3. x.asking = FALSE
    OBVIOUS
  <2> HIDE DEF x
  <2> QED BY <2>1, <2>2, <2>3
<1>5. DOMAIN rows = {RootRef} /\ \A r \in DOMAIN rows : rows[r] = row
  OBVIOUS
<1>6. rows = [r \in DOMAIN rows |-> rows[r]]
  OBVIOUS
<1> HIDE DEF rows
<1>7. PanelShape(panel)
  <2>1. panel \in [rootRev : {1}, asking : BOOLEAN, required : {0}, waiters : {0},
                   rows : {rows}, expanded : {{}}, held : {<<>>}, cut : {{}},
                   out : {<<>>}]
    BY <1>1
  <2> QED BY <1>3, <1>4, <1>5, <1>6, <2>1 DEF PanelShape
<1>8. RequestsShape(toPage) /\ RepliesShape(toPanel)
  BY <1>1, EmptyIs DEF RequestsShape, RepliesShape
<1>9. \A kinds, r : Requests(toPage, kinds, r) = {} /\ Answers(toPanel, kinds, r) = {}
  BY <1>1, EmptyIs DEF Requests, Answers
<1>10. \A r : ~Loads(panel, r)
  BY <1>3, <1>4, <1>5 DEF Loads
<1>11. RowsAwait(toPage, toPanel, panel)
  BY <1>9, <1>10 DEF RowsAwait, AwaitsRow, Once, Fits
<1>12. AwaitsRoot(toPage, toPanel, panel)
  BY <1>4, <1>9 DEF AwaitsRoot, Once
<1>13. Awaiting(toPage, toPanel, panel)
  BY <1>7, <1>8, <1>11, <1>12 DEF Awaiting
<1> QED BY <1>1, <1>2, <1>4, <1>13 DEF AwaitedInv

-----------------------------------------------------------------------------
\* The theorem.

\* The invariant says what AwaitedOnce does.
LEMMA AwaitedOnceFollows ==
  ASSUME AwaitedInv
  PROVE  AwaitedOnce
<1> DEFINE asked == [k \in {i \in DOMAIN toPage : toPage[i].live} |-> toPage[k]]
           about(m, kinds, r) ==
               m.kind \in kinds /\ (m.kind = "root" \/ m.ref = r)
           requests(kind, r) == {k \in DOMAIN asked : about(asked[k], {kind}, r)}
           answers(kinds, r) == {k \in DOMAIN toPanel : about(toPanel[k], kinds, r)}
           awaited(kind, kinds, r) ==
               Cardinality(requests(kind, r)) + Cardinality(answers(kinds, r))
<1>1. /\ RequestsShape(toPage) /\ RepliesShape(toPanel)
      /\ RowsAwait(toPage, toPanel, panel)
      /\ AwaitsRoot(toPage, toPanel, panel)
  BY DEF AwaitedInv, Awaiting
<1>2. ASSUME NEW kind, NEW r
      PROVE  requests(kind, r) = Requests(toPage, {kind}, r)
  BY DEF Requests, About
<1>3. ASSUME NEW kinds, NEW r
      PROVE  answers(kinds, r) = Answers(toPanel, kinds, r)
  BY DEF Answers, About
<1>4. \A k \in DOMAIN asked : asked[k] = toPage[k] /\ k \in DOMAIN toPage /\ toPage[k].live
  OBVIOUS
<1>5. ASSUME NEW kinds, NEW r
      PROVE  IsFiniteSet(Requests(toPage, kinds, r)) /\ IsFiniteSet(Answers(toPanel, kinds, r))
  <2>1. /\ DOMAIN toPage = 1..Len(toPage) /\ Len(toPage) \in Nat
        /\ DOMAIN toPanel = 1..Len(toPanel) /\ Len(toPanel) \in Nat
    BY <1>1, IsSeqFacts DEF RequestsShape, RepliesShape
  <2>2. IsFiniteSet(DOMAIN toPage) /\ IsFiniteSet(DOMAIN toPanel)
    BY <2>1, FS_Interval
  <2>3. Requests(toPage, kinds, r) \subseteq DOMAIN toPage
        /\ Answers(toPanel, kinds, r) \subseteq DOMAIN toPanel
    BY DEF Requests, Answers
  <2> QED BY <2>2, <2>3, FS_Subset
<1>6. ASSUME NEW kind, NEW kinds, NEW r, NEW waiting,
             Once(Requests(toPage, {kind}, r), Answers(toPanel, kinds, r), waiting)
      PROVE  awaited(kind, kinds, r) = IF waiting THEN 1 ELSE 0
  <2> DEFINE A == Requests(toPage, {kind}, r)
             B == Answers(toPanel, kinds, r)
  <2>1. awaited(kind, kinds, r) = Cardinality(A) + Cardinality(B)
    BY <1>2, <1>3
  <2>2. IsFiniteSet(A) /\ IsFiniteSet(B)
    BY <1>5
  <2>3. Once(A, B, waiting)
    BY <1>6
  <2> HIDE DEF A, B, awaited
  <2>4. /\ A = {} /\ B = {} => Cardinality(A) + Cardinality(B) = 0
        /\ (One(A) /\ B = {}) \/ (A = {} /\ One(B)) => Cardinality(A) + Cardinality(B) = 1
    BY <2>2, CardinalityOne
  <2> QED BY <2>1, <2>3, <2>4 DEF Once
<1> HIDE DEF awaited, answers
<1>7. ASSUME NEW r \in DOMAIN panel.rows
      PROVE  /\ awaited("children", {"children", "error"}, r) =
                    IF panel.rows[r].pending = None THEN 0 ELSE 1
             /\ \A k \in requests("children", r) :
                    /\ asked[k].at = panel.rows[r].at
                    /\ asked[k].after = panel.rows[r].pending.after
  <2>1. AwaitsRow(toPage, toPanel, panel, r)
    BY <1>1 DEF RowsAwait
  <2>2. Loads(panel, r) <=> panel.rows[r].pending # None
    BY DEF Loads
  <2>3. awaited("children", {"children", "error"}, r) = IF Loads(panel, r) THEN 1 ELSE 0
    BY <1>6, <2>1 DEF AwaitsRow
  <2>4. ASSUME NEW k \in requests("children", r)
        PROVE  /\ asked[k].at = panel.rows[r].at
               /\ asked[k].after = panel.rows[r].pending.after
    <3>1. k \in Requests(toPage, {"children"}, r) /\ k \in DOMAIN asked
      BY <1>2
    <3>2. asked[k] = toPage[k]
      BY <1>4, <3>1
    <3> HIDE DEF asked
    <3> QED BY <2>1, <3>1, <3>2 DEF AwaitsRow, Fits
  <2> QED BY <2>2, <2>3, <2>4
<1>8. awaited("root", {"root"}, RootRef) = IF panel.asking THEN 1 ELSE 0
  BY <1>1, <1>6 DEF AwaitsRoot
<1>9. ASSUME NEW k \in DOMAIN asked, asked[k].kind = "children"
      PROVE  asked[k].ref \in DOMAIN panel.rows
  <2> DEFINE r == asked[k].ref
  <2>1. k \in Requests(toPage, {"children"}, r)
    BY <1>4, <1>9 DEF Requests, About
  <2> HIDE DEF r
  <2>2. AwaitsRow(toPage, toPanel, panel, r)
    BY <1>1 DEF RowsAwait
  <2>3. Loads(panel, r)
    BY <2>1, <2>2 DEF AwaitsRow, Once
  <2> QED BY <2>3 DEF Loads, r
<1> QED BY <1>7, <1>8, <1>9 DEF AwaitedOnce, awaited, answers

\* A step of the page, the panel or the user
LEMMA StepAwaits ==
  ASSUME AwaitedInv, [Next]_vars
  PROVE  AwaitedInv'
<1>1. CASE Mutate
  BY <1>1, MutateAwaits
<1>2. CASE Drain
  BY <1>2, DrainAwaits
<1>3. CASE Serve
  BY <1>3, ServeAwaits
<1>4. CASE Receive
  BY <1>4, ReceiveAwaits
<1>5. CASE TimesOut
  BY <1>5, TimesOutAwaits
<1>6. CASE RootTimesOut
  BY <1>6, RootTimesOutAwaits
<1>7. CASE Expand \/ Collapse \/ LoadMore
  BY <1>7, UserAwaits
<1>8. CASE UNCHANGED vars
  BY <1>8 DEF vars, AwaitedInv
<1> QED BY <1>1, <1>2, <1>3, <1>4, <1>5, <1>6, <1>7, <1>8 DEF Next

\* At every moment a branch that is loading awaits exactly one answer, to a
\* request made at the revision and after the node it is at now, and so does
\* the root; no request is under way for a row that is gone.  This is what
\* DomTreeController and the transport keep together: a request that is
\* settled, timed out or overtaken leaves no answer behind that another
\* request could take for its own.
THEOREM LoadsAwaitedOnce == Spec => []AwaitedOnce
<1>1. Init => AwaitedInv
  BY InitAwaits
<1>2. AwaitedInv /\ [Next]_vars => AwaitedInv'
  BY StepAwaits
<1>3. AwaitedInv => AwaitedOnce
  BY AwaitedOnceFollows
<1> QED BY <1>1, <1>2, <1>3, PTL DEF Spec

=============================================================================
