------------------------------ MODULE GuidedProofs ------------------------------
(* Theorems about the guided draft (GuidedDraft): its rows and forms, for   *)
(* every number of product lines, prestations and remises it may hold.      *)
EXTENDS GuidedDraft, FiniteSetTheorems, SequenceTheorems, TLAPS

-------------------------------------------------------------------------------
(* The inductive invariant                                                 *)

Screens == {"choice", "voice", "review", "customer", "lines", "preview"}

Prestations == [id : Ids, spread : BOOLEAN, weights : 0..MaxDraftLines]
Shapes == [lines : Seq(Ids), services : Seq(Prestations), remises : Seq(Ids \cup {None})]
DraftShape(d) ==
  /\ d \in Shapes
  /\ Len(d.lines) <= MaxDraftLines /\ Len(d.services) <= MaxServices
  /\ Len(d.remises) <= MaxRemises

\* Every weight of a form is there, whether the API will read it or not.
AllWeighted(f) == \A i \in DOMAIN f.services : f.services[i].weights = Len(f.lines)
Targeted(d) == \A i \in DOMAIN d.remises : d.remises[i] \in IdsOf(d) \cup {None}

(* While the lines step is up its form is the draft, but for the weights    *)
(* it padded and nobody changed since; on any other screen there is none.   *)
FormOfDraft ==
  /\ form.lines = draft.lines /\ form.remises = draft.remises
  /\ DOMAIN form.services = DOMAIN draft.services
  /\ \A i \in DOMAIN form.services : form.services[i].id = draft.services[i].id
  /\ AllWeighted(form)
FormInv == IF OnLines THEN FormOfDraft ELSE form = EmptyDraft

\* What is under review was dictated: no split, no remise.
ReviewInv ==
  screen = "review" =>
    draft.remises = <<>> /\ \A i \in DOMAIN draft.services : ~draft.services[i].spread

GuidedShape ==
  /\ screen \in Screens /\ DraftShape(draft) /\ DraftShape(form)
  /\ leaving \subseteq IdsOf(form)
  /\ flags \in Seq(Ids \cup {None}) /\ Len(flags) <= MaxDraftLines
  /\ devisLoad \in BOOLEAN /\ orphaned \in BOOLEAN
  /\ devisLoad => screen \in Steps

(* Every screen keeps it: what makes DraftStaysAligned inductive.          *)
GuidedInv == GuidedShape /\ FormInv /\ ReviewInv /\ DraftStaysAligned

-------------------------------------------------------------------------------
(* Sequences and sets                                                      *)

(* What RemoveAt leaves of a sequence.                                     *)
LEMMA RemoveAtShifts ==
  ASSUME NEW S, NEW s \in Seq(S), NEW i \in 1..Len(s)
  PROVE  /\ RemoveAt(s, i) \in Seq(S) /\ Len(RemoveAt(s, i)) = Len(s) - 1
         /\ \A k \in 1..(Len(s) - 1) : RemoveAt(s, i)[k] = IF k < i THEN s[k] ELSE s[k + 1]
<1> DEFINE front == SubSeq(s, 1, i - 1)
           back == SubSeq(s, i + 1, Len(s))
<1>1. Len(s) \in Nat /\ \A k \in 1..Len(s) : s[k] \in S
  BY LenProperties, ElementOfSeq
<1>2. front \in Seq(S) /\ Len(front) = i - 1 /\ \A k \in 1..(i - 1) : front[k] = s[k]
  BY <1>1, SubSeqProperties
<1>3. /\ back \in Seq(S) /\ Len(back) = Len(s) - i
      /\ \A k \in 1..(Len(s) - i) : back[k] = s[k + i]
  BY <1>1, SubSeqProperties
<1>4. RemoveAt(s, i) = front \o back
  BY DEF RemoveAt
<1>5. /\ front \o back \in Seq(S) /\ Len(front \o back) = Len(front) + Len(back)
      /\ \A k \in 1..(Len(front) + Len(back)) :
           (front \o back)[k] = IF k <= Len(front) THEN front[k] ELSE back[k - Len(front)]
  BY <1>2, <1>3, ConcatProperties
<1> HIDE DEF front, back
<1>6. Len(front) + Len(back) = Len(s) - 1
  BY <1>1, <1>2, <1>3
<1>7. ASSUME NEW k \in 1..(Len(s) - 1)
      PROVE  (front \o back)[k] = IF k < i THEN s[k] ELSE s[k + 1]
  <2>1. (front \o back)[k] = IF k < i THEN front[k] ELSE back[k - (i - 1)]
    BY <1>1, <1>2, <1>5, <1>6
  <2>2. k < i => front[k] = s[k]
    BY <1>1, <1>2
  <2>3. ~(k < i) => back[k - (i - 1)] = s[k + 1]
    <3>1. ~(k < i) => k - (i - 1) \in 1..(Len(s) - i) /\ (k - (i - 1)) + i = k + 1
      BY <1>1
    <3> QED
      BY <3>1, <1>3
  <2> QED
    BY <2>1, <2>2, <2>3
<1> QED
  BY <1>4, <1>5, <1>6, <1>7

(* Cutting at a place where x is, or nowhere, leaves everything but x.      *)
LEMMA CutAtKeeps ==
  ASSUME NEW S, NEW s \in Seq(S), NEW found \in SUBSET DOMAIN s
  PROVE  /\ CutAt(s, found) \in Seq(S) /\ Len(CutAt(s, found)) <= Len(s)
         /\ \A k \in DOMAIN s : k \in found \/ \E j \in DOMAIN CutAt(s, found) : CutAt(s, found)[j] = s[k]
<1>1. CASE found = {}
  BY <1>1, LenProperties DEF CutAt
<1>2. CASE found # {}
  <2> DEFINE i == CHOOSE i \in found : TRUE
             t == RemoveAt(s, i)
  <2>1. i \in 1..Len(s) /\ i \in found /\ CutAt(s, found) = t /\ DOMAIN s = 1..Len(s) /\ Len(s) \in Nat
    BY <1>2, LenProperties DEF CutAt
  <2> HIDE DEF i
  <2>2. /\ t \in Seq(S) /\ Len(t) = Len(s) - 1 /\ DOMAIN t = 1..Len(t)
        /\ \A k \in 1..(Len(s) - 1) : t[k] = IF k < i THEN s[k] ELSE s[k + 1]
    BY <2>1, RemoveAtShifts, LenProperties
  <2> HIDE DEF t
  <2>3. ASSUME NEW k \in DOMAIN s, k \notin found
        PROVE  \E j \in DOMAIN t : t[j] = s[k]
    <3>1. CASE k < i
      BY <3>1, <2>1, <2>2
    <3>2. CASE k > i
      <4>1. k - 1 \in DOMAIN t /\ t[k - 1] = s[k]
        BY <3>2, <2>1, <2>2
      <4> QED
        BY <4>1
    <3> QED
      BY <3>1, <3>2, <2>1, <2>3
  <2> QED
    BY <2>1, <2>2, <2>3
<1> QED
  BY <1>1, <1>2

(* The values of a sequence are no more than its places.                   *)
LEMMA ValuesAreBounded ==
  ASSUME NEW n \in Nat, NEW f, NEW T, T = {f[k] : k \in 1..n}
  PROVE  IsFiniteSet(T) /\ Cardinality(T) <= n
<1> DEFINE g == [k \in 1..n |-> f[k]]
<1>1. g \in Surjection(1..n, T)
  BY DEF Surjection
<1>2. IsFiniteSet(1..n) /\ Cardinality(1..n) = n
  BY FS_Interval
<1> QED
  BY <1>1, <1>2, FS_Surjection

LEMMA UnionIsBounded ==
  ASSUME NEW A, NEW B, IsFiniteSet(A), IsFiniteSet(B)
  PROVE  /\ IsFiniteSet(A \cup B)
         /\ Cardinality(A \cup B) <= Cardinality(A) + Cardinality(B)
<1>1. IsFiniteSet(A \cap B)
  BY FS_Subset
<1>2. /\ IsFiniteSet(A \cup B)
      /\ Cardinality(A \cup B) = Cardinality(A) + Cardinality(B) - Cardinality(A \cap B)
  BY FS_Union
<1>3. Cardinality(A) \in Nat /\ Cardinality(B) \in Nat /\ Cardinality(A \cap B) \in Nat
  BY <1>1, FS_CardinalityType
<1> QED
  BY <1>2, <1>3

-------------------------------------------------------------------------------
(* The ids                                                                 *)

LEMMA BoundsAreNat ==
  /\ MaxDraftLines \in Nat /\ MaxServices \in Nat /\ MaxRemises \in Nat
  /\ Ids = 1..(MaxDraftLines + MaxServices + MaxRemises)
  /\ Ids \subseteq Nat /\ None \notin Ids
BY GuidedBounds DEF Ids, None

(* While fewer ids are in use than the screen can hold, there is a new one. *)
LEMMA FreshId ==
  ASSUME NEW used, IsFiniteSet(used),
         Cardinality(used) < MaxDraftLines + MaxServices + MaxRemises
  PROVE  IdsBeside(used, 1) \in [1..1 -> Ids]
<1> DEFINE N == MaxDraftLines + MaxServices + MaxRemises
<1>1. N \in Nat /\ Ids = 1..N
  BY BoundsAreNat
<1>2. IsFiniteSet(Ids) /\ Cardinality(Ids) = N
  BY <1>1, FS_Interval
<1>3. PICK x \in Ids : x \notin used
  <2>1. SUFFICES ASSUME Ids \subseteq used PROVE FALSE
    OBVIOUS
  <2>2. Cardinality(Ids) <= Cardinality(used)
    BY <2>1, FS_Subset
  <2> QED
    BY <2>2, <1>1, <1>2, FS_CardinalityType
<1>4. [k \in 1..1 |-> x] \in [1..1 -> Ids \ used]
  BY <1>3
<1>5. \A s \in [1..1 -> Ids \ used] : \A i, j \in 1..1 : i < j => s[i] < s[j]
  OBVIOUS
<1>6. IdsBeside(used, 1) \in [1..1 -> Ids \ used]
  BY <1>4, <1>5 DEF IdsBeside
<1> QED
  BY <1>6

(* A draft that is replaced has all the ids it needs.                      *)
LEMMA AllIds ==
  ASSUME NEW n \in Nat, n <= MaxDraftLines + MaxServices + MaxRemises
  PROVE  IdsBeside({}, n) \in [1..n -> Ids]
<1> DEFINE s == [k \in 1..n |-> k]
<1>1. s \in [1..n -> Ids \ {}]
  BY BoundsAreNat
<1>2. \A i, j \in 1..n : i < j => s[i] < s[j]
  OBVIOUS
<1>3. IdsBeside({}, n) \in [1..n -> Ids \ {}]
  BY <1>1, <1>2 DEF IdsBeside
<1> QED
  BY <1>3

-------------------------------------------------------------------------------
(* The edits of the lines step                                             *)

(* The store gets the arrays that changed, and keeps the others.           *)
LEMMA ChangeWrites ==
  ASSUME draft \in Shapes, form \in Shapes, NEW f \in Shapes, Change(f)
  PROVE  /\ form' = f /\ draft' \in Shapes
         /\ draft'.lines = IF f.lines # form.lines THEN f.lines ELSE draft.lines
         /\ draft'.services = IF f.services # form.services THEN f.services ELSE draft.services
         /\ draft'.remises = IF f.remises # form.remises THEN f.remises ELSE draft.remises
<1>1. DOMAIN draft = {"lines", "services", "remises"}
  BY DEF Shapes
<1>2. draft' = [a \in {"lines", "services", "remises"} |-> IF f[a] # form[a] THEN f[a] ELSE draft[a]]
  BY <1>1 DEF Change
<1>3. /\ draft'.lines = IF f.lines # form.lines THEN f.lines ELSE draft.lines
      /\ draft'.services = IF f.services # form.services THEN f.services ELSE draft.services
      /\ draft'.remises = IF f.remises # form.remises THEN f.remises ELSE draft.remises
  BY <1>2
<1>4. draft' = [lines |-> draft'.lines, services |-> draft'.services, remises |-> draft'.remises]
  BY <1>2
<1>5. draft' \in Shapes
  BY <1>3, <1>4 DEF Shapes
<1> QED
  BY <1>3, <1>5 DEF Change

(* A form that may replace the one on the screen.                          *)
GoodForm(f) ==
  /\ DraftShape(f) /\ AllWeighted(f)
  /\ ~orphaned => Targeted(f)

(* Every edit of the lines step that leaves such a form keeps the invariant *)
LEMMA EditKeeps ==
  ASSUME GuidedInv, OnLines, NEW f, GoodForm(f), Change(f), leaving' \subseteq IdsOf(f),
         UNCHANGED <<screen, flags, devisLoad, orphaned>>
  PROVE  GuidedInv'
<1> USE DEF GuidedInv, GuidedShape, GoodForm
<1>1. draft \in Shapes /\ form \in Shapes /\ f \in Shapes
  BY DEF DraftShape, Shapes
<1>2. FormOfDraft
  BY DEF FormInv
<1>3. form' = f /\ draft' \in Shapes
  BY <1>1, ChangeWrites
<1>4. draft'.lines = f.lines /\ draft'.remises = f.remises
  BY <1>1, <1>2, ChangeWrites DEF FormOfDraft
<1>5. CASE f.services # form.services
  <2>1. draft'.services = f.services
    BY <1>1, <1>5, ChangeWrites
  <2>2. DraftShape(draft)'
    BY <1>3, <1>4, <2>1 DEF DraftShape, Shapes
  <2>3. IdsOf(draft') = IdsOf(f)
    BY <1>4, <2>1 DEF IdsOf, ServiceIds
  <2>4. FormInv'
    BY <1>3, <1>4, <2>1 DEF FormInv, FormOfDraft, OnLines, AllWeighted
  <2>5. WeightsMatchLines'
    BY <1>4, <2>1 DEF WeightsMatchLines, AllWeighted
  <2>6. TargetsArePresent'
    BY <1>4, <2>3 DEF TargetsArePresent, Targeted
  <2> QED
    BY <1>3, <2>2, <2>4, <2>5, <2>6
    DEF DraftShape, ReviewInv, DraftStaysAligned, FlagsFollowLines, OnLines
<1>6. CASE f.services = form.services
  <2>1. draft'.services = draft.services
    BY <1>1, <1>6, ChangeWrites
  <2>2. DraftShape(draft)'
    BY <1>3, <1>4, <2>1 DEF DraftShape, Shapes
  <2>3. /\ DOMAIN f.services = DOMAIN draft.services
        /\ \A i \in DOMAIN f.services : f.services[i].id = draft.services[i].id
    BY <1>2, <1>6 DEF FormOfDraft
  <2>4. IdsOf(draft') = IdsOf(f)
    BY <1>4, <2>1, <2>3 DEF IdsOf, ServiceIds
  <2>5. FormInv'
    BY <1>3, <1>4, <2>1, <2>3 DEF FormInv, FormOfDraft, OnLines, AllWeighted
  <2>6. WeightsMatchLines'
    <3>1. SUFFICES ASSUME NEW i \in DOMAIN draft.services, draft.services[i].spread
                   PROVE  draft.services[i].weights = Len(f.lines)
      BY <1>4, <2>1 DEF WeightsMatchLines
    <3>2. draft.services[i].weights = Len(draft.lines)
      BY <3>1 DEF DraftStaysAligned, WeightsMatchLines
    <3>3. form.services[i].weights = Len(form.lines) /\ f.services[i].weights = Len(f.lines)
      BY <1>2, <1>6, <2>3 DEF FormOfDraft, AllWeighted
    <3> QED
      BY <1>2, <1>6, <3>2, <3>3 DEF FormOfDraft
  <2>7. TargetsArePresent'
    BY <1>4, <2>4 DEF TargetsArePresent, Targeted
  <2> QED
    BY <1>3, <2>2, <2>5, <2>6, <2>7
    DEF DraftShape, ReviewInv, DraftStaysAligned, FlagsFollowLines, OnLines
<1> QED
  BY <1>5, <1>6

LEMMA FunctionIsSeq ==
  ASSUME NEW S, NEW n \in Nat, NEW f \in [1..n -> S]
  PROVE  f \in Seq(S) /\ Len(f) = n /\ DOMAIN f = 1..n
OBVIOUS

LEMMA SyncedWeighs ==
  ASSUME NEW f \in Shapes, Len(f.lines) <= MaxDraftLines
  PROVE  /\ Synced(f) \in Shapes /\ AllWeighted(Synced(f))
         /\ Synced(f).lines = f.lines /\ Synced(f).remises = f.remises
         /\ Len(Synced(f).services) = Len(f.services) /\ DOMAIN Synced(f).services = DOMAIN f.services
         /\ \A i \in DOMAIN f.services : /\ Synced(f).services[i].id = f.services[i].id
                                         /\ Synced(f).services[i].spread = f.services[i].spread
<1> DEFINE w == [i \in DOMAIN f.services |-> [f.services[i] EXCEPT !.weights = Len(f.lines)]]
<1>1. Synced(f) = [f EXCEPT !.services = w]
  BY DEF Synced
<1>2. Len(f.lines) \in 0..MaxDraftLines
  BY LenProperties, BoundsAreNat DEF Shapes
<1>3. DOMAIN f.services = 1..Len(f.services) /\ Len(f.services) \in Nat
  BY LenProperties DEF Shapes
<1>4. \A i \in DOMAIN f.services : f.services[i] \in Prestations
  BY <1>3, ElementOfSeq DEF Shapes
<1>5. \A i \in DOMAIN f.services :
        /\ w[i] \in Prestations /\ w[i].weights = Len(f.lines)
        /\ w[i].id = f.services[i].id /\ w[i].spread = f.services[i].spread
  BY <1>2, <1>4 DEF Prestations
<1>6. w \in Seq(Prestations) /\ Len(w) = Len(f.services) /\ DOMAIN w = DOMAIN f.services
  <2>1. w \in [1..Len(f.services) -> Prestations]
    BY <1>3, <1>5
  <2> QED
    BY <2>1, <1>3, FunctionIsSeq
<1> HIDE DEF w
<1>7. /\ Synced(f).lines = f.lines /\ Synced(f).remises = f.remises /\ Synced(f).services = w
      /\ Synced(f) \in Shapes
  BY <1>1, <1>6 DEF Shapes
<1> QED
  BY <1>5, <1>6, <1>7 DEF AllWeighted

(* On the lines step the ids in use are those the form holds.              *)
LEMMA IdsInUse ==
  ASSUME GuidedInv, OnLines
  PROVE  /\ IsFiniteSet(InUse)
         /\ Cardinality(InUse) <= Len(form.lines) + Len(form.services) + Len(form.remises)
<1> DEFINE A == ToSet(form.lines)
           B == ServiceIds(form)
           C == ToSet(form.remises)
<1>1. /\ form \in Shapes /\ leaving \subseteq IdsOf(form) /\ FormOfDraft
  BY DEF GuidedInv, GuidedShape, DraftShape, Shapes, FormInv
<1>2. /\ DOMAIN form.lines = 1..Len(form.lines) /\ Len(form.lines) \in Nat
      /\ DOMAIN form.services = 1..Len(form.services) /\ Len(form.services) \in Nat
      /\ DOMAIN form.remises = 1..Len(form.remises) /\ Len(form.remises) \in Nat
  BY <1>1, LenProperties DEF Shapes
<1>3. InUse = A \cup B \cup C
  <2>1. ServiceIds(draft) = ServiceIds(form)
    BY <1>1 DEF ServiceIds, FormOfDraft
  <2> QED
    BY <1>1, <2>1 DEF InUse, IdsOf, FormOfDraft
<1>4. IsFiniteSet(A) /\ Cardinality(A) <= Len(form.lines)
  BY <1>2, ValuesAreBounded DEF ToSet
<1>5. IsFiniteSet(B) /\ Cardinality(B) <= Len(form.services)
  <2> DEFINE g == [k \in DOMAIN form.services |-> form.services[k].id]
  <2>1. B = {g[k] : k \in 1..Len(form.services)}
    BY <1>2 DEF ServiceIds
  <2> QED
    BY <1>2, <2>1, ValuesAreBounded
<1>6. IsFiniteSet(C) /\ Cardinality(C) <= Len(form.remises)
  BY <1>2, ValuesAreBounded DEF ToSet
<1> HIDE DEF A, B, C
<1>7. IsFiniteSet(A \cup B) /\ Cardinality(A \cup B) <= Cardinality(A) + Cardinality(B)
  BY <1>4, <1>5, UnionIsBounded
<1>8. /\ IsFiniteSet((A \cup B) \cup C)
      /\ Cardinality((A \cup B) \cup C) <= Cardinality(A \cup B) + Cardinality(C)
  BY <1>6, <1>7, UnionIsBounded
<1>9. /\ Cardinality(A) \in Nat /\ Cardinality(B) \in Nat /\ Cardinality(C) \in Nat
      /\ Cardinality(A \cup B) \in Nat /\ Cardinality((A \cup B) \cup C) \in Nat
  BY <1>4, <1>5, <1>6, <1>7, <1>8, FS_CardinalityType
<1>10. Cardinality((A \cup B) \cup C) <= Len(form.lines) + Len(form.services) + Len(form.remises)
  <2> DEFINE a == Cardinality(A)
             b == Cardinality(B)
             c == Cardinality(C)
             ab == Cardinality(A \cup B)
             abc == Cardinality((A \cup B) \cup C)
             l == Len(form.lines)
             s == Len(form.services)
             r == Len(form.remises)
  <2>1. /\ a \in Nat /\ b \in Nat /\ c \in Nat /\ ab \in Nat /\ abc \in Nat
        /\ l \in Nat /\ s \in Nat /\ r \in Nat
        /\ a <= l /\ b <= s /\ c <= r /\ ab <= a + b /\ abc <= ab + c
    BY <1>2, <1>4, <1>5, <1>6, <1>7, <1>8, <1>9
  <2> HIDE DEF a, b, c, ab, abc, l, s, r
  <2>2. abc <= l + s + r
    BY <2>1
  <2> QED
    BY <2>2 DEF abc, l, s, r
<1> QED
  BY <1>3, <1>8, <1>10

(* What a lines step that is up starts an edit from.                       *)
LEMMA FormIsGood ==
  ASSUME GuidedInv, OnLines
  PROVE  GoodForm(form) /\ form \in Shapes /\ leaving \subseteq IdsOf(form)
<1>1. DraftShape(form) /\ FormOfDraft /\ TargetsArePresent /\ leaving \subseteq IdsOf(form)
  BY DEF GuidedInv, GuidedShape, FormInv, DraftStaysAligned
<1>2. IdsOf(draft) = IdsOf(form)
  BY <1>1 DEF IdsOf, ServiceIds, FormOfDraft
<1>3. ~orphaned => Targeted(form)
  BY <1>1, <1>2 DEF TargetsArePresent, Targeted, FormOfDraft
<1> QED
  BY <1>1, <1>3 DEF GoodForm, FormOfDraft, DraftShape, Shapes

LEMMA AddLineKeeps ==
  ASSUME GuidedInv, AddLine
  PROVE  GuidedInv'
<1> DEFINE lines == form.lines \o NewIds
           g == [form EXCEPT !.lines = lines]
           f == Synced(g)
<1>1. /\ OnLines /\ GoodForm(form) /\ form \in Shapes /\ leaving \subseteq IdsOf(form)
      /\ Len(form.lines) < MaxDraftLines /\ Change(f)
      /\ UNCHANGED <<screen, leaving, flags, devisLoad, orphaned>>
  BY FormIsGood DEF AddLine
<1>2. /\ Len(form.lines) \in Nat /\ Len(form.services) \in Nat /\ Len(form.remises) \in Nat
      /\ Len(form.services) <= MaxServices /\ Len(form.remises) <= MaxRemises
  BY <1>1, LenProperties DEF Shapes, GoodForm, DraftShape
<1>3. NewIds \in [1..1 -> Ids]
  <2>1. /\ IsFiniteSet(InUse) /\ Cardinality(InUse) \in Nat
        /\ Cardinality(InUse) <= Len(form.lines) + Len(form.services) + Len(form.remises)
    BY <1>1, IdsInUse, FS_CardinalityType
  <2>2. Cardinality(InUse) < MaxDraftLines + MaxServices + MaxRemises
    <3> DEFINE used == Cardinality(InUse)
               l == Len(form.lines)
               s == Len(form.services)
               r == Len(form.remises)
    <3>1. /\ used \in Nat /\ l \in Nat /\ s \in Nat /\ r \in Nat /\ used <= l + s + r
      BY <1>2, <2>1
    <3>2. l < MaxDraftLines /\ s <= MaxServices /\ r <= MaxRemises
      BY <1>1, <1>2
    <3> HIDE DEF used, l, s, r
    <3>3. used < MaxDraftLines + MaxServices + MaxRemises
      BY <3>1, <3>2, BoundsAreNat
    <3> QED
      BY <3>3 DEF used
  <2> QED
    BY <2>1, <2>2, FreshId DEF NewIds
<1>4. NewIds \in Seq(Ids) /\ Len(NewIds) = 1
  BY <1>3, FunctionIsSeq
<1>5. /\ lines \in Seq(Ids) /\ Len(lines) = Len(form.lines) + 1
      /\ \A k \in 1..Len(form.lines) : lines[k] = form.lines[k]
  <2>1. form.lines \in Seq(Ids)
    BY <1>1 DEF Shapes
  <2>2. /\ lines \in Seq(Ids) /\ Len(lines) = Len(form.lines) + Len(NewIds)
        /\ \A k \in 1..(Len(form.lines) + Len(NewIds)) :
             lines[k] = IF k <= Len(form.lines) THEN form.lines[k] ELSE NewIds[k - Len(form.lines)]
    BY <1>4, <2>1, ConcatProperties
  <2> HIDE DEF lines
  <2> QED
    BY <1>2, <1>4, <2>2
<1> HIDE DEF lines
<1>6. /\ g \in Shapes /\ g.lines = lines /\ g.services = form.services /\ g.remises = form.remises
      /\ Len(g.lines) <= MaxDraftLines
  <2>1. form \in Shapes /\ lines \in Seq(Ids) /\ Len(lines) <= MaxDraftLines
    <3> HIDE DEF f
    <3> QED
      BY <1>1, <1>2, <1>5, BoundsAreNat
  <2> QED
    BY <2>1 DEF Shapes
<1> HIDE DEF g
<1>7. /\ f \in Shapes /\ AllWeighted(f) /\ f.lines = lines /\ f.remises = form.remises
      /\ Len(f.services) = Len(form.services) /\ DOMAIN f.services = DOMAIN form.services
      /\ \A i \in DOMAIN form.services : f.services[i].id = form.services[i].id
  BY <1>6, SyncedWeighs
<1> HIDE DEF f
<1>8. ToSet(form.lines) \subseteq ToSet(f.lines)
  <2>1. DOMAIN form.lines = 1..Len(form.lines) /\ DOMAIN lines = 1..(Len(form.lines) + 1)
    BY <1>1, <1>5, LenProperties DEF Shapes
  <2> QED
    BY <1>2, <1>5, <1>7, <2>1 DEF ToSet
<1>9. IdsOf(form) \subseteq IdsOf(f)
  BY <1>7, <1>8 DEF IdsOf, ServiceIds
<1>10. GoodForm(f)
  BY <1>1, <1>2, <1>5, <1>6, <1>7, <1>9 DEF GoodForm, DraftShape, Shapes, Targeted
<1> QED
  BY <1>1, <1>9, <1>10, EditKeeps

LEMMA AddServiceKeeps ==
  ASSUME GuidedInv, NEW spread \in BOOLEAN, AddService(spread)
  PROVE  GuidedInv'
<1> DEFINE new == Service(NewIds[1], spread, Len(form.lines))
           services == Append(form.services, new)
           f == [form EXCEPT !.services = services]
<1>1. /\ OnLines /\ GoodForm(form) /\ form \in Shapes /\ leaving \subseteq IdsOf(form)
      /\ Len(form.services) < MaxServices /\ Change(f)
      /\ UNCHANGED <<screen, leaving, flags, devisLoad, orphaned>>
  BY FormIsGood DEF AddService
<1>2. /\ Len(form.lines) \in Nat /\ Len(form.services) \in Nat /\ Len(form.remises) \in Nat
      /\ Len(form.lines) <= MaxDraftLines /\ Len(form.remises) <= MaxRemises
  BY <1>1, LenProperties DEF Shapes, GoodForm, DraftShape
<1>3. NewIds \in [1..1 -> Ids]
  <2>1. /\ IsFiniteSet(InUse) /\ Cardinality(InUse) \in Nat
        /\ Cardinality(InUse) <= Len(form.lines) + Len(form.services) + Len(form.remises)
    BY <1>1, IdsInUse, FS_CardinalityType
  <2>2. Cardinality(InUse) < MaxDraftLines + MaxServices + MaxRemises
    <3> DEFINE used == Cardinality(InUse)
               l == Len(form.lines)
               s == Len(form.services)
               r == Len(form.remises)
    <3>1. /\ used \in Nat /\ l \in Nat /\ s \in Nat /\ r \in Nat /\ used <= l + s + r
      BY <1>2, <2>1
    <3>2. l <= MaxDraftLines /\ s < MaxServices /\ r <= MaxRemises
      BY <1>1, <1>2
    <3> HIDE DEF used, l, s, r
    <3>3. used < MaxDraftLines + MaxServices + MaxRemises
      BY <3>1, <3>2, BoundsAreNat
    <3> QED
      BY <3>3 DEF used
  <2> QED
    BY <2>1, <2>2, FreshId DEF NewIds
<1>4. new \in Prestations /\ new.weights = Len(form.lines)
  BY <1>2, <1>3, BoundsAreNat DEF Service, Prestations
<1> HIDE DEF new
<1>5. /\ services \in Seq(Prestations) /\ Len(services) = Len(form.services) + 1
      /\ DOMAIN services = 1..Len(services)
      /\ \A k \in 1..Len(form.services) : services[k] = form.services[k]
      /\ services[Len(form.services) + 1] = new
  BY <1>1, <1>4, AppendProperties, LenProperties DEF Shapes
<1> HIDE DEF services
<1>6. /\ f \in Shapes /\ f.lines = form.lines /\ f.services = services /\ f.remises = form.remises
  BY <1>1, <1>5 DEF Shapes
<1> HIDE DEF f
<1>7. DOMAIN form.services = 1..Len(form.services)
  BY <1>1, LenProperties DEF Shapes
<1>8. IdsOf(form) \subseteq IdsOf(f)
  <2>1. \A k \in DOMAIN form.services : k \in DOMAIN f.services /\ f.services[k] = form.services[k]
    BY <1>2, <1>5, <1>6, <1>7
  <2> QED
    BY <1>6, <2>1 DEF IdsOf, ServiceIds
<1>9. AllWeighted(f)
  <2>1. SUFFICES ASSUME NEW i \in 1..Len(services)
                 PROVE  services[i].weights = Len(form.lines)
    BY <1>5, <1>6 DEF AllWeighted
  <2>2. CASE i = Len(form.services) + 1
    BY <2>2, <1>4, <1>5
  <2>3. CASE i \in 1..Len(form.services)
    BY <2>3, <1>1, <1>5, <1>7 DEF GoodForm, AllWeighted
  <2> QED
    BY <1>2, <1>5, <2>1, <2>2, <2>3
<1>10. GoodForm(f)
  BY <1>1, <1>2, <1>5, <1>6, <1>8, <1>9, BoundsAreNat DEF GoodForm, DraftShape, Shapes, Targeted
<1> QED
  BY <1>1, <1>8, <1>10, EditKeeps

LEMMA ToggleServiceKeeps ==
  ASSUME GuidedInv, NEW i, ToggleService(i)
  PROVE  GuidedInv'
<1> DEFINE s == form.services
           t == [s EXCEPT ![i].spread = ~@]
           f == [form EXCEPT !.services[i].spread = ~@]
<1>1. /\ OnLines /\ GoodForm(form) /\ form \in Shapes /\ leaving \subseteq IdsOf(form)
      /\ i \in DOMAIN s /\ Change(f)
      /\ UNCHANGED <<screen, leaving, flags, devisLoad, orphaned>>
  BY FormIsGood DEF ToggleService
<1>2. s \in Seq(Prestations) /\ DOMAIN s = 1..Len(s) /\ Len(s) \in Nat
  BY <1>1, LenProperties DEF Shapes
<1>3. \A k \in DOMAIN s : s[k] \in Prestations
  BY <1>2, ElementOfSeq
<1>4. /\ DOMAIN t = DOMAIN s
      /\ \A k \in DOMAIN s : t[k] \in Prestations /\ t[k].id = s[k].id /\ t[k].weights = s[k].weights
  BY <1>1, <1>3 DEF Prestations
<1>5. t \in Seq(Prestations) /\ Len(t) = Len(s)
  <2>1. t \in [1..Len(s) -> Prestations]
    BY <1>2, <1>4
  <2> QED
    BY <2>1, <1>2, FunctionIsSeq
<1>6. f = [form EXCEPT !.services = t]
  BY <1>1 DEF Shapes
<1> HIDE DEF t
<1>7. f \in Shapes /\ f.lines = form.lines /\ f.services = t /\ f.remises = form.remises
  BY <1>1, <1>5, <1>6 DEF Shapes
<1> HIDE DEF f
<1>8. IdsOf(f) = IdsOf(form)
  BY <1>4, <1>7 DEF IdsOf, ServiceIds
<1>9. GoodForm(f)
  BY <1>1, <1>4, <1>5, <1>7, <1>8 DEF GoodForm, DraftShape, Shapes, AllWeighted, Targeted
<1> QED
  BY <1>1, <1>8, <1>9, EditKeeps

(* An edit of the remises alone: each still has a target of the form.      *)
LEMMA RemisesKeep ==
  ASSUME GuidedInv, OnLines, NEW r \in Seq(Ids \cup {None}), Len(r) <= MaxRemises,
         ~orphaned => \A k \in DOMAIN r : r[k] \in IdsOf(form) \cup {None},
         Change([form EXCEPT !.remises = r]),
         UNCHANGED <<screen, leaving, flags, devisLoad, orphaned>>
  PROVE  GuidedInv'
<1> DEFINE f == [form EXCEPT !.remises = r]
<1>1. GoodForm(form) /\ form \in Shapes /\ leaving \subseteq IdsOf(form)
  BY FormIsGood
<1>2. f \in Shapes /\ f.lines = form.lines /\ f.services = form.services /\ f.remises = r
  BY <1>1 DEF Shapes
<1>3. Change(f)
  OBVIOUS
<1> HIDE DEF f
<1>4. IdsOf(f) = IdsOf(form)
  BY <1>2 DEF IdsOf, ServiceIds
<1>5. GoodForm(f)
  BY <1>1, <1>2, <1>4 DEF GoodForm, DraftShape, Shapes, AllWeighted, Targeted
<1> QED
  BY <1>1, <1>3, <1>4, <1>5, EditKeeps

LEMMA AddRemiseKeeps ==
  ASSUME GuidedInv, AddRemise
  PROVE  GuidedInv'
<1> DEFINE r == Append(form.remises, None)
<1>1. /\ OnLines /\ GoodForm(form) /\ form.remises \in Seq(Ids \cup {None})
      /\ Len(form.remises) < MaxRemises /\ Change([form EXCEPT !.remises = r])
      /\ UNCHANGED <<screen, leaving, flags, devisLoad, orphaned>>
  BY FormIsGood DEF AddRemise, Shapes
<1>2. /\ r \in Seq(Ids \cup {None}) /\ Len(r) = Len(form.remises) + 1
      /\ Len(form.remises) \in Nat
      /\ DOMAIN r = 1..Len(r) /\ DOMAIN form.remises = 1..Len(form.remises)
      /\ \A k \in 1..Len(form.remises) : r[k] = form.remises[k]
      /\ r[Len(form.remises) + 1] = None
  BY <1>1, AppendProperties, LenProperties
<1>3. ~orphaned => \A k \in DOMAIN r : r[k] \in IdsOf(form) \cup {None}
  <2> HIDE DEF r
  <2> QED
    BY <1>1, <1>2 DEF GoodForm, Targeted
<1>4. Len(r) <= MaxRemises
  <2> HIDE DEF r
  <2> QED
    BY <1>1, <1>2, BoundsAreNat
<1> QED
  BY <1>1, <1>2, <1>3, <1>4, RemisesKeep

LEMMA PickTargetKeeps ==
  ASSUME GuidedInv, NEW i, NEW target \in Ids \cup {None}, PickTarget(i, target)
  PROVE  GuidedInv'
<1> DEFINE r == [form.remises EXCEPT ![i] = target]
<1>1. /\ OnLines /\ GoodForm(form) /\ form \in Shapes
      /\ i \in DOMAIN form.remises /\ target \in IdsOf(form) \cup {None}
      /\ Change([form EXCEPT !.remises[i] = target])
      /\ UNCHANGED <<screen, leaving, flags, devisLoad, orphaned>>
  BY FormIsGood DEF PickTarget
<1>2. [form EXCEPT !.remises[i] = target] = [form EXCEPT !.remises = r]
  BY <1>1 DEF Shapes
<1>3. form.remises \in Seq(Ids \cup {None}) /\ Len(form.remises) <= MaxRemises
  BY <1>1 DEF Shapes, GoodForm, DraftShape
<1>4. r \in Seq(Ids \cup {None}) /\ Len(r) = Len(form.remises) /\ DOMAIN r = DOMAIN form.remises
  BY <1>1, <1>3, ExceptSeq, LenProperties
<1>5. ~orphaned => \A k \in DOMAIN r : r[k] \in IdsOf(form) \cup {None}
  BY <1>1, <1>4 DEF GoodForm, Targeted
<1> QED
  BY <1>1, <1>2, <1>3, <1>4, <1>5, RemisesKeep

LEMMA RemoveRemiseKeeps ==
  ASSUME GuidedInv, NEW i, RemoveRemise(i)
  PROVE  GuidedInv'
<1> DEFINE r == RemoveAt(form.remises, i)
<1>1. /\ OnLines /\ GoodForm(form) /\ form.remises \in Seq(Ids \cup {None})
      /\ i \in DOMAIN form.remises /\ Change([form EXCEPT !.remises = r])
      /\ UNCHANGED <<screen, leaving, flags, devisLoad, orphaned>>
  BY FormIsGood DEF RemoveRemise, Shapes
<1>2. /\ DOMAIN form.remises = 1..Len(form.remises) /\ Len(form.remises) \in Nat
      /\ Len(form.remises) <= MaxRemises
  BY <1>1, LenProperties DEF GoodForm, DraftShape
<1>3. /\ r \in Seq(Ids \cup {None}) /\ Len(r) = Len(form.remises) - 1
      /\ \A k \in 1..(Len(form.remises) - 1) :
           r[k] = IF k < i THEN form.remises[k] ELSE form.remises[k + 1]
  BY <1>1, <1>2, RemoveAtShifts
<1> HIDE DEF r
<1>4. DOMAIN r = 1..(Len(form.remises) - 1)
  BY <1>3, LenProperties
<1>5. ~orphaned => \A k \in DOMAIN r : r[k] \in IdsOf(form) \cup {None}
  <2>1. SUFFICES ASSUME ~orphaned, NEW k \in 1..(Len(form.remises) - 1)
                 PROVE  r[k] \in IdsOf(form) \cup {None}
    BY <1>4
  <2>2. k \in DOMAIN form.remises /\ k + 1 \in DOMAIN form.remises
    BY <1>2
  <2> QED
    BY <1>1, <1>3, <2>1, <2>2 DEF GoodForm, Targeted
<1>6. Len(r) <= MaxRemises
  BY <1>2, <1>3, BoundsAreNat
<1> QED
  BY <1>1, <1>3, <1>5, <1>6, RemisesKeep DEF r

LEMMA StartRemovalKeeps ==
  ASSUME GuidedInv, NEW id, StartRemoval(id)
  PROVE  GuidedInv'
BY DEF GuidedInv, GuidedShape, StartRemoval, FormInv, FormOfDraft, OnLines, AllWeighted,
       ReviewInv, DraftStaysAligned, WeightsMatchLines, TargetsArePresent, FlagsFollowLines,
       DraftShape, IdsOf, ServiceIds

(* The card is out of the form, with its weight and the remises that        *)
(* designated it; every other card is still there.                          *)
LEMMA EndRemovalKeeps ==
  ASSUME GuidedInv, NEW id, EndRemoval(id)
  PROVE  GuidedInv'
<1> DEFINE lines == CutAt(form.lines, {i \in DOMAIN form.lines : form.lines[i] = id})
           services == CutAt(form.services, {i \in DOMAIN form.services : form.services[i].id = id})
           g == [form EXCEPT !.lines = lines, !.services = services]
           h == Synced(g)
           r == [i \in DOMAIN h.remises |-> IF h.remises[i] = id THEN None ELSE h.remises[i]]
           f == [h EXCEPT !.remises = r]
<1>1. /\ OnLines /\ GoodForm(form) /\ form \in Shapes /\ leaving \subseteq IdsOf(form)
      /\ id \in leaving /\ leaving' = leaving \ {id}
      /\ UNCHANGED <<screen, flags, devisLoad, orphaned>>
  BY FormIsGood DEF EndRemoval
<1>2. Change(f)
  BY <1>1 DEF EndRemoval, ClearTargets, Without, Shapes
<1>3. /\ lines \in Seq(Ids) /\ Len(lines) <= Len(form.lines)
      /\ \A x \in ToSet(form.lines) : x = id \/ x \in ToSet(lines)
  <2> DEFINE found == {i \in DOMAIN form.lines : form.lines[i] = id}
  <2>1. form.lines \in Seq(Ids) /\ found \in SUBSET DOMAIN form.lines
    BY <1>1 DEF Shapes
  <2>2. /\ lines \in Seq(Ids) /\ Len(lines) <= Len(form.lines)
        /\ \A k \in DOMAIN form.lines :
             k \in found \/ \E j \in DOMAIN lines : lines[j] = form.lines[k]
    BY <2>1, CutAtKeeps
  <2> HIDE DEF lines
  <2> QED
    BY <2>2 DEF ToSet
<1>4. /\ services \in Seq(Prestations) /\ Len(services) <= Len(form.services)
      /\ \A x \in ServiceIds(form) : x = id \/ \E j \in DOMAIN services : services[j].id = x
  <2> DEFINE found == {i \in DOMAIN form.services : form.services[i].id = id}
  <2>1. form.services \in Seq(Prestations) /\ found \in SUBSET DOMAIN form.services
    BY <1>1 DEF Shapes
  <2>2. /\ services \in Seq(Prestations) /\ Len(services) <= Len(form.services)
        /\ \A k \in DOMAIN form.services :
             k \in found \/ \E j \in DOMAIN services : services[j] = form.services[k]
    BY <2>1, CutAtKeeps
  <2> HIDE DEF services
  <2> QED
    BY <2>2 DEF ServiceIds
<1>5. /\ Len(form.lines) <= MaxDraftLines /\ Len(form.services) <= MaxServices
      /\ Len(form.lines) \in Nat /\ Len(form.services) \in Nat
      /\ Len(lines) \in Nat /\ Len(services) \in Nat
  BY <1>1, <1>3, <1>4, LenProperties DEF Shapes, GoodForm, DraftShape
<1>6. Len(lines) <= MaxDraftLines /\ Len(services) <= MaxServices
  <2> HIDE DEF lines, services
  <2> QED
    BY <1>3, <1>4, <1>5, BoundsAreNat
<1> HIDE DEF lines, services
<1>7. g \in Shapes /\ g.lines = lines /\ g.services = services /\ g.remises = form.remises
  BY <1>1, <1>3, <1>4 DEF Shapes
<1> HIDE DEF g
<1>8. /\ h \in Shapes /\ AllWeighted(h) /\ h.lines = lines /\ h.remises = form.remises
      /\ Len(h.services) = Len(services) /\ DOMAIN h.services = DOMAIN services
      /\ \A i \in DOMAIN services : h.services[i].id = services[i].id
  BY <1>6, <1>7, SyncedWeighs
<1> HIDE DEF h
<1>9. /\ form.remises \in Seq(Ids \cup {None}) /\ Len(form.remises) <= MaxRemises
      /\ DOMAIN form.remises = 1..Len(form.remises) /\ Len(form.remises) \in Nat
      /\ \A i \in DOMAIN form.remises : form.remises[i] \in Ids \cup {None}
  BY <1>1, LenProperties, ElementOfSeq DEF Shapes, GoodForm, DraftShape
<1>10. /\ r \in Seq(Ids \cup {None}) /\ Len(r) = Len(form.remises) /\ DOMAIN r = DOMAIN form.remises
       /\ \A i \in DOMAIN r : r[i] = None \/ (r[i] = form.remises[i] /\ r[i] # id)
  <2>1. r \in [1..Len(form.remises) -> Ids \cup {None}]
    BY <1>8, <1>9
  <2>2. \A i \in DOMAIN form.remises : r[i] = None \/ (r[i] = form.remises[i] /\ r[i] # id)
    BY <1>8
  <2> HIDE DEF r
  <2> QED
    BY <1>9, <2>1, <2>2, FunctionIsSeq
<1> HIDE DEF r
<1>11. f \in Shapes /\ f.lines = lines /\ f.services = h.services /\ f.remises = r
  BY <1>8, <1>10 DEF Shapes
<1> HIDE DEF f
<1>12. IdsOf(form) \ {id} \subseteq IdsOf(f)
  <2>1. ToSet(form.lines) \ {id} \subseteq ToSet(f.lines)
    BY <1>3, <1>11
  <2>2. ServiceIds(form) \ {id} \subseteq ServiceIds(f)
    BY <1>4, <1>8, <1>11 DEF ServiceIds
  <2> QED
    BY <2>1, <2>2 DEF IdsOf
<1>13. ~orphaned => Targeted(f)
  BY <1>1, <1>10, <1>11, <1>12 DEF GoodForm, Targeted
<1>14. GoodForm(f)
  BY <1>6, <1>8, <1>9, <1>10, <1>11, <1>13 DEF GoodForm, DraftShape, Shapes, AllWeighted
<1> QED
  BY <1>1, <1>2, <1>12, <1>14, EditKeeps

-------------------------------------------------------------------------------
(* The other screens                                                       *)

LEMMA EmptyIsShaped == DraftShape(EmptyDraft) /\ IdsOf(EmptyDraft) = {}
<1>1. /\ EmptyDraft.lines = <<>> /\ EmptyDraft.services = <<>> /\ EmptyDraft.remises = <<>>
      /\ EmptyDraft \in [lines : {<<>>}, services : {<<>>}, remises : {<<>>}]
  BY DEF EmptyDraft
<1>2. /\ <<>> \in Seq(Ids) /\ <<>> \in Seq(Prestations) /\ <<>> \in Seq(Ids \cup {None})
      /\ Len(<<>>) = 0 /\ DOMAIN <<>> = {}
  BY EmptySeq
<1>3. EmptyDraft \in [lines : Seq(Ids), services : Seq(Prestations), remises : Seq(Ids \cup {None})]
  BY <1>2 DEF EmptyDraft
<1> QED
  BY <1>1, <1>2, <1>3, BoundsAreNat DEF DraftShape, Shapes, IdsOf, ServiceIds, ToSet

(* A step that opens on a draft that is aligned.                           *)
LEMMA ShowKeeps ==
  ASSUME NEW step \in Screens, NEW d, NEW loading \in BOOLEAN, DraftShape(d), Show(step, d, loading),
         draft' = d, orphaned' \in BOOLEAN,
         flags' \in Seq(Ids \cup {None}), Len(flags') <= MaxDraftLines,
         step = "review" => d.remises = <<>> /\ \A i \in DOMAIN d.services : ~d.services[i].spread,
         DraftStaysAligned'
  PROVE  GuidedInv'
<1>1. d \in Shapes /\ Len(d.lines) <= MaxDraftLines
  BY DEF DraftShape, Shapes
<1>2. /\ Synced(d) \in Shapes /\ AllWeighted(Synced(d))
      /\ Synced(d).lines = d.lines /\ Synced(d).remises = d.remises
      /\ Len(Synced(d).services) = Len(d.services) /\ DOMAIN Synced(d).services = DOMAIN d.services
      /\ \A i \in DOMAIN d.services : Synced(d).services[i].id = d.services[i].id
  BY <1>1, SyncedWeighs
<1>3. DraftShape(Synced(d))
  BY <1>2 DEF DraftShape, Shapes
<1>4. screen' = step /\ leaving' = {} /\ devisLoad' = (loading /\ step \in Steps)
  BY DEF Show
<1>5. DraftShape(form') /\ FormInv'
  <2>1. CASE step = "lines" /\ ~loading
    <3>1. form' = Synced(d)
      BY <2>1 DEF Show
    <3> QED
      BY <2>1, <3>1, <1>2, <1>3, <1>4 DEF FormInv, FormOfDraft, OnLines, AllWeighted
  <2>2. CASE ~(step = "lines" /\ ~loading)
    <3>1. form' = EmptyDraft
      BY <2>2 DEF Show
    <3>2. ~OnLines'
      BY <2>2, <1>4 DEF OnLines, Steps
    <3> QED
      BY <3>1, <3>2, EmptyIsShaped DEF FormInv
  <2> QED
    BY <2>1, <2>2
<1>6. GuidedShape'
  BY <1>4, <1>5 DEF GuidedShape, DraftShape
<1>7. ReviewInv'
  BY <1>4 DEF ReviewInv
<1> QED
  BY <1>5, <1>6, <1>7 DEF GuidedInv

(* A draft that is not replaced stays aligned on a screen that is no review *)
LEMMA SameDraftAligned ==
  ASSUME DraftStaysAligned, UNCHANGED <<draft, orphaned>>, screen' # "review"
  PROVE  DraftStaysAligned'
BY DEF DraftStaysAligned, WeightsMatchLines, TargetsArePresent, FlagsFollowLines

LEMMA GoToKeeps ==
  ASSUME GuidedInv, NEW step \in Steps \cup {"choice"}, GoTo(step)
  PROVE  GuidedInv'
<1>1. /\ Show(step, draft, devisLoad) /\ UNCHANGED <<draft, flags, orphaned>>
      /\ step \in Screens /\ step # "review" /\ screen' = step
  BY DEF GoTo, Steps, Screens, Show
<1>2. DraftStaysAligned'
  BY <1>1, SameDraftAligned DEF GuidedInv
<1> QED
  BY <1>1, <1>2, ShowKeeps DEF GuidedInv, GuidedShape

LEMMA GoToPreviewKeeps ==
  ASSUME GuidedInv, GoToPreview
  PROVE  GuidedInv'
<1>1. /\ OnLines /\ draft' = form /\ Show("preview", form, FALSE) /\ UNCHANGED <<flags, orphaned>>
      /\ screen' = "preview" /\ GoodForm(form)
  BY FormIsGood DEF GoToPreview, Show
<1>2. DraftStaysAligned'
  BY <1>1 DEF GoodForm, DraftStaysAligned, WeightsMatchLines, TargetsArePresent, FlagsFollowLines,
              AllWeighted, Targeted
<1> QED
  BY <1>1, <1>2, ShowKeeps DEF GuidedInv, GuidedShape, Screens, GoodForm

LEMMA ResetKeeps ==
  ASSUME GuidedInv, NEW step \in {"choice", "customer", "voice"}, Reset(step)
  PROVE  GuidedInv'
<1>1. /\ Show(step, EmptyDraft, devisLoad) /\ draft' = EmptyDraft /\ orphaned' = FALSE
      /\ flags' = flags /\ screen' = step /\ step \in Screens /\ step # "review"
  BY DEF Reset, Show, Screens
<1>2. DraftStaysAligned'
  BY <1>1 DEF EmptyDraft, DraftStaysAligned, WeightsMatchLines, TargetsArePresent, FlagsFollowLines
<1> QED
  BY <1>1, <1>2, EmptyIsShaped, ShowKeeps DEF GuidedInv, GuidedShape

LEMMA ChangeCustomerKeeps ==
  ASSUME GuidedInv, ChangeCustomer
  PROVE  GuidedInv'
<1>1. /\ screen = "customer" /\ UNCHANGED <<screen, form, leaving, flags, devisLoad>>
      /\ draft' = [draft EXCEPT !.lines = <<>>, !.services = <<>>]
      /\ orphaned' = (orphaned \/ draft.remises # <<>>)
  BY DEF ChangeCustomer
<1>2. draft \in Shapes /\ Len(draft.remises) <= MaxRemises
  BY DEF GuidedInv, GuidedShape, DraftShape, Shapes
<1>3. <<>> \in Seq(Ids) /\ <<>> \in Seq(Prestations) /\ Len(<<>>) = 0 /\ DOMAIN <<>> = {}
  BY EmptySeq
<1>4. /\ draft' \in Shapes /\ draft'.lines = <<>> /\ draft'.services = <<>>
      /\ draft'.remises = draft.remises
  BY <1>1, <1>2, <1>3 DEF Shapes
<1>5. DraftShape(draft')
  BY <1>2, <1>3, <1>4, BoundsAreNat DEF DraftShape, Shapes
<1>6. DraftStaysAligned'
  BY <1>1, <1>3, <1>4 DEF GuidedInv, DraftStaysAligned, WeightsMatchLines, TargetsArePresent, FlagsFollowLines
<1>7. FormInv' /\ ReviewInv' /\ GuidedShape'
  BY <1>1, <1>5 DEF GuidedInv, GuidedShape, FormInv, OnLines, ReviewInv, DraftShape
<1> QED
  BY <1>6, <1>7 DEF GuidedInv

LEMMA AskDevisKeeps ==
  ASSUME GuidedInv, AskDevis
  PROVE  GuidedInv'
<1>1. /\ Show("lines", draft, TRUE) /\ UNCHANGED <<draft, flags, orphaned>> /\ screen' = "lines"
  BY DEF AskDevis, Show
<1>2. DraftStaysAligned'
  BY <1>1, SameDraftAligned DEF GuidedInv
<1> QED
  BY <1>1, <1>2, ShowKeeps DEF GuidedInv, GuidedShape, Screens

LEMMA DevisUnavailableKeeps ==
  ASSUME GuidedInv, DevisUnavailable
  PROVE  GuidedInv'
<1>1. /\ Show("choice", draft, FALSE) /\ UNCHANGED <<draft, flags, orphaned>> /\ screen' = "choice"
  BY DEF DevisUnavailable, Show
<1>2. DraftStaysAligned'
  BY <1>1, SameDraftAligned DEF GuidedInv
<1> QED
  BY <1>1, <1>2, ShowKeeps DEF GuidedInv, GuidedShape, Screens

(* What a devis or a dictation makes: n lines and m prestations, all new.  *)
LoadedAs(ids, lines, services, n, m, spread, weights) ==
  /\ ids = IdsBeside({}, n + m) /\ lines = SubSeq(ids, 1, n)
  /\ services = [i \in 1..m |-> Service(ids[n + i], spread, weights)]

LEMMA LoadedDraft ==
  ASSUME NEW n \in 1..MaxDraftLines, NEW m \in 0..MaxServices, NEW spread \in BOOLEAN,
         NEW weights \in 0..MaxDraftLines,
         NEW ids, NEW lines, NEW services, LoadedAs(ids, lines, services, n, m, spread, weights)
  PROVE  /\ n \in Nat /\ m \in Nat /\ n + m \in Nat
         /\ \A k \in 1..(n + m) : ids[k] \in Ids
         /\ lines \in Seq(Ids) /\ Len(lines) = n /\ DOMAIN lines = 1..n
         /\ \A k \in 1..n : lines[k] = ids[k]
         /\ services \in Seq(Prestations) /\ Len(services) = m /\ DOMAIN services = 1..m
         /\ \A k \in 1..m : /\ services[k].id = ids[n + k] /\ services[k].spread = spread
                            /\ services[k].weights = weights
<1>0. /\ ids = IdsBeside({}, n + m) /\ lines = SubSeq(ids, 1, n)
      /\ services = [i \in 1..m |-> Service(ids[n + i], spread, weights)]
  BY DEF LoadedAs
<1>1. n \in Nat /\ m \in Nat /\ n + m \in Nat /\ n + m <= MaxDraftLines + MaxServices + MaxRemises
  BY BoundsAreNat
<1>2. ids \in [1..(n + m) -> Ids]
  BY <1>0, <1>1, AllIds
<1>3. \A k \in 1..(n + m) : ids[k] \in Ids
  BY <1>2
<1>4. /\ lines \in Seq(Ids) /\ Len(lines) = n /\ \A k \in 1..n : lines[k] = ids[k]
  <2>1. \A k \in 1..n : ids[k] \in Ids
    BY <1>1, <1>3
  <2>2. /\ lines \in Seq(Ids) /\ Len(lines) = (IF 1 <= n THEN n - 1 + 1 ELSE 0)
        /\ \A k \in 1..(n - 1 + 1) : lines[k] = ids[1 + k - 1]
    BY <1>0, <1>1, <2>1, SubSeqProperties
  <2> QED
    BY <1>1, <2>2
<1>5. DOMAIN lines = 1..n
  BY <1>4, LenProperties
<1>6. \A k \in 1..m : n + k \in 1..(n + m)
  BY <1>1
<1>7. /\ services \in [1..m -> Prestations]
      /\ \A k \in 1..m : /\ services[k].id = ids[n + k] /\ services[k].spread = spread
                         /\ services[k].weights = weights
  BY <1>0, <1>3, <1>6 DEF Service, Prestations
<1>8. services \in Seq(Prestations) /\ Len(services) = m /\ DOMAIN services = 1..m
  BY <1>1, <1>7, FunctionIsSeq
<1> QED
  BY <1>1, <1>3, <1>4, <1>5, <1>7, <1>8

LEMMA LoadFromInvoiceKeeps ==
  ASSUME GuidedInv, NEW n \in 1..MaxDraftLines, NEW m \in 0..MaxServices, NEW spread \in BOOLEAN,
         LoadFromInvoice(n, m, spread)
  PROVE  GuidedInv'
<1> DEFINE ids == IdsBeside({}, n + m)
           lines == SubSeq(ids, 1, n)
           weights == IF spread THEN n ELSE 0
           services == [i \in 1..m |-> Service(ids[n + i], spread, weights)]
           remises == IF MaxRemises = 0 THEN <<>> ELSE <<ids[n + m]>>
           d == [lines |-> lines, services |-> services, remises |-> remises]
<1>1. /\ devisLoad /\ draft' = d /\ Show(screen, d, FALSE) /\ orphaned' = FALSE /\ flags' = flags
  BY DEF LoadFromInvoice
<1>2. weights \in 0..MaxDraftLines /\ (spread => weights = n)
  BY BoundsAreNat
<1> HIDE DEF weights
<1>loaded. LoadedAs(ids, lines, services, n, m, spread, weights)
  BY DEF LoadedAs
<1> HIDE DEF ids, lines, services
<1>3. /\ n \in Nat /\ m \in Nat /\ n + m \in Nat
      /\ \A k \in 1..(n + m) : ids[k] \in Ids
      /\ lines \in Seq(Ids) /\ Len(lines) = n /\ DOMAIN lines = 1..n
      /\ \A k \in 1..n : lines[k] = ids[k]
      /\ services \in Seq(Prestations) /\ Len(services) = m /\ DOMAIN services = 1..m
      /\ \A k \in 1..m : /\ services[k].id = ids[n + k] /\ services[k].spread = spread
                         /\ services[k].weights = weights
  BY <1>2, <1>loaded, LoadedDraft
<1>4. n + m \in 1..(n + m)
  BY <1>3
<1>5. /\ remises \in Seq(Ids \cup {None}) /\ Len(remises) <= MaxRemises
      /\ \A k \in DOMAIN remises : remises[k] = ids[n + m]
  <2>1. CASE MaxRemises = 0
    <3>1. remises = <<>>
      BY <2>1
    <3> QED
      BY <2>1, <3>1, EmptySeq
  <2>2. CASE MaxRemises # 0
    <3>1. remises = <<ids[n + m]>> /\ ids[n + m] \in Ids /\ 1 <= MaxRemises
      BY <1>3, <1>4, <2>2, BoundsAreNat
    <3> HIDE DEF remises
    <3>2. remises[1] = ids[n + m] /\ DOMAIN remises = {1} /\ Len(remises) = 1
      BY <3>1
    <3>3. remises \in [1..1 -> Ids \cup {None}]
      BY <3>1
    <3> QED
      BY <3>1, <3>2, <3>3, FunctionIsSeq
  <2> QED
    BY <2>1, <2>2
<1> HIDE DEF remises
<1>6. d.lines = lines /\ d.services = services /\ d.remises = remises
  OBVIOUS
<1>7. d \in [lines : Seq(Ids), services : Seq(Prestations), remises : Seq(Ids \cup {None})]
  BY <1>3, <1>5
<1> HIDE DEF d
<1>8. DraftShape(d)
  BY <1>3, <1>5, <1>6, <1>7 DEF DraftShape, Shapes
<1>9. ids[n + m] \in IdsOf(d)
  <2>1. CASE m = 0
    BY <2>1, <1>3, <1>6 DEF IdsOf, ToSet
  <2>2. CASE m # 0
    <3>1. m \in DOMAIN d.services /\ d.services[m].id = ids[n + m]
      BY <2>2, <1>3, <1>6
    <3> QED
      BY <3>1 DEF IdsOf, ServiceIds
  <2> QED
    BY <2>1, <2>2
<1>10. screen \in Steps /\ screen' = screen
  BY <1>1 DEF GuidedInv, GuidedShape, Show
<1>11. screen \in Screens /\ screen # "review"
  BY <1>10 DEF Steps, Screens
<1>12. WeightsMatchLines'
  BY <1>1, <1>2, <1>3, <1>6 DEF WeightsMatchLines
<1>13. TargetsArePresent'
  BY <1>1, <1>5, <1>6, <1>9 DEF TargetsArePresent
<1>14. DraftStaysAligned'
  BY <1>10, <1>11, <1>12, <1>13 DEF DraftStaysAligned, FlagsFollowLines
<1> QED
  BY <1>1, <1>8, <1>11, <1>14, ShowKeeps DEF GuidedInv, GuidedShape

LEMMA LoadFromVoiceDraftKeeps ==
  ASSUME GuidedInv, NEW n \in 1..MaxDraftLines, NEW m \in 0..MaxServices,
         NEW flagged \in SUBSET (1..n), LoadFromVoiceDraft(n, m, flagged)
  PROVE  GuidedInv'
<1> DEFINE ids == IdsBeside({}, n + m)
           lines == SubSeq(ids, 1, n)
           services == [i \in 1..m |-> Service(ids[n + i], FALSE, 0)]
           d == [lines |-> lines, remises |-> <<>>, services |-> services]
           marks == [i \in 1..n |-> IF i \in flagged THEN ids[i] ELSE None]
<1>1. draft' = d /\ Show("review", d, FALSE) /\ orphaned' = FALSE /\ flags' = marks
  BY DEF LoadFromVoiceDraft
<1>2. 0 \in 0..MaxDraftLines /\ FALSE \in BOOLEAN
  BY BoundsAreNat
<1>loaded. LoadedAs(ids, lines, services, n, m, FALSE, 0)
  BY DEF LoadedAs
<1> HIDE DEF ids, lines, services
<1>3. /\ n \in Nat /\ m \in Nat /\ n + m \in Nat
      /\ \A k \in 1..(n + m) : ids[k] \in Ids
      /\ lines \in Seq(Ids) /\ Len(lines) = n /\ DOMAIN lines = 1..n
      /\ \A k \in 1..n : lines[k] = ids[k]
      /\ services \in Seq(Prestations) /\ Len(services) = m /\ DOMAIN services = 1..m
      /\ \A k \in 1..m : /\ services[k].id = ids[n + k] /\ services[k].spread = FALSE
                         /\ services[k].weights = 0
  BY <1>2, <1>loaded, LoadedDraft, Zenon
<1>4. \A k \in 1..n : ids[k] \in Ids
  BY <1>3
<1>5. /\ marks \in Seq(Ids \cup {None}) /\ Len(marks) = n /\ DOMAIN marks = 1..n
      /\ \A k \in 1..n : marks[k] \in {None, lines[k]}
  <2>1. marks \in [1..n -> Ids \cup {None}]
    BY <1>4
  <2>2. \A k \in 1..n : marks[k] \in {None, lines[k]}
    BY <1>3
  <2> HIDE DEF marks
  <2> QED
    BY <1>3, <2>1, <2>2, FunctionIsSeq
<1> HIDE DEF marks
<1>6. d.lines = lines /\ d.services = services /\ d.remises = <<>>
  OBVIOUS
<1>7. <<>> \in Seq(Ids \cup {None}) /\ Len(<<>>) = 0 /\ DOMAIN <<>> = {}
  BY EmptySeq
<1>8. d \in [lines : Seq(Ids), services : Seq(Prestations), remises : Seq(Ids \cup {None})]
  BY <1>3, <1>7
<1> HIDE DEF d
<1>9. DraftShape(d) /\ n <= MaxDraftLines
  BY <1>3, <1>6, <1>7, <1>8, BoundsAreNat DEF DraftShape, Shapes
<1>10. DraftStaysAligned'
  BY <1>1, <1>3, <1>5, <1>6, <1>7
  DEF DraftStaysAligned, WeightsMatchLines, TargetsArePresent, FlagsFollowLines
<1> QED
  BY <1>1, <1>3, <1>5, <1>6, <1>9, <1>10, ShowKeeps DEF Screens

(* Cut at one index, the lines and the flags still pair.                    *)
LEMMA ReviewRemoveLineKeeps ==
  ASSUME GuidedInv, NEW i, ReviewRemoveLine(i)
  PROVE  GuidedInv'
<1> DEFINE lines == RemoveAt(draft.lines, i)
           marks == RemoveAt(flags, i)
           L == Len(draft.lines)
<1>1. /\ screen = "review" /\ i \in DOMAIN draft.lines
      /\ draft' = [draft EXCEPT !.lines = lines] /\ flags' = marks
      /\ UNCHANGED <<screen, form, leaving, devisLoad, orphaned>>
  BY DEF ReviewRemoveLine
<1>2. /\ draft \in Shapes /\ DraftShape(draft) /\ flags \in Seq(Ids \cup {None})
      /\ draft.lines \in Seq(Ids) /\ L <= MaxDraftLines /\ DraftStaysAligned
      /\ draft.remises = <<>> /\ \A k \in DOMAIN draft.services : ~draft.services[k].spread
  BY <1>1 DEF GuidedInv, GuidedShape, DraftShape, Shapes, ReviewInv
<1>3. L \in Nat /\ DOMAIN draft.lines = 1..L /\ DOMAIN flags = 1..Len(flags)
  BY <1>2, LenProperties
<1>4. Len(flags) = L /\ \A k \in 1..L : flags[k] \in {None, draft.lines[k]}
  BY <1>1, <1>2, <1>3 DEF DraftStaysAligned, FlagsFollowLines
<1>5. /\ lines \in Seq(Ids) /\ Len(lines) = L - 1
      /\ \A k \in 1..(L - 1) : lines[k] = IF k < i THEN draft.lines[k] ELSE draft.lines[k + 1]
  BY <1>1, <1>2, <1>3, RemoveAtShifts
<1>6. /\ marks \in Seq(Ids \cup {None}) /\ Len(marks) = L - 1
      /\ \A k \in 1..(L - 1) : marks[k] = IF k < i THEN flags[k] ELSE flags[k + 1]
  <2>1. i \in 1..Len(flags) /\ flags \in Seq(Ids \cup {None})
    BY <1>1, <1>2, <1>3, <1>4
  <2>2. /\ marks \in Seq(Ids \cup {None}) /\ Len(marks) = Len(flags) - 1
        /\ \A k \in 1..(Len(flags) - 1) : marks[k] = IF k < i THEN flags[k] ELSE flags[k + 1]
    BY <2>1, RemoveAtShifts
  <2> HIDE DEF marks
  <2> QED
    BY <1>4, <2>2
<1> HIDE DEF lines, marks, L
<1>7. DOMAIN marks = 1..(L - 1) /\ L - 1 <= MaxDraftLines
  <2>1. DOMAIN marks = 1..(L - 1)
    BY <1>6, LenProperties
  <2> QED
    BY <2>1, <1>2, <1>3, BoundsAreNat
<1>8. \A k \in 1..(L - 1) : marks[k] \in {None, lines[k]}
  <2>1. SUFFICES ASSUME NEW k \in 1..(L - 1) PROVE marks[k] \in {None, lines[k]}
    OBVIOUS
  <2>2. k \in 1..L /\ k + 1 \in 1..L
    BY <1>3
  <2> QED
    BY <1>4, <1>5, <1>6, <2>2
<1>9. /\ draft' \in Shapes /\ draft'.lines = lines
      /\ draft'.services = draft.services /\ draft'.remises = <<>>
  BY <1>1, <1>2, <1>5 DEF Shapes
<1>10. DraftShape(draft')
  BY <1>2, <1>5, <1>7, <1>9 DEF DraftShape, Shapes
<1>11. DOMAIN <<>> = {}
  BY EmptySeq
<1>12. DraftStaysAligned'
  BY <1>1, <1>2, <1>5, <1>6, <1>7, <1>8, <1>9, <1>11
  DEF DraftStaysAligned, WeightsMatchLines, TargetsArePresent, FlagsFollowLines
<1>13. FormInv' /\ ReviewInv'
  BY <1>1, <1>2, <1>9 DEF GuidedInv, FormInv, OnLines, ReviewInv
<1>14. GuidedShape'
  BY <1>1, <1>6, <1>7, <1>10 DEF GuidedInv, GuidedShape, DraftShape
<1> QED
  BY <1>12, <1>13, <1>14 DEF GuidedInv

LEMMA ReviewUpdateLineKeeps ==
  ASSUME GuidedInv, NEW i, ReviewUpdateLine(i)
  PROVE  GuidedInv'
<1>1. /\ screen = "review" /\ i \in DOMAIN draft.lines /\ flags' = [flags EXCEPT ![i] = None]
      /\ UNCHANGED <<screen, draft, form, leaving, devisLoad, orphaned>>
  BY DEF ReviewUpdateLine
<1>2. /\ draft \in Shapes /\ flags \in Seq(Ids \cup {None}) /\ Len(flags) = Len(draft.lines)
      /\ \A k \in DOMAIN flags : flags[k] \in {None, draft.lines[k]}
  BY <1>1 DEF GuidedInv, GuidedShape, DraftShape, Shapes, DraftStaysAligned, FlagsFollowLines
<1>3. i \in DOMAIN flags
  BY <1>1, <1>2, LenProperties DEF Shapes
<1>4. flags' \in Seq(Ids \cup {None}) /\ Len(flags') = Len(flags) /\ DOMAIN flags' = DOMAIN flags
  BY <1>1, <1>2, <1>3, ExceptSeq, LenProperties
<1>5. \A k \in DOMAIN flags' : flags'[k] \in {None, draft.lines[k]}
  BY <1>1, <1>2, <1>3, <1>4
<1>6. DraftStaysAligned'
  BY <1>1, <1>2, <1>4, <1>5
  DEF GuidedInv, DraftStaysAligned, WeightsMatchLines, TargetsArePresent, FlagsFollowLines
<1> QED
  BY <1>1, <1>4, <1>6 DEF GuidedInv, GuidedShape, FormInv, FormOfDraft, OnLines, AllWeighted, ReviewInv, DraftShape

-------------------------------------------------------------------------------
(* The invariant and the theorems                                          *)

LEMMA GuidedStart == GuidedInit => GuidedInv
<1>1. SUFFICES ASSUME GuidedInit PROVE GuidedInv
  OBVIOUS
<1>2. /\ screen = "choice" /\ draft = EmptyDraft /\ form = EmptyDraft /\ leaving = {}
      /\ flags = <<>> /\ devisLoad = FALSE /\ orphaned = FALSE
  BY <1>1 DEF GuidedInit
<1>3. <<>> \in Seq(Ids \cup {None}) /\ Len(<<>>) <= MaxDraftLines
  BY EmptySeq, BoundsAreNat
<1>4. DraftStaysAligned
  BY <1>2 DEF EmptyDraft, DraftStaysAligned, WeightsMatchLines, TargetsArePresent, FlagsFollowLines
<1> QED
  BY <1>2, <1>3, <1>4, EmptyIsShaped
  DEF GuidedInv, GuidedShape, FormInv, OnLines, ReviewInv, Screens

LEMMA GuidedStep == GuidedInv /\ [GuidedNext]_guidedVars => GuidedInv'
<1>1. SUFFICES ASSUME GuidedInv, [GuidedNext]_guidedVars PROVE GuidedInv'
  OBVIOUS
<1>2. CASE UNCHANGED guidedVars
  BY <1>1, <1>2
  DEF guidedVars, GuidedInv, GuidedShape, FormInv, FormOfDraft, OnLines, AllWeighted, ReviewInv,
      DraftShape, IdsOf, ServiceIds, DraftStaysAligned, WeightsMatchLines, TargetsArePresent,
      FlagsFollowLines
<1>3. CASE AddLine
  BY <1>1, <1>3, AddLineKeeps
<1>4. CASE AddRemise
  BY <1>1, <1>4, AddRemiseKeeps
<1>5. CASE GoToPreview
  BY <1>1, <1>5, GoToPreviewKeeps
<1>6. CASE ChangeCustomer
  BY <1>1, <1>6, ChangeCustomerKeeps
<1>7. CASE AskDevis
  BY <1>1, <1>7, AskDevisKeeps
<1>8. CASE DevisUnavailable
  BY <1>1, <1>8, DevisUnavailableKeeps
<1>9. ASSUME NEW spread \in BOOLEAN, AddService(spread) PROVE GuidedInv'
  BY <1>1, <1>9, AddServiceKeeps
<1>10. ASSUME NEW i \in 1..MaxServices, ToggleService(i) PROVE GuidedInv'
  BY <1>1, <1>10, ToggleServiceKeeps
<1>11. ASSUME NEW i \in 1..MaxRemises, RemoveRemise(i) PROVE GuidedInv'
  BY <1>1, <1>11, RemoveRemiseKeeps
<1>12. ASSUME NEW i \in 1..MaxRemises, NEW t \in Ids \cup {None}, PickTarget(i, t) PROVE GuidedInv'
  BY <1>1, <1>12, PickTargetKeeps
<1>13. ASSUME NEW id \in Ids, StartRemoval(id) PROVE GuidedInv'
  BY <1>1, <1>13, StartRemovalKeeps
<1>14. ASSUME NEW id \in Ids, EndRemoval(id) PROVE GuidedInv'
  BY <1>1, <1>14, EndRemovalKeeps
<1>15. ASSUME NEW step \in Steps \cup {"choice"}, GoTo(step) PROVE GuidedInv'
  BY <1>1, <1>15, GoToKeeps
<1>16. ASSUME NEW step \in {"choice", "customer", "voice"}, Reset(step) PROVE GuidedInv'
  BY <1>1, <1>16, ResetKeeps
<1>17. ASSUME NEW n \in 1..MaxDraftLines, NEW m \in 0..MaxServices, NEW spread \in BOOLEAN,
              LoadFromInvoice(n, m, spread)
       PROVE  GuidedInv'
  BY <1>1, <1>17, LoadFromInvoiceKeeps
<1>18. ASSUME NEW n \in 1..MaxDraftLines, NEW m \in 0..MaxServices,
              NEW flagged \in SUBSET (1..n), LoadFromVoiceDraft(n, m, flagged)
       PROVE  GuidedInv'
  BY <1>1, <1>18, LoadFromVoiceDraftKeeps
<1>19. ASSUME NEW i \in 1..MaxDraftLines, ReviewRemoveLine(i) PROVE GuidedInv'
  BY <1>1, <1>19, ReviewRemoveLineKeeps
<1>20. ASSUME NEW i \in 1..MaxDraftLines, ReviewUpdateLine(i) PROVE GuidedInv'
  BY <1>1, <1>20, ReviewUpdateLineKeeps
<1> QED
  BY <1>1, <1>2, <1>3, <1>4, <1>5, <1>6, <1>7, <1>8, <1>9, <1>10, <1>11, <1>12, <1>13, <1>14,
     <1>15, <1>16, <1>17, <1>18, <1>19, <1>20 DEF GuidedNext

LEMMA SeqIsBounded ==
  ASSUME NEW S, NEW n \in Nat, NEW s \in Seq(S), Len(s) <= n
  PROVE  s \in BoundedSeq(S, n)
<1>1. s \in [1..Len(s) -> S] /\ Len(s) \in 0..n
  BY LenProperties
<1> QED
  BY <1>1 DEF BoundedSeq, SeqOf

LEMMA ShapeIsOK == ASSUME NEW d, DraftShape(d) PROVE ShapeOK(d)
<1>1. /\ d.lines \in Seq(Ids) /\ d.services \in Seq(Prestations) /\ d.remises \in Seq(Ids \cup {None})
      /\ Len(d.lines) <= MaxDraftLines /\ Len(d.services) <= MaxServices
      /\ Len(d.remises) <= MaxRemises
  BY DEF DraftShape, Shapes
<1>2. \A i \in DOMAIN d.services : d.services[i] \in Prestations
  BY <1>1, ElementOfSeq, LenProperties
<1> QED
  BY <1>1, <1>2, SeqIsBounded, BoundsAreNat DEF ShapeOK, Prestations

LEMMA GuidedInvIsTyped == GuidedInv => GuidedTypeOK
<1>1. SUFFICES ASSUME GuidedInv PROVE GuidedTypeOK
  OBVIOUS
<1>2. ShapeOK(draft) /\ ShapeOK(form)
  BY <1>1, ShapeIsOK DEF GuidedInv, GuidedShape
<1>3. IdsOf(form) \subseteq Ids
  <2>1. form.lines \in Seq(Ids) /\ form.services \in Seq(Prestations)
    BY <1>1 DEF GuidedInv, GuidedShape, DraftShape, Shapes
  <2>2. /\ \A i \in DOMAIN form.lines : form.lines[i] \in Ids
        /\ \A i \in DOMAIN form.services : form.services[i].id \in Ids
    <3>1. /\ DOMAIN form.lines = 1..Len(form.lines)
          /\ DOMAIN form.services = 1..Len(form.services)
      BY <2>1, LenProperties
    <3>2. /\ \A i \in DOMAIN form.lines : form.lines[i] \in Ids
          /\ \A i \in DOMAIN form.services : form.services[i] \in Prestations
      BY <2>1, <3>1, ElementOfSeq
    <3> QED
      BY <3>2 DEF Prestations
  <2> QED
    BY <2>2 DEF IdsOf, ToSet, ServiceIds
<1>4. flags \in BoundedSeq(Ids \cup {None}, MaxDraftLines)
  BY <1>1, SeqIsBounded, BoundsAreNat DEF GuidedInv, GuidedShape
<1> QED
  BY <1>1, <1>2, <1>3, <1>4 DEF GuidedInv, GuidedShape, GuidedTypeOK, Screens

(* The screens, the draft, the form and the flags keep their types and      *)
(* their bounds: there is always a new id to give (InvoiceDraftStore, the   *)
(* lines step).                                                             *)
THEOREM GuidedTypes == GuidedSpec => []GuidedTypeOK
BY GuidedStart, GuidedStep, GuidedInvIsTyped, PTL DEF GuidedSpec

(* Whatever the order of edits, exits, steps and loads, and however long    *)
(* the draft, a split the API will check has one weight per line, no remise *)
(* designates a line that is gone, and an "à vérifier" flag is under the    *)
(* line it was raised for (InvoiceDraftStore, the lines step,               *)
(* VoiceDraftReviewStore).                                                  *)
THEOREM DraftAligned == GuidedSpec => []DraftStaysAligned
<1>1. GuidedInv => DraftStaysAligned
  BY DEF GuidedInv
<1> QED
  BY <1>1, GuidedStart, GuidedStep, PTL DEF GuidedSpec

===============================================================================
