-------------------------- MODULE ConfigSaveProofs ---------------------------
(***************************************************************************)
(* What the loop of _assign_unique_ids makes of any list, whatever a page, *)
(* a backup or a file holds.  The inductive invariant says that the part   *)
(* of the list behind the loop has distinct ids and the first holders      *)
(* theirs, that the rest is as it was given, and that no id the list was   *)
(* given with is free to be handed out.  Its second part follows a save    *)
(* from the page, its cards and their ids, through the token filled in and *)
(* the loop, to what comes into force.                                     *)
(***************************************************************************)
EXTENDS ConfigSave, SequenceTheorems, FiniteSetTheorems, WellFoundedInduction, TLAPS

\* The part of the draft the loop has done.
Done == 1..(next - 1)

LoopInv ==
    phase = "assigning" =>
        /\ Len(draft) = Len(given) /\ next <= Len(draft) + 1
        /\ used = {draft[i].id : i \in Done}
        /\ \A i \in Done : draft[i].id # NoId
        /\ \A i, j \in Done : draft[i].id = draft[j].id => i = j

GivenInv ==
    phase = "assigning" =>
        /\ IdsOf(given) \subseteq taken
        /\ \A i \in DOMAIN draft \ Done : draft[i] = given[i]
        /\ \A i \in Done : draft[i].id = given[i].id \/ draft[i].id \notin IdsOf(given)

IInv == TypeOK /\ LoopInv /\ GivenInv /\ KeysAreUnique /\ FirstHolderKeeps

-----------------------------------------------------------------------------
(* Entries and lists. *)

LEMMA EntryParts ==
  ASSUME NEW e \in Entry, NEW id \in Ids, NEW t \in Token \cup {NoToken, Kept}
  PROVE  WithId(e, id) \in Entry /\ WithToken(e, t) \in Entry
BY DEF WithId, WithToken, Entry

LEMMA ListOf ==
  ASSUME NEW list \in Seq(Entry), NEW new,
         DOMAIN new = DOMAIN list, new \in [DOMAIN list -> Entry]
  PROVE  new \in Seq(Entry)
<1>1. Len(list) \in Nat /\ DOMAIN list = 1..Len(list)
  BY LenProperties
<1>2. new \in [1..Len(list) -> Entry]
  BY <1>1
<1> QED BY <1>1, <1>2, SeqDef, Zenon

LEMMA ElementOfList ==
  ASSUME NEW list \in Seq(Entry), NEW i \in DOMAIN list
  PROVE  list[i] \in Entry
BY LenProperties, ElementOfSeq

LEMMA IdsOfList ==
  ASSUME NEW list \in Seq(Entry)
  PROVE  IdsOf(list) \subseteq Ids /\ NoId \notin IdsOf(list)
BY ElementOfList DEF IdsOf, Entry

LEMMA MaskedIsList ==
  ASSUME NEW list \in Seq(Entry)
  PROVE  Masked(list) \in Seq(Entry)
<1>1. \A i \in DOMAIN list : WithToken(list[i], Kept) \in Entry
  BY ElementOfList, EntryParts DEF WithToken, Entry
<1>2. Masked(list) \in [DOMAIN list -> Entry]
  BY <1>1 DEF Masked
<1> QED BY <1>2, ListOf DEF Masked

LEMMA WithoutIdsIsList ==
  ASSUME NEW list \in Seq(Entry)
  PROVE  WithoutIds(list) \in Seq(Entry)
<1>0. NoId \in Ids
  <2>1. <<>> \in Seq(Nat)
    BY EmptySeq
  <2>2. "" \in Words
    BY WordsAssumption
  <2> QED BY <2>1, <2>2, Zenon DEF NoId, Ids
<1>1. \A i \in DOMAIN list : WithId(list[i], NoId) \in Entry
  BY <1>0, ElementOfList DEF WithId, Entry
<1>2. WithoutIds(list) \in [DOMAIN list -> Entry]
  BY <1>1 DEF WithoutIds
<1> QED BY <1>2, ListOf DEF WithoutIds

\* What is filled in comes from the stored list.
LEMMA ReconciledIsEntry ==
  ASSUME TypeOK, NEW e \in Entry
  PROVE  Reconciled(e) \in Entry
<1>1. FindHost(e) \subseteq Entry
  BY ElementOfList DEF FindHost, ById, ByName, TypeOK
<1>2. StoredToken(e) \subseteq Token \cup {NoToken, Kept}
  BY <1>1 DEF StoredToken, Entry
<1>3. StoredToken(e) # {} => (CHOOSE t \in StoredToken(e) : TRUE) \in Token \cup {NoToken, Kept}
  BY <1>2
<1> QED BY <1>3, EntryParts DEF Reconciled, WithToken, Entry

LEMMA MergedIsList ==
  ASSUME TypeOK, NEW list \in Seq(Entry)
  PROVE  Merged(list) \in Seq(Entry)
<1>1. \A i \in DOMAIN list : Reconciled(list[i]) \in Entry
  BY ElementOfList, ReconciledIsEntry
<1>2. Merged(list) \in [DOMAIN list -> Entry]
  BY <1>1 DEF Merged
<1> QED BY <1>2, ListOf DEF Merged

-----------------------------------------------------------------------------
(* The steps. *)

LEMMA Initially == Init => IInv
<1> SUFFICES ASSUME Init PROVE IInv
  OBVIOUS
<1>1. Masked(Initial) \in Seq(Entry)
  BY ConfigAssumption, MaskedIsList
<1>2. <<>> \in Seq(Entry)
  BY EmptySeq
<1>3. pages \in [Tabs -> Seq(Entry)]
  BY <1>1 DEF Init
<1>4. hosts \in Seq(Entry) /\ file \in Seq(Entry) /\ given \in Seq(Entry) /\ draft \in Seq(Entry)
  BY <1>2, ConfigAssumption DEF Init
<1>5. timely \in BOOLEAN /\ bare \in BOOLEAN
  BY DEF Init
<1>6. TypeOK
  BY <1>3, <1>4, <1>5, ConfigAssumption DEF Init, TypeOK
<1>7. KeysAreUnique
  BY ConfigAssumption DEF Init, KeysAreUnique
<1> QED BY <1>6, <1>7 DEF Init, IInv, LoopInv, GivenInv, FirstHolderKeeps

\* A list is taken up.
LEMMA BeginStep ==
  ASSUME IInv, NEW list \in Seq(Entry), NEW from \in {"load", "import", "save"},
         BeginAssign(list, from), UNCHANGED <<hosts, file, pages>>,
         tab' \in Tabs \cup {None}, timely' \in BOOLEAN, bare' \in BOOLEAN,
         saves' \in 0..MaxSaves
  PROVE  IInv'
<1>1. Len(list) \in Nat /\ DOMAIN list = 1..Len(list)
  BY LenProperties
<1>2. TypeOK'
  BY IdsOfList DEF IInv, TypeOK, BeginAssign
<1>3. LoopInv'
  BY <1>1 DEF LoopInv, Done, BeginAssign
<1>4. GivenInv'
  BY <1>1 DEF GivenInv, Done, BeginAssign
<1>5. KeysAreUnique'
  BY DEF IInv, KeysAreUnique
<1>6. FirstHolderKeeps'
  BY DEF FirstHolderKeeps, BeginAssign
<1> QED BY <1>2, <1>3, <1>4, <1>5, <1>6 DEF IInv

\* A request is over.
LEMMA EndStep ==
  ASSUME IInv, EndRequest, phase' \in {"down", "ready"},
         hosts' \in Seq(Entry), UniqueIds(hosts'), file' \in Seq(Entry),
         pages' \in [Tabs -> Seq(Entry)], saves' \in 0..MaxSaves
  PROVE  IInv'
<1>1. timely' \in BOOLEAN /\ bare' \in BOOLEAN
  BY DEF EndRequest
<1>2. given' \in Seq(Entry) /\ draft' \in Seq(Entry)
  BY EmptySeq DEF EndRequest
<1>3. TypeOK'
  BY <1>1, <1>2 DEF TypeOK, EndRequest
<1>4. KeysAreUnique'
  BY DEF KeysAreUnique
<1> QED BY <1>3, <1>4 DEF IInv, LoopInv, GivenInv, FirstHolderKeeps

\* The end of the loop: the whole list is done.
LEMMA LoopEnd ==
  ASSUME IInv, phase = "assigning", next > Len(draft)
  PROVE  UniqueIds(draft)
<1>1. Len(draft) \in Nat /\ DOMAIN draft = 1..Len(draft)
  BY LenProperties DEF IInv, TypeOK
<1>2. next = Len(draft) + 1
  BY <1>1 DEF IInv, LoopInv, TypeOK
<1>3. DOMAIN draft = Done
  BY <1>1, <1>2 DEF Done
<1> QED BY <1>3 DEF IInv, LoopInv, UniqueIds

\* The entry the loop is at, and what it may be given.
LEMMA AtNext ==
  ASSUME IInv, phase = "assigning", next <= Len(draft)
  PROVE  /\ next \in DOMAIN draft /\ DOMAIN given = DOMAIN draft /\ DOMAIN draft = 1..Len(draft)
         /\ Len(draft) \in Nat
         /\ draft[next] = given[next] /\ draft[next] \in Entry
         /\ next \notin Done /\ 1..((next + 1) - 1) = Done \cup {next}
<1>1. Len(draft) \in Nat /\ DOMAIN draft = 1..Len(draft)
      /\ Len(given) \in Nat /\ DOMAIN given = 1..Len(given)
  BY LenProperties DEF IInv, TypeOK
<1>2. next \in 1..Len(draft)
  BY <1>1 DEF IInv, TypeOK
<1>3. next \notin Done /\ 1..((next + 1) - 1) = Done \cup {next}
  BY DEF Done, IInv, TypeOK
<1>4. draft[next] \in Entry
  BY <1>1, <1>2, ElementOfList DEF IInv, TypeOK
<1> QED BY <1>1, <1>2, <1>3, <1>4 DEF IInv, LoopInv, GivenInv

LEMMA CandidateIsId ==
  ASSUME IInv, phase = "assigning", next <= Len(draft)
  PROVE  Candidate \in Ids /\ Candidate # NoId
<1> DEFINE e == draft[next]
<1>1. e \in Entry
  BY AtNext
<1>2. Base(e) \in Ids /\ Base(e) # NoId
  BY <1>1, ConfigAssumption DEF Base, Entry
<1>3. n \in Nat
  BY DEF IInv, TypeOK
<1> HIDE DEF e
<1>4. Suffixed(Base(e), n) \in Ids /\ Suffixed(Base(e), n) # NoId
  <2>1. Base(e).word \in Words /\ Base(e).numbers \in Seq(Nat)
    BY <1>2 DEF Ids
  <2>2. Append(Base(e).numbers, n) \in Seq(Nat) /\ Append(Base(e).numbers, n) # <<>>
    BY <2>1, <1>3
  <2> QED BY <2>1, <2>2 DEF Suffixed, Ids, NoId
<1> QED BY <1>2, <1>4 DEF Candidate, e

LEMMA KeepStep ==
  ASSUME IInv, Keep
  PROVE  IInv'
<1>0. phase = "assigning" /\ next <= Len(draft) /\ draft[next].id # NoId /\ draft[next].id \notin used
  BY DEF Keep, HasItsId
<1> USE <1>0
<1>1. UNCHANGED <<phase, hosts, file, pages, origin, tab, timely, bare, given, draft, taken, saves>>
      /\ next' = next + 1 /\ used' = used \cup {draft[next].id} /\ n' = 1
  BY DEF Keep, request
<1>2. draft[next].id \in Ids
  BY AtNext DEF Entry
<1>3. TypeOK'
  BY <1>1, <1>2 DEF IInv, TypeOK
<1>4. Done' = Done \cup {next} /\ next \notin Done
  BY <1>1, AtNext DEF Done
<1>5. LoopInv'
  <2>1. next + 1 <= Len(draft) + 1
    BY AtNext DEF IInv, TypeOK
  <2>2. used' = {draft[i].id : i \in Done \cup {next}}
    BY <1>1 DEF IInv, LoopInv
  <2>3. \A i \in Done : draft[i].id # draft[next].id
    BY DEF IInv, LoopInv
  <2> QED BY <1>1, <1>4, <2>1, <2>2, <2>3 DEF IInv, LoopInv
<1>6. GivenInv'
  BY <1>1, <1>4, AtNext DEF IInv, GivenInv
<1>7. KeysAreUnique' /\ FirstHolderKeeps'
  BY <1>1 DEF IInv, KeysAreUnique, FirstHolderKeeps
<1> QED BY <1>3, <1>5, <1>6, <1>7 DEF IInv

LEMMA TryNextStep ==
  ASSUME IInv, TryNext
  PROVE  IInv'
<1>1. UNCHANGED <<phase, hosts, file, pages, origin, tab, timely, bare, given, draft, next,
                  taken, used, saves>> /\ n' = n + 1
  BY DEF TryNext, request
<1> QED BY <1>1 DEF IInv, TypeOK, LoopInv, GivenInv, KeysAreUnique, FirstHolderKeeps, Done

LEMMA AssignStep ==
  ASSUME IInv, Assign
  PROVE  IInv'
<1> DEFINE c == Candidate
<1>0. phase = "assigning" /\ next <= Len(draft) /\ c \notin taken \cup used
      /\ (draft[next].id # NoId => draft[next].id \in used)
  BY DEF Assign, HasItsId
<1> USE <1>0
<1>1. UNCHANGED <<phase, hosts, file, pages, origin, tab, timely, bare, given, saves>>
      /\ next' = next + 1 /\ used' = used \cup {c} /\ taken' = taken \cup {c} /\ n' = 1
      /\ draft' = [draft EXCEPT ![next] = WithId(draft[next], c)]
  BY DEF Assign, request
<1>2. c \in Ids /\ c # NoId
  BY CandidateIsId
<1> HIDE DEF c
<1>3. WithId(draft[next], c) \in Entry /\ WithId(draft[next], c).id = c
  BY <1>2, AtNext DEF WithId, Entry
<1>4. /\ draft' \in Seq(Entry) /\ Len(draft') = Len(draft) /\ DOMAIN draft' = DOMAIN draft
      /\ \A i \in DOMAIN draft : draft'[i] = IF i = next THEN WithId(draft[next], c) ELSE draft[i]
  <2>1. draft \in Seq(Entry) /\ next \in 1..Len(draft)
    BY AtNext DEF IInv, TypeOK
  <2>2. draft' \in Seq(Entry) /\ Len(draft') = Len(draft)
    BY <1>1, <1>3, <2>1, ExceptSeq
  <2> QED BY <1>1, <2>1, <2>2
<1>5. TypeOK'
  BY <1>1, <1>2, <1>4 DEF IInv, TypeOK
<1>6. Done' = Done \cup {next} /\ next \notin Done /\ Done \subseteq DOMAIN draft
  <2>1. Done \subseteq DOMAIN draft
    BY AtNext DEF Done, IInv, TypeOK
  <2> QED BY <1>1, <2>1, AtNext DEF Done
<1>7. draft'[next].id = c /\ \A i \in Done : draft'[i].id = draft[i].id
  BY <1>3, <1>4, <1>6, AtNext
<1>8. LoopInv'
  <2>1. next' <= Len(draft') + 1
    BY <1>1, <1>4, AtNext DEF IInv, TypeOK
  <2>2. used' = {draft'[i].id : i \in Done'}
    BY <1>1, <1>6, <1>7 DEF IInv, LoopInv
  <2>3. \A i \in Done : draft[i].id # c
    BY DEF IInv, LoopInv
  <2>4. \A i \in Done' : draft'[i].id # NoId
    BY <1>2, <1>6, <1>7 DEF IInv, LoopInv
  <2>5. \A i, j \in Done' : draft'[i].id = draft'[j].id => i = j
    BY <1>6, <1>7, <2>3 DEF IInv, LoopInv
  <2> QED BY <1>1, <1>4, <2>1, <2>2, <2>4, <2>5 DEF IInv, LoopInv
<1>9. c \notin IdsOf(given)
  BY DEF IInv, GivenInv
<1>10. GivenInv'
  <2>1. \A i \in DOMAIN draft' \ Done' : draft'[i] = given'[i]
    BY <1>1, <1>4, <1>6 DEF IInv, GivenInv
  <2>2. \A i \in Done' : draft'[i].id = given'[i].id \/ draft'[i].id \notin IdsOf(given')
    BY <1>1, <1>6, <1>7, <1>9 DEF IInv, GivenInv
  <2> QED BY <1>1, <2>1, <2>2 DEF IInv, GivenInv
<1>11. FirstHolderKeeps'
  <2> SUFFICES ASSUME NEW i \in DOMAIN draft', given[i].id # NoId,
                      \A k \in 1..(i - 1) : given[k].id # given[i].id
               PROVE  draft'[i].id = given[i].id
    BY <1>1 DEF FirstHolderKeeps
  <2>1. CASE i # next
    BY <2>1, <1>4 DEF IInv, FirstHolderKeeps
  <2>2. CASE i = next
    <3>1. given[next].id \in used
      BY <2>2, AtNext
    <3>2. PICK k \in Done : draft[k].id = given[next].id
      BY <3>1 DEF IInv, LoopInv
    <3>3. next \in DOMAIN given
      BY AtNext
    <3>4. given[next].id \in IdsOf(given)
      BY <2>2, <3>3 DEF IdsOf
    <3>5. draft[k].id = given[k].id
      BY <3>2, <3>4 DEF IInv, GivenInv
    <3> QED BY <2>2, <3>2, <3>5 DEF Done
  <2> QED BY <2>1, <2>2
<1>12. KeysAreUnique'
  BY <1>1 DEF IInv, KeysAreUnique
<1> QED BY <1>5, <1>8, <1>10, <1>11, <1>12 DEF IInv

LEMMA CommitStep ==
  ASSUME IInv, Commit
  PROVE  IInv'
<1>1. UniqueIds(draft)
  BY LoopEnd DEF Commit
<1>2. Masked(draft) \in Seq(Entry)
  BY MaskedIsList DEF IInv, TypeOK
<1>3. pages' \in [Tabs -> Seq(Entry)]
  BY <1>2 DEF Commit, IInv, TypeOK
<1>4. hosts' = draft /\ file' \in Seq(Entry) /\ draft \in Seq(Entry)
  BY DEF Commit, IInv, TypeOK
<1>5. EndRequest /\ phase' \in {"down", "ready"} /\ saves' = saves /\ saves \in 0..MaxSaves
  BY DEF Commit, IInv, TypeOK
<1> QED BY <1>1, <1>3, <1>4, <1>5, EndStep

LEMMA NextStep ==
  ASSUME IInv, [Next]_vars
  PROVE  IInv'
<1> USE ConfigAssumption
<1>0. hosts \in Seq(Entry) /\ file \in Seq(Entry) /\ UniqueIds(hosts) /\ saves \in 0..MaxSaves
      /\ pages \in [Tabs -> Seq(Entry)] /\ draft \in Seq(Entry)
  BY DEF IInv, TypeOK, KeysAreUnique
<1>1. ASSUME NEW t \in Tabs, Save(t) PROVE IInv'
  <2>1. PICK form \in Seq(Entry), b \in BOOLEAN :
          /\ BeginAssign(Merged(IF b THEN WithoutIds(form) ELSE form), "save")
          /\ bare' = b
    BY <1>1 DEF Save
  <2>2. Merged(IF b THEN WithoutIds(form) ELSE form) \in Seq(Entry)
    BY WithoutIdsIsList, MergedIsList DEF IInv
  <2>3. tab' \in Tabs \cup {None} /\ timely' \in BOOLEAN /\ bare' \in BOOLEAN
    BY <1>1, <2>1 DEF Save
  <2>4. saves' \in 0..MaxSaves
    BY <1>0, <1>1 DEF Save
  <2> QED BY <1>1, <2>1, <2>2, <2>3, <2>4, BeginStep DEF Save
<1>2. ASSUME NEW t \in Tabs, LoadPage(t) PROVE IInv'
  <2>1. Masked(hosts) \in Seq(Entry)
    BY <1>0, MaskedIsList
  <2>2. pages' \in [Tabs -> Seq(Entry)]
    BY <1>0, <1>2, <2>1 DEF LoadPage
  <2>3. UNCHANGED <<phase, hosts, file, request, loop, saves>>
    BY <1>2 DEF LoadPage
  <2> QED BY <2>2, <2>3 DEF IInv, TypeOK, LoopInv, GivenInv, KeysAreUnique, FirstHolderKeeps,
                            Done, request, loop
<1>3. ASSUME NEW list \in Written, Import(list) PROVE IInv'
  <2>1. list \in Seq(Entry) /\ saves' \in 0..MaxSaves
    BY <1>0, <1>3 DEF Import
  <2>2. tab' \in Tabs \cup {None} /\ timely' \in BOOLEAN /\ bare' \in BOOLEAN
    BY <1>3 DEF Import
  <2> QED BY <1>3, <2>1, <2>2, BeginStep DEF Import
<1>4. ASSUME NEW list \in Written, WriteByHand(list) PROVE IInv'
  <2>1. list \in Seq(Entry) /\ saves' \in 0..MaxSaves
    BY <1>0, <1>4 DEF WriteByHand
  <2>2. UNCHANGED <<phase, hosts, pages, request, loop>> /\ file' = list
    BY <1>4 DEF WriteByHand
  <2> QED BY <2>1, <2>2 DEF IInv, TypeOK, LoopInv, GivenInv, KeysAreUnique, FirstHolderKeeps,
                            Done, request, loop
<1>5. ASSUME Start PROVE IInv'
  <2>1. tab' \in Tabs \cup {None} /\ timely' \in BOOLEAN /\ bare' \in BOOLEAN
    BY <1>5 DEF Start
  <2> QED BY <1>0, <1>5, <2>1, BeginStep DEF Start
<1>6. ASSUME WriteFails PROVE IInv'
  BY <1>0, <1>6, EndStep DEF WriteFails
<1>7. ASSUME Crash PROVE IInv'
  <2>1. file' \in Seq(Entry)
    BY <1>0, <1>7 DEF Crash
  <2> QED BY <1>0, <1>7, <2>1, EndStep DEF Crash
<1>8. CASE UNCHANGED vars
  BY <1>8 DEF IInv, TypeOK, LoopInv, GivenInv, KeysAreUnique, FirstHolderKeeps, Done,
              vars, request, loop
<1> QED BY <1>1, <1>2, <1>3, <1>4, <1>5, <1>6, <1>7, <1>8, KeepStep, TryNextStep, AssignStep,
           CommitStep DEF Next

LEMMA Invariance == Spec => []IInv
<1>1. Init => IInv
  BY Initially
<1>2. IInv /\ [Next]_vars => IInv'
  BY NextStep
<1> QED BY <1>1, <1>2, PTL DEF Spec

-----------------------------------------------------------------------------
\* Every variable keeps its type, for any entries, names, tabs and lists.
THEOREM TypeCorrect == Spec => []TypeOK
<1>1. IInv => TypeOK
  BY DEF IInv
<1> QED BY <1>1, Invariance, PTL

\* The ids in force are distinct and none is empty, whatever was submitted, imported or
\* written by hand: no two entries share a latch (config.py:1020-1048).
THEOREM KeysAreUniqueCorrect == Spec => []KeysAreUnique
<1>1. IInv => KeysAreUnique
  BY DEF IInv
<1> QED BY <1>1, Invariance, PTL

\* The first holder of an id keeps it through the whole loop (config.py:1031-1032).
THEOREM FirstHolderCorrect == Spec => []FirstHolderKeeps
<1>1. IInv => FirstHolderKeeps
  BY DEF IInv
<1> QED BY <1>1, Invariance, PTL

-----------------------------------------------------------------------------
(* The cards of a page.  Left is a function defined by recursion over the list: that it *)
(* exists, and what its values are, is shown of the smallest index where it would fail. *)

\* A set of numbers has a smallest one.
LEMMA Smallest ==
  ASSUME NEW S \in SUBSET Nat, S # {}
  PROVE  \E k \in S : \A m \in S : k <= m
<1> DEFINE R == {p \in Nat \X Nat : p[1] < p[2]}
<1>1. IsWellFoundedOn(R, Nat)
  BY NatLessThanWellFounded DEF OpToRel
<1> HIDE DEF R
<1>2. PICK k \in S : \A m \in S : <<m, k>> \notin R
  BY <1>1, WFMin
<1>3. \A m \in S : k <= m
  <2> SUFFICES ASSUME NEW m \in S PROVE k <= m
    OBVIOUS
  <2>1. m \in Nat /\ k \in Nat /\ <<m, k>> \notin R
    BY <1>2
  <2>2. ~(m < k)
    BY <2>1 DEF R
  <2> QED BY <2>1, <2>2
<1> QED BY <1>2, <1>3

\* The cards left of a list that one more card follows, and of the first m cards.
More(left, e) == left \cup {Append(s, x) : s \in left, x \in Versions(e)}
LeftOfFirst(list, m, f) ==
    [k \in 0..m |-> IF k = 0 THEN {<<>>} ELSE More(f[k - 1], list[k])]

\* There is such a function for every length.
LEMMA LeftExists ==
  ASSUME NEW list, NEW l \in Nat
  PROVE  \A m \in 0..l : \E f : f = LeftOfFirst(list, m, f)
<1> DEFINE Bad == {m \in 0..l : ~ \E f : f = LeftOfFirst(list, m, f)}
<1> SUFFICES ASSUME Bad # {} PROVE FALSE
  OBVIOUS
<1>1. PICK b \in Bad : \A m \in Bad : b <= m
  <2>1. Bad \in SUBSET Nat
    OBVIOUS
  <2> HIDE DEF Bad
  <2> QED BY <2>1, Smallest
<1>2. b \in 0..l /\ ~ \E f : f = LeftOfFirst(list, b, f)
  OBVIOUS
<1>3. CASE b = 0
  <2> DEFINE h == [k \in 0..0 |-> {<<>>}]
  <2>1. h = LeftOfFirst(list, 0, h)
    BY DEF LeftOfFirst
  <2> QED BY <1>2, <1>3, <2>1
<1>4. CASE b # 0
  <2>1. b - 1 \in 0..l /\ b - 1 \notin Bad
    BY <1>1, <1>2, <1>4
  <2>2. PICK g : g = LeftOfFirst(list, b - 1, g)
    BY <2>1
  <2> DEFINE h == [k \in 0..b |-> IF k = b THEN More(g[b - 1], list[b]) ELSE g[k]]
             rhs(k) == IF k = 0 THEN {<<>>} ELSE More(h[k - 1], list[k])
  <2>3. ASSUME NEW k \in 0..b PROVE h[k] = rhs(k)
    <3>1. CASE k = b
      <4>1. h[k - 1] = g[b - 1]
        BY <1>2, <1>4, <3>1
      <4> QED BY <1>4, <3>1, <4>1
    <3>2. CASE k # b /\ k = 0
      <4>1. k \in 0..(b - 1)
        BY <1>2, <3>2
      <4>2. g[k] = {<<>>}
        BY <2>2, <3>2, <4>1 DEF LeftOfFirst
      <4> QED BY <3>2, <4>2
    <3>3. CASE k # b /\ k # 0
      <4>1. k \in 0..(b - 1) /\ k - 1 \in 0..b /\ k - 1 # b
        BY <1>2, <3>3
      <4>2. g[k] = More(g[k - 1], list[k])
        BY <2>2, <3>3, <4>1 DEF LeftOfFirst
      <4>3. h[k - 1] = g[k - 1]
        BY <4>1
      <4> QED BY <3>3, <4>2, <4>3
    <3> QED BY <3>1, <3>2, <3>3
  <2>4. h = [k \in 0..b |-> rhs(k)]
    <3> HIDE DEF rhs
    <3>1. h = [k \in 0..b |-> h[k]]
      OBVIOUS
    <3> HIDE DEF h
    <3> QED BY <2>3, <3>1
  <2>5. h = LeftOfFirst(list, b, h)
    BY <2>4 DEF LeftOfFirst
  <2> QED BY <1>2, <2>5
<1> QED BY <1>3, <1>4

\* What Left is made of.
LEMMA LeftParts ==
  ASSUME NEW list, Len(list) \in Nat
  PROVE  \E f : f = LeftOfFirst(list, Len(list), f) /\ Left(list) = f[Len(list)]
<1> DEFINE f == CHOOSE f : f = LeftOfFirst(list, Len(list), f)
<1>1. Left(list) = f[Len(list)]
  BY DEF Left, LeftOfFirst, More
<1>2. Len(list) \in 0..Len(list)
  OBVIOUS
<1>3. f = LeftOfFirst(list, Len(list), f)
  BY <1>2, LeftExists
<1> QED BY <1>1, <1>3

\* A card of the page and the entry it shows: the same machine under the same id, with
\* the token the page was sent or one made for what the card says now.
CardOf(c, e) ==
    c.id = e.id /\ c.machine = e.machine /\ c.token \in {e.token, Own(c)}

LEMMA VersionsAreCards ==
  ASSUME NEW e \in Entry, NEW c \in Versions(e)
  PROVE  c \in Entry /\ CardOf(c, e)
<1>1. ASSUME NEW x \in Names, c = [e EXCEPT !.name = x] PROVE c \in Entry /\ CardOf(c, e)
  BY <1>1 DEF Entry, CardOf
<1>2. ASSUME NEW x \in Types, c = [e EXCEPT !.type = x] PROVE c \in Entry /\ CardOf(c, e)
  BY <1>2 DEF Entry, CardOf
<1>3. CASE c = [e EXCEPT !.on = ~e.on]
  BY <1>3 DEF Entry, CardOf
<1>4. CASE c = [e EXCEPT !.token = Own(e)]
  <2>1. Own(e) \in Token
    BY DEF Entry, Own, Token
  <2>2. c.machine = e.machine /\ c.type = e.type /\ c.id = e.id /\ c.token = Own(e)
    BY <1>4 DEF Entry
  <2>3. c \in Entry
    BY <1>4, <2>1 DEF Entry
  <2> QED BY <2>2, <2>3 DEF CardOf, Own
<1>5. CASE c = e
  BY <1>5 DEF CardOf
<1> QED BY <1>1, <1>2, <1>3, <1>4, <1>5 DEF Versions

\* The cards s show entries of the first m of the list, each at most once.
Cards(s, list, m) ==
    /\ s \in Seq(Entry) /\ UniqueIds(s)
    /\ \A j \in DOMAIN s : \E i \in 1..m : CardOf(s[j], list[i])

LEMMA EmptyPage == ASSUME NEW list PROVE Cards(<<>>, list, 0)
<1>1. <<>> \in Seq(Entry) /\ Len(<<>>) = 0
  BY EmptySeq
<1>2. DOMAIN <<>> = {}
  OBVIOUS
<1> QED BY <1>1, <1>2 DEF Cards, UniqueIds

\* One card more on a page that has none with its id.
LEMMA OneCardMore ==
  ASSUME NEW s \in Seq(Entry), UniqueIds(s), NEW c \in Entry, c.id # NoId,
         \A j \in DOMAIN s : s[j].id # c.id
  PROVE  /\ Append(s, c) \in Seq(Entry) /\ UniqueIds(Append(s, c))
         /\ \A j \in DOMAIN Append(s, c) :
              Append(s, c)[j] = c \/ (j \in DOMAIN s /\ Append(s, c)[j] = s[j])
<1> DEFINE t == Append(s, c)
           l == Len(s)
<1>1. l \in Nat /\ DOMAIN s = 1..l
  BY LenProperties
<1>2. t \in Seq(Entry) /\ Len(t) = l + 1 /\ (\A i \in 1..l : t[i] = s[i]) /\ t[l + 1] = c
  BY AppendProperties
<1>3. DOMAIN t = 1..(l + 1)
  BY <1>2, LenProperties
<1> HIDE DEF t, l
<1>4. \A j \in DOMAIN t : (j = l + 1 /\ t[j] = c) \/ (j \in DOMAIN s /\ t[j] = s[j])
  BY <1>1, <1>2, <1>3
<1>5. \A i \in DOMAIN t : t[i].id # NoId
  BY <1>4 DEF UniqueIds
<1>6. \A i, j \in DOMAIN t : t[i].id = t[j].id => i = j
  BY <1>4 DEF UniqueIds
<1> QED BY <1>2, <1>4, <1>5, <1>6 DEF UniqueIds, t

\* What is left of the first k entries is cards of them.
LEMMA LeftStep ==
  ASSUME NEW list \in Seq(Entry), UniqueIds(list), NEW k \in DOMAIN list,
         NEW left, \A s \in left : Cards(s, list, k - 1),
         NEW s \in More(left, list[k])
  PROVE  Cards(s, list, k)
<1>1. k \in Nat \ {0} /\ 1..(k - 1) \subseteq DOMAIN list /\ 1..(k - 1) \subseteq 1..k
      /\ k \in 1..k /\ k \notin 1..(k - 1)
  BY LenProperties
<1>2. CASE s \in left
  BY <1>1, <1>2 DEF Cards
<1>3. ASSUME NEW r \in left, NEW c \in Versions(list[k]), s = Append(r, c)
      PROVE  Cards(s, list, k)
  <2>1. list[k] \in Entry
    BY ElementOfList
  <2>2. c \in Entry /\ CardOf(c, list[k])
    BY <2>1, VersionsAreCards
  <2>3. Cards(r, list, k - 1)
    BY <1>3
  <2>4. c.id # NoId
    BY <2>2 DEF CardOf, UniqueIds
  <2>5. \A j \in DOMAIN r : r[j].id # c.id
    BY <1>1, <2>2, <2>3 DEF Cards, CardOf, UniqueIds
  <2>6. /\ s \in Seq(Entry) /\ UniqueIds(s)
        /\ \A j \in DOMAIN s : s[j] = c \/ (j \in DOMAIN r /\ s[j] = r[j])
    BY <1>3, <2>2, <2>3, <2>4, <2>5, OneCardMore DEF Cards
  <2>7. \A j \in DOMAIN s : \E i \in 1..k : CardOf(s[j], list[i])
    <3> SUFFICES ASSUME NEW j \in DOMAIN s PROVE \E i \in 1..k : CardOf(s[j], list[i])
      OBVIOUS
    <3>1. CASE s[j] = c
      BY <1>1, <2>2, <3>1
    <3>2. CASE j \in DOMAIN r /\ s[j] = r[j]
      <4>1. PICK i \in 1..(k - 1) : CardOf(r[j], list[i])
        BY <2>3, <3>2 DEF Cards
      <4> QED BY <1>1, <3>2, <4>1
    <3> QED BY <2>6, <3>1, <3>2
  <2> QED BY <2>6, <2>7 DEF Cards
<1> QED BY <1>2, <1>3 DEF More

LEMMA LeftAreCards ==
  ASSUME NEW list \in Seq(Entry), UniqueIds(list), NEW s \in Left(list)
  PROVE  Cards(s, list, Len(list))
<1> DEFINE l == Len(list)
<1>1. l \in Nat /\ DOMAIN list = 1..l
  BY LenProperties
<1>2. PICK f : f = LeftOfFirst(list, l, f) /\ Left(list) = f[l]
  BY <1>1, LeftParts
<1> HIDE DEF l
<1> DEFINE Bad == {k \in 0..l : ~ \A r \in f[k] : Cards(r, list, k)}
<1>3. Bad = {}
  <2> SUFFICES ASSUME Bad # {} PROVE FALSE
    OBVIOUS
  <2>1. PICK b \in Bad : \A m \in Bad : b <= m
    <3>1. Bad \in SUBSET Nat
      BY <1>1
    <3> HIDE DEF Bad
    <3> QED BY <3>1, Smallest
  <2>2. b \in 0..l /\ ~ \A r \in f[b] : Cards(r, list, b)
    OBVIOUS
  <2>3. CASE b = 0
    <3>1. f[b] = {<<>>}
      BY <1>2, <2>2, <2>3 DEF LeftOfFirst
    <3> QED BY <2>2, <2>3, <3>1, EmptyPage
  <2>4. CASE b # 0
    <3>1. b - 1 \in 0..l /\ b - 1 \notin Bad /\ b \in DOMAIN list
      BY <1>1, <2>1, <2>2, <2>4
    <3>2. f[b] = More(f[b - 1], list[b])
      BY <1>2, <2>2, <2>4 DEF LeftOfFirst
    <3>3. \A r \in f[b - 1] : Cards(r, list, b - 1)
      BY <3>1
    <3> QED BY <2>2, <3>1, <3>2, <3>3, LeftStep
  <2> QED BY <2>3, <2>4
<1>4. l \in 0..l
  BY <1>1
<1> QED BY <1>2, <1>3, <1>4 DEF l

\* The ids of a list are finitely many.
LEMMA IdsAreFinite ==
  ASSUME NEW list \in Seq(Entry)
  PROVE  IsFiniteSet(IdsOf(list))
<1> DEFINE D == 1..Len(list)
           T == {list[i].id : i \in D}
           f == [i \in D |-> list[i].id]
<1>1. Len(list) \in Nat /\ DOMAIN list = D
  BY LenProperties
<1>2. IsFiniteSet(D)
  BY <1>1, FS_Interval
<1>3. f \in Surjection(D, T)
  <2>1. f \in [D -> T]
    OBVIOUS
  <2>2. \A t \in T : \E i \in D : f[i] = t
    OBVIOUS
  <2> QED BY <2>1, <2>2 DEF Surjection
<1> HIDE DEF f, D
<1>4. IsFiniteSet(T)
  BY <1>2, <1>3, FS_Surjection
<1>5. IdsOf(list) \in SUBSET T
  BY <1>1 DEF IdsOf
<1> HIDE DEF T
<1> QED BY <1>4, <1>5, FS_Subset

\* Two numbers make two ids.
LEMMA HostIdsDiffer ==
  ASSUME NEW k \in Nat, NEW m \in Nat, HostId(k) = HostId(m)
  PROVE  k = m
<1>1. HostId(k).numbers[1] = k /\ HostId(m).numbers[1] = m
  BY DEF HostId
<1> QED BY <1>1

\* newCardId finds a number, and one whose id nobody has.
LEMMA NewCardIdIsNew ==
  ASSUME NEW form \in Seq(Entry), NEW loaded \in Seq(Entry)
  PROVE  /\ NewCardId(form, loaded) \notin IdsOf(form) \cup IdsOf(loaded)
         /\ NewCardId(form, loaded) # NoId
         /\ NewCardId(form, loaded) \in Ids
<1> DEFINE ids == IdsOf(form) \cup IdsOf(loaded)
           S == 1..(Cardinality(ids) + 1)
           Free == {k \in S : HostId(k) \notin ids}
<1>1. IsFiniteSet(ids)
  BY IdsAreFinite, FS_Union
<1> HIDE DEF ids
<1>2. Cardinality(ids) \in Nat
  BY <1>1, FS_CardinalityType
<1>3. IsFiniteSet(S) /\ Cardinality(S) = Cardinality(ids) + 1 /\ S \subseteq Nat
  <2> DEFINE l == Cardinality(ids) + 1
  <2>1. l \in Int /\ l >= 1 /\ 1 \in Int
    BY <1>2
  <2> HIDE DEF l
  <2>2. IsFiniteSet(1..l) /\ Cardinality(1..l) = l
    BY <2>1, FS_Interval
  <2> QED BY <2>1, <2>2 DEF l
<1>4. Free # {}
  <2> SUFFICES ASSUME \A k \in S : HostId(k) \in ids PROVE FALSE
    OBVIOUS
  <2> DEFINE f == [k \in S |-> HostId(k)]
  <2>1. f \in [S -> ids]
    OBVIOUS
  <2>2. Cardinality(ids) < Cardinality(S)
    BY <1>2, <1>3
  <2> HIDE DEF f, S
  <2>3. PICK x, y \in S : x # y /\ f[x] = f[y]
    BY <1>1, <1>3, <2>1, <2>2, FS_PigeonHole
  <2>4. HostId(x) = HostId(y) /\ x \in Nat /\ y \in Nat
    BY <1>3, <2>3 DEF f
  <2> QED BY <2>3, <2>4, HostIdsDiffer
<1>5. PICK k \in Free : \A m \in Free : k <= m
  <2>1. Free \in SUBSET Nat
    BY <1>3
  <2> HIDE DEF Free
  <2> QED BY <1>4, <2>1, Smallest
<1>6. k \in S /\ HostId(k) \notin ids /\ \A m \in 1..(k - 1) : HostId(m) \in ids
  BY <1>2, <1>5
<1> DEFINE c == CHOOSE x \in S : HostId(x) \notin ids /\ \A m \in 1..(x - 1) : HostId(m) \in ids
<1>7. c \in S /\ HostId(c) \notin ids
  BY <1>6
<1>8. NewCardId(form, loaded) = HostId(c)
  BY DEF NewCardId, ids
<1>9. c \in Nat
  BY <1>3, <1>7
<1> HIDE DEF c, S
<1>10. HostId(c) # NoId /\ HostId(c) \in Ids
  <2>1. <<c>> \in Seq(Nat)
    BY <1>9
  <2>2. "host" \in Words
    BY WordsAssumption, Zenon
  <2>3. HostId(c) \in Ids
    BY <2>1, <2>2 DEF HostId, Ids
  <2>4. HostId(c).word # NoId.word
    BY DEF HostId, NoId
  <2> QED BY <2>3, <2>4, Zenon
<1> QED BY <1>7, <1>8, <1>10 DEF ids

\* What a page of unique ids is sent back as: its cards and at most one new one, all with ids
\* of their own.
LEMMA FormParts ==
  ASSUME NEW loaded \in Seq(Entry), UniqueIds(loaded),
         NEW form \in Forms(loaded), form \in Seq(Entry)
  PROVE  /\ UniqueIds(form)
         /\ \A j \in DOMAIN form :
              \/ \E i \in DOMAIN loaded : CardOf(form[j], loaded[i])
              \/ form[j].id \notin IdsOf(loaded) /\ form[j].token \in {Kept, Own(form[j])}
<1>1. Len(loaded) \in Nat /\ DOMAIN loaded = 1..Len(loaded)
  BY LenProperties
<1>2. ASSUME NEW s \in Left(loaded)
      PROVE  /\ s \in Seq(Entry) /\ UniqueIds(s)
             /\ \A j \in DOMAIN s : \E i \in DOMAIN loaded : CardOf(s[j], loaded[i])
  BY <1>1, LeftAreCards DEF Cards
<1>3. CASE form \in Left(loaded)
  BY <1>2, <1>3
<1>4. CASE form \notin Left(loaded)
  <2>0. PICK s \in Left(loaded) :
          \E e \in [id: {NewCardId(s, loaded)}, type: Types, name: Names, on: BOOLEAN,
                    machine: Machines \ {s[i].machine : i \in DOMAIN s}, token: {NoToken, Kept}] :
            form = Append(s, IF e.token = NoToken THEN [e EXCEPT !.token = Own(e)] ELSE e)
    BY <1>4 DEF Forms
  <2>1. PICK e \in [id: {NewCardId(s, loaded)}, type: Types, name: Names, on: BOOLEAN,
                    machine: Machines \ {s[i].machine : i \in DOMAIN s}, token: {NoToken, Kept}] :
          form = Append(s, IF e.token = NoToken THEN [e EXCEPT !.token = Own(e)] ELSE e)
    BY <2>0
  <2> DEFINE c == IF e.token = NoToken THEN [e EXCEPT !.token = Own(e)] ELSE e
  <2>2. c.id = NewCardId(s, loaded) /\ c.token \in {Kept, Own(c)}
    BY <2>1 DEF Own
  <2>3. c.id \notin IdsOf(s) /\ c.id \notin IdsOf(loaded) /\ c.id # NoId /\ c.id \in Ids
    BY <1>2, <2>2, NewCardIdIsNew
  <2>4. c \in Entry
    <3>1. Own(e) \in Token
      BY <2>1 DEF Own, Token
    <3> QED BY <2>1, <2>2, <2>3, <3>1 DEF Entry
  <2>5. form = Append(s, c)
    BY <2>1
  <2> HIDE DEF c
  <2>6. \A j \in DOMAIN s : s[j].id # c.id
    BY <1>2, <2>3 DEF IdsOf
  <2>7. /\ UniqueIds(form)
        /\ \A j \in DOMAIN form : form[j] = c \/ (j \in DOMAIN s /\ form[j] = s[j])
    BY <1>2, <2>3, <2>4, <2>5, <2>6, OneCardMore
  <2> QED BY <1>2, <2>2, <2>3, <2>7
<1> QED BY <1>3, <1>4

-----------------------------------------------------------------------------
(* What a timely save may hold: the second part of the inductive invariant, for a list that *)
(* is worked off while it is still the one that the page showed.                            *)

\* An entry of a known id is meant for the machine of that id, and has the token that is
\* stored for its product or one of its own; a new one that is on has its own.
Explained(g, list) ==
    \/ \E i \in DOMAIN list :
         /\ g.id = list[i].id /\ g.machine = list[i].machine
         /\ IF g.type = list[i].type THEN g.token \in {list[i].token, Own(g)}
                                     ELSE g.token \in {NoToken, Own(g)}
    \/ g.id \notin IdsOf(list) /\ (g.on => g.token = Own(g))

\* Without ids an entry is known by a product and name that one entry has alone.
AloneIn(i, list) ==
    \A k \in DOMAIN list \ {i} : ~(list[k].type = list[i].type /\ list[k].name = list[i].name)
Recognised(g, list) ==
    \A i \in DOMAIN list :
        AloneIn(i, list) /\ list[i].type = g.type /\ list[i].name = g.name =>
            g.token \in {list[i].token, Own(g)}

SaveInv ==
    phase = "assigning" /\ origin = "save" /\ timely =>
        IF bare THEN \A j \in DOMAIN given : Recognised(given[j], hosts)
        ELSE UniqueIds(given) /\ \A j \in DOMAIN given : Explained(given[j], hosts)

\* The loop changes nothing but ids.
DraftInv ==
    phase = "assigning" =>
        \A j \in DOMAIN draft : draft[j] = WithId(given[j], draft[j].id)

\* What is filled in changes the token of an entry, and only one that was left blank.
LEMMA ReconciledKeeps ==
  ASSUME NEW e
  PROVE  /\ e.token # Kept => Reconciled(e) = e
         /\ Reconciled(e).id = e.id /\ Reconciled(e).machine = e.machine
         /\ Reconciled(e).type = e.type /\ Reconciled(e).name = e.name
         /\ Reconciled(e).on = e.on /\ Own(Reconciled(e)) = Own(e)
         /\ e.token = Kept =>
              Reconciled(e).token = IF StoredToken(e) = {} THEN NoToken
                                    ELSE CHOOSE t \in StoredToken(e) : TRUE
<1>1. e.token # Kept => Reconciled(e) = e
  BY DEF Reconciled
<1>2. ASSUME NEW t
      PROVE  /\ WithToken(e, t).id = e.id /\ WithToken(e, t).machine = e.machine
             /\ WithToken(e, t).type = e.type /\ WithToken(e, t).name = e.name
             /\ WithToken(e, t).on = e.on /\ WithToken(e, t).token = t
  BY DEF WithToken
<1> QED BY <1>1, <1>2 DEF Reconciled, Own

\* The card of a stored entry gets its token back, or none if it is of another product now.
LEMMA StoredIsFound ==
  ASSUME hosts \in Seq(Entry), UniqueIds(hosts), NEW i \in DOMAIN hosts,
         NEW c, c.id = hosts[i].id
  PROVE  StoredToken(c) = IF c.type = hosts[i].type THEN {hosts[i].token} ELSE {}
<1>1. c.id # NoId
  BY DEF UniqueIds
<1>2. ById(c) = {hosts[i]}
  BY <1>1 DEF ById, UniqueIds
<1>3. FindHost(c) = {hosts[i]}
  BY <1>2 DEF FindHost
<1> QED BY <1>3 DEF StoredToken

LEMMA KnownIsExplained ==
  ASSUME hosts \in Seq(Entry), UniqueIds(hosts), NEW i \in DOMAIN hosts, NEW c,
         c.id = hosts[i].id, c.machine = hosts[i].machine, c.token \in {Kept, Own(c)}
  PROVE  Explained(Reconciled(c), hosts)
<1> DEFINE g == Reconciled(c)
<1>1. /\ g.id = hosts[i].id /\ g.machine = hosts[i].machine
      /\ g.type = c.type /\ Own(g) = Own(c)
  BY ReconciledKeeps
<1>2. ASSUME c.token # Kept PROVE g.token = Own(g)
  BY <1>1, <1>2, ReconciledKeeps
<1>3. ASSUME c.token = Kept
      PROVE  g.token = IF g.type = hosts[i].type THEN hosts[i].token ELSE NoToken
  <2>1. g.token = IF StoredToken(c) = {} THEN NoToken ELSE CHOOSE t \in StoredToken(c) : TRUE
    BY <1>3, ReconciledKeeps
  <2>2. StoredToken(c) = IF c.type = hosts[i].type THEN {hosts[i].token} ELSE {}
    BY StoredIsFound
  <2> HIDE DEF g
  <2>3. g.token = IF g.type = hosts[i].type THEN hosts[i].token ELSE NoToken
    BY <1>1, <2>1, <2>2
  <2> QED BY <2>3
<1> HIDE DEF g
<1>4. g.id = hosts[i].id /\ g.machine = hosts[i].machine
      /\ IF g.type = hosts[i].type THEN g.token \in {hosts[i].token, Own(g)}
                                   ELSE g.token \in {NoToken, Own(g)}
  BY <1>1, <1>2, <1>3
<1> QED BY <1>4 DEF Explained, g

LEMMA NewIsExplained ==
  ASSUME NEW c, c.id \notin IdsOf(hosts), c.token \in {Kept, Own(c)}, c.on => c.token # Kept
  PROVE  Explained(Reconciled(c), hosts)
<1> DEFINE g == Reconciled(c)
<1>1. g.id = c.id /\ g.on = c.on /\ Own(g) = Own(c)
  BY ReconciledKeeps
<1>2. c.token # Kept => g.token = Own(g)
  BY <1>1, ReconciledKeeps
<1> HIDE DEF g
<1>3. g.on => g.token = Own(g)
  BY <1>1, <1>2
<1> QED BY <1>1, <1>3 DEF Explained, g

LEMMA BareIsRecognised ==
  ASSUME hosts \in Seq(Entry), NEW c, c.id = NoId, c.token \in {Kept, Own(c)}
  PROVE  Recognised(Reconciled(c), hosts)
<1> DEFINE g == Reconciled(c)
<1>1. g.type = c.type /\ g.name = c.name /\ Own(g) = Own(c)
  BY ReconciledKeeps
<1> SUFFICES ASSUME NEW i \in DOMAIN hosts, AloneIn(i, hosts),
                    hosts[i].type = g.type, hosts[i].name = g.name
             PROVE  g.token \in {hosts[i].token, Own(g)}
  BY DEF Recognised
<1>2. CASE c.token # Kept
  BY <1>1, <1>2, ReconciledKeeps
<1>3. CASE c.token = Kept
  <2>1. hosts[i].type = c.type /\ hosts[i].name = c.name
    BY <1>1
  <2>2. ById(c) = {}
    BY DEF ById
  <2>3. ByName(c) = {hosts[i]}
    <3> DEFINE at == {k \in DOMAIN hosts : hosts[k].type = c.type /\ hosts[k].name = c.name}
    <3>1. at = {i}
      BY <2>1 DEF AloneIn
    <3>2. i <= i
      BY LenProperties
    <3>3. {k \in at : \A m \in at : m <= k} = {i}
      BY <3>1, <3>2
    <3> QED BY <3>3 DEF ByName
  <2>4. StoredToken(c) = {hosts[i].token}
    BY <2>1, <2>2, <2>3 DEF FindHost, StoredToken
  <2>5. g.token = hosts[i].token
    BY <1>3, <2>4, ReconciledKeeps
  <2> QED BY <2>5
<1> QED BY <1>2, <1>3

\* The page of the list in force, and how it is sent back.
LEMMA PageParts ==
  ASSUME hosts \in Seq(Entry), UniqueIds(hosts),
         NEW form \in Forms(Masked(hosts)), form \in Seq(Entry), Complete(form, Masked(hosts))
  PROVE  /\ UniqueIds(form)
         /\ \A j \in DOMAIN form :
              /\ form[j].token \in {Kept, Own(form[j])}
              /\ \/ \E i \in DOMAIN hosts : /\ form[j].id = hosts[i].id
                                            /\ form[j].machine = hosts[i].machine
                 \/ form[j].id \notin IdsOf(hosts) /\ (form[j].on => form[j].token # Kept)
<1> DEFINE loaded == Masked(hosts)
<1>1. loaded \in Seq(Entry) /\ DOMAIN loaded = DOMAIN hosts
  BY MaskedIsList DEF Masked
<1>2. \A i \in DOMAIN hosts : /\ loaded[i].id = hosts[i].id
                              /\ loaded[i].machine = hosts[i].machine
                              /\ loaded[i].token = Kept
  BY DEF Masked, WithToken
<1>3. IdsOf(loaded) = IdsOf(hosts)
  BY <1>1, <1>2 DEF IdsOf
<1>4. UniqueIds(loaded)
  BY <1>1, <1>2 DEF UniqueIds
<1> HIDE DEF loaded
<1>5. /\ UniqueIds(form)
      /\ \A j \in DOMAIN form :
           \/ \E i \in DOMAIN loaded : CardOf(form[j], loaded[i])
           \/ form[j].id \notin IdsOf(loaded) /\ form[j].token \in {Kept, Own(form[j])}
  BY <1>1, <1>4, FormParts DEF loaded
<1>6. \A j \in DOMAIN form : form[j].on /\ form[j].token = Kept => form[j].id \in IdsOf(loaded)
  BY DEF Complete, loaded
<1> QED BY <1>1, <1>2, <1>3, <1>5, <1>6 DEF CardOf

\* An entry under its own id is itself.
LEMMA OwnId ==
  ASSUME NEW e \in Entry PROVE WithId(e, e.id) = e
BY DEF WithId, Entry

\* The other parts of an entry do not change with its id.
LEMMA OtherParts ==
  ASSUME NEW e, NEW id
  PROVE  LET g == WithId(e, id) IN
           /\ g.id = id /\ g.machine = e.machine /\ g.type = e.type /\ g.name = e.name
           /\ g.on = e.on /\ g.token = e.token /\ Own(g) = Own(e)
BY DEF WithId, Own

\* A list is taken up: nothing has been changed about it yet.
LEMMA BeginDraft ==
  ASSUME NEW list \in Seq(Entry), NEW from, BeginAssign(list, from)
  PROVE  DraftInv'
<1>1. \A j \in DOMAIN list : list[j] = WithId(list[j], list[j].id)
  BY ElementOfList, OwnId
<1> QED BY <1>1 DEF DraftInv, BeginAssign

\* A page is sent back.
LEMMA SaveStep ==
  ASSUME IInv, NEW t \in Tabs, Save(t)
  PROVE  SaveInv' /\ DraftInv'
<1>1. hosts \in Seq(Entry) /\ UniqueIds(hosts)
  BY DEF IInv, TypeOK, KeysAreUnique
<1>2. PICK form \in Forms(pages[t]), b \in BOOLEAN :
        /\ form \in Seq(Entry) /\ Complete(form, pages[t])
        /\ BeginAssign(Merged(IF b THEN WithoutIds(form) ELSE form), "save")
        /\ bare' = b
  BY DEF Save
<1>3. hosts' = hosts /\ timely' = (pages[t] = Masked(hosts))
  BY DEF Save
<1> DEFINE sent == IF b THEN WithoutIds(form) ELSE form
<1>4. sent \in Seq(Entry) /\ Merged(sent) \in Seq(Entry)
  BY <1>2, WithoutIdsIsList, MergedIsList DEF IInv
<1>5. DraftInv'
  BY <1>2, <1>4, BeginDraft
<1>6. given' = Merged(sent) /\ DOMAIN Merged(sent) = DOMAIN sent
      /\ \A j \in DOMAIN sent : Merged(sent)[j] = Reconciled(sent[j])
  BY <1>2 DEF BeginAssign, Merged
<1>7. ASSUME pages[t] = Masked(hosts)
      PROVE  IF b THEN \A j \in DOMAIN given' : Recognised(given'[j], hosts)
             ELSE UniqueIds(given') /\ \A j \in DOMAIN given' : Explained(given'[j], hosts)
  <2>1. /\ UniqueIds(form)
        /\ \A j \in DOMAIN form :
             /\ form[j].token \in {Kept, Own(form[j])}
             /\ \/ \E i \in DOMAIN hosts : /\ form[j].id = hosts[i].id
                                           /\ form[j].machine = hosts[i].machine
                \/ form[j].id \notin IdsOf(hosts) /\ (form[j].on => form[j].token # Kept)
    BY <1>1, <1>2, <1>7, PageParts
  <2>2. CASE b
    <3>1. DOMAIN sent = DOMAIN form /\ \A j \in DOMAIN form : sent[j] = WithId(form[j], NoId)
      BY <2>2 DEF WithoutIds
    <3> HIDE DEF sent
    <3>2. ASSUME NEW j \in DOMAIN given' PROVE Recognised(given'[j], hosts)
      <4>1. j \in DOMAIN form /\ given'[j] = Reconciled(sent[j]) /\ sent[j] = WithId(form[j], NoId)
        BY <1>6, <3>1
      <4>2. sent[j].id = NoId /\ sent[j].token = form[j].token /\ Own(sent[j]) = Own(form[j])
        BY <4>1, OtherParts
      <4>3. sent[j].token \in {Kept, Own(sent[j])}
        BY <2>1, <4>1, <4>2
      <4> QED BY <1>1, <4>1, <4>2, <4>3, BareIsRecognised
    <3> QED BY <2>2, <3>2
  <2>3. CASE ~b
    <3>1. sent = form
      BY <2>3
    <3> HIDE DEF sent
    <3>2. \A j \in DOMAIN form : given'[j] = Reconciled(form[j]) /\ given'[j].id = form[j].id
      BY <1>6, <3>1, ReconciledKeeps
    <3>3. DOMAIN given' = DOMAIN form
      BY <1>6, <3>1
    <3>4. UniqueIds(given')
      BY <2>1, <3>2, <3>3 DEF UniqueIds
    <3>5. ASSUME NEW j \in DOMAIN form PROVE Explained(given'[j], hosts)
      BY <1>1, <2>1, <3>2, KnownIsExplained, NewIsExplained
    <3> QED BY <2>3, <3>3, <3>4, <3>5
  <2> QED BY <2>2, <2>3
<1>8. SaveInv'
  BY <1>2, <1>3, <1>7 DEF SaveInv
<1> QED BY <1>5, <1>8

LEMMA SavesNext ==
  ASSUME IInv, SaveInv, DraftInv, [Next]_vars
  PROVE  SaveInv' /\ DraftInv'
<1>0. file \in Seq(Entry)
  BY DEF IInv, TypeOK
<1>1. ASSUME NEW t \in Tabs, Save(t) PROVE SaveInv' /\ DraftInv'
  BY <1>1, SaveStep
<1>2. ASSUME NEW list \in Written, Import(list) PROVE SaveInv' /\ DraftInv'
  <2>1. list \in Seq(Entry)
    BY ConfigAssumption
  <2>2. BeginAssign(list, "import") /\ origin' = "import"
    BY <1>2 DEF Import, BeginAssign
  <2> QED BY <2>1, <2>2, BeginDraft DEF SaveInv
<1>3. ASSUME Start PROVE SaveInv' /\ DraftInv'
  <2>1. BeginAssign(file, "load") /\ origin' = "load"
    BY <1>3 DEF Start, BeginAssign
  <2> QED BY <1>0, <2>1, BeginDraft DEF SaveInv
<1>4. CASE UNCHANGED <<phase, hosts, origin, timely, bare, given, draft>>
  BY <1>4 DEF SaveInv, DraftInv
<1>5. CASE Assign
  <2>1. UNCHANGED <<phase, hosts, origin, timely, bare, given>>
        /\ draft' = [draft EXCEPT ![next] = WithId(draft[next], Candidate)]
    BY <1>5 DEF Assign, request
  <2>2. next \in DOMAIN draft /\ draft[next] = given[next] /\ phase = "assigning"
    BY <1>5, AtNext DEF Assign
  <2>3. draft'[next] = WithId(given[next], Candidate)
    BY <2>1, <2>2
  <2>4. draft'[next] = WithId(given[next], draft'[next].id)
    BY <2>3, OtherParts
  <2>5. ASSUME NEW j \in DOMAIN draft', j # next PROVE draft'[j] = WithId(given'[j], draft'[j].id)
    BY <2>1, <2>2, <2>5 DEF DraftInv
  <2>6. DraftInv'
    BY <2>1, <2>4, <2>5 DEF DraftInv
  <2> QED BY <2>1, <2>6 DEF SaveInv
<1>6. CASE phase' # "assigning"
  BY <1>6 DEF SaveInv, DraftInv
<1>7. Keep \/ TryNext \/ UNCHANGED vars \/ (\E t \in Tabs : LoadPage(t))
      \/ (\E list \in Written : WriteByHand(list))
        => UNCHANGED <<phase, hosts, origin, timely, bare, given, draft>>
  BY DEF Keep, TryNext, LoadPage, WriteByHand, vars, request, loop
<1>8. Commit \/ WriteFails \/ Crash => phase' # "assigning"
  BY DEF Commit, WriteFails, Crash
<1> QED BY <1>1, <1>2, <1>3, <1>4, <1>5, <1>6, <1>7, <1>8 DEF Next

LEMMA SavesCorrect == Spec => [](SaveInv /\ DraftInv)
<1>1. Init => SaveInv /\ DraftInv
  BY DEF Init, SaveInv, DraftInv
<1>2. IInv /\ SaveInv /\ DraftInv /\ [Next]_vars => (SaveInv /\ DraftInv)'
  BY SavesNext
<1> QED BY <1>1, <1>2, Invariance, PTL DEF Spec

\* Only a commit puts another list into force.
LEMMA OnlyCommits ==
  ASSUME [Next]_vars, hosts' # hosts PROVE Commit
BY DEF Next, Save, LoadPage, Import, WriteByHand, Start, Keep, TryNext, Assign, WriteFails,
       Crash, vars

\* What comes into force is what was submitted; the ids too, if the page sent them.
LEMMA Committed ==
  ASSUME IInv, SaveInv, DraftInv, Commit, origin = "save", timely
  PROVE  /\ hosts' = draft /\ DOMAIN draft = DOMAIN given
         /\ \A j \in DOMAIN draft :
              /\ draft[j].machine = given[j].machine /\ draft[j].type = given[j].type
              /\ draft[j].name = given[j].name /\ draft[j].on = given[j].on
              /\ draft[j].token = given[j].token /\ Own(draft[j]) = Own(given[j])
         /\ ~bare => \A j \in DOMAIN draft : draft[j].id = given[j].id
         /\ IF bare THEN \A j \in DOMAIN given : Recognised(given[j], hosts)
            ELSE \A j \in DOMAIN given : Explained(given[j], hosts)
<1>1. hosts' = draft /\ phase = "assigning"
  BY DEF Commit
<1>2. Len(draft) \in Nat /\ DOMAIN draft = 1..Len(draft)
      /\ DOMAIN given = 1..Len(given) /\ Len(given) = Len(draft)
  BY <1>1, LenProperties DEF IInv, TypeOK, LoopInv
<1>3. \A j \in DOMAIN draft : draft[j] = WithId(given[j], draft[j].id)
  BY <1>1 DEF DraftInv
<1>4. ASSUME NEW j \in DOMAIN draft
      PROVE  /\ draft[j].machine = given[j].machine /\ draft[j].type = given[j].type
             /\ draft[j].name = given[j].name /\ draft[j].on = given[j].on
             /\ draft[j].token = given[j].token /\ Own(draft[j]) = Own(given[j])
  <2> DEFINE g == WithId(given[j], draft[j].id)
  <2>1. draft[j] = g
    BY <1>3
  <2>2. /\ g.machine = given[j].machine /\ g.type = given[j].type /\ g.name = given[j].name
        /\ g.on = given[j].on /\ g.token = given[j].token /\ Own(g) = Own(given[j])
    BY OtherParts
  <2> HIDE DEF g
  <2> QED BY <2>1, <2>2
<1>5. ASSUME ~bare, NEW j \in DOMAIN draft PROVE draft[j].id = given[j].id
  <2>1. UniqueIds(given)
    BY <1>1, <1>5 DEF SaveInv
  <2>2. \A k \in 1..(j - 1) : k \in DOMAIN given /\ k # j
    BY <1>2
  <2>3. given[j].id # NoId /\ \A k \in 1..(j - 1) : given[k].id # given[j].id
    BY <1>2, <2>1, <2>2 DEF UniqueIds
  <2> QED BY <1>1, <2>3 DEF IInv, FirstHolderKeeps
<1>6. IF bare THEN \A j \in DOMAIN given : Recognised(given[j], hosts)
      ELSE \A j \in DOMAIN given : Explained(given[j], hosts)
  BY <1>1 DEF SaveInv
<1> QED BY <1>1, <1>2, <1>4, <1>5, <1>6

\* The entries in force by their ids.
LEMMA InForce ==
  ASSUME IInv, NEW i \in DOMAIN hosts
  PROVE  /\ hosts[i].id \in IdsOf(hosts)
         /\ \A k \in DOMAIN hosts : hosts[k].id = hosts[i].id => k = i
BY DEF IInv, KeysAreUnique, UniqueIds, IdsOf

-----------------------------------------------------------------------------
\* A timely save hands no id, and with it no latch, to another machine, for pages of any
\* length and whatever else was saved, imported and lost before (app.js:564-582).
THEOREM IdsStayCorrect == Spec => IdsStay
<1>1. IInv /\ SaveInv /\ DraftInv /\ [Next]_vars =>
        [(origin = "save" /\ timely /\ ~bare) =>
           \A i \in DOMAIN hosts, j \in DOMAIN hosts' :
             hosts[i].id = hosts'[j].id => hosts[i].machine = hosts'[j].machine]_hosts
  <2> SUFFICES ASSUME IInv, SaveInv, DraftInv, [Next]_vars, hosts' # hosts,
                      origin = "save", timely, ~bare,
                      NEW i \in DOMAIN hosts, NEW j \in DOMAIN hosts',
                      hosts[i].id = hosts'[j].id
               PROVE  hosts[i].machine = hosts'[j].machine
    OBVIOUS
  <2>1. Commit
    BY OnlyCommits
  <2>2. /\ hosts'[j].id = given[j].id /\ hosts'[j].machine = given[j].machine
        /\ Explained(given[j], hosts)
    BY <2>1, Committed
  <2> QED BY <2>2, InForce DEF Explained
<1> QED BY <1>1, Invariance, SavesCorrect, PTL DEF Spec, IdsStay

\* A timely save gives no enabled entry a token made elsewhere (main.py:501-509).
THEOREM TokensStayCorrect == Spec => TokensStay
<1>1. IInv /\ SaveInv /\ DraftInv /\ [Next]_vars =>
        [(origin = "save" /\ timely /\ ~bare) =>
           \A j \in DOMAIN hosts' :
             \/ ~hosts'[j].on
             \/ hosts'[j].token \in {NoToken, Own(hosts'[j])}
             \/ \E i \in DOMAIN hosts :
                  /\ hosts[i].machine = hosts'[j].machine /\ hosts[i].type = hosts'[j].type
                  /\ hosts[i].token = hosts'[j].token]_hosts
  <2> SUFFICES ASSUME IInv, SaveInv, DraftInv, [Next]_vars, hosts' # hosts,
                      origin = "save", timely, ~bare,
                      NEW j \in DOMAIN hosts', hosts'[j].on,
                      hosts'[j].token \notin {NoToken, Own(hosts'[j])}
               PROVE  \E i \in DOMAIN hosts :
                        /\ hosts[i].machine = hosts'[j].machine
                        /\ hosts[i].type = hosts'[j].type
                        /\ hosts[i].token = hosts'[j].token
    OBVIOUS
  <2>1. Commit
    BY OnlyCommits
  <2>2. /\ hosts'[j].machine = given[j].machine /\ hosts'[j].type = given[j].type
        /\ hosts'[j].on = given[j].on /\ hosts'[j].token = given[j].token
        /\ Own(hosts'[j]) = Own(given[j]) /\ Explained(given[j], hosts)
    BY <2>1, Committed
  <2> QED BY <2>2 DEF Explained
<1> QED BY <1>1, Invariance, SavesCorrect, PTL DEF Spec, TokensStay

\* A timely save loses no stored token of an entry that keeps its product, renamed or not,
\* nor from a page without ids if its name is kept too (main.py:479-490).
THEOREM TokensAreKeptCorrect == Spec => TokensAreKept
<1>1. IInv /\ SaveInv /\ DraftInv /\ [Next]_vars =>
        [(origin = "save" /\ timely) =>
           \A i \in DOMAIN hosts, j \in DOMAIN hosts' :
             (/\ hosts[i].machine = hosts'[j].machine /\ hosts[i].type = hosts'[j].type
              /\ \/ ~bare /\ hosts[i].id = hosts'[j].id
                 \/ bare /\ hosts[i].name = hosts'[j].name /\ Alone(i))
             => hosts'[j].token \in {hosts[i].token, Own(hosts'[j])}]_hosts
  <2> SUFFICES ASSUME IInv, SaveInv, DraftInv, [Next]_vars, hosts' # hosts,
                      origin = "save", timely,
                      NEW i \in DOMAIN hosts, NEW j \in DOMAIN hosts',
                      hosts[i].type = hosts'[j].type,
                      \/ ~bare /\ hosts[i].id = hosts'[j].id
                      \/ bare /\ hosts[i].name = hosts'[j].name /\ Alone(i)
               PROVE  hosts'[j].token \in {hosts[i].token, Own(hosts'[j])}
    OBVIOUS
  <2>1. Commit
    BY OnlyCommits
  <2>2. /\ hosts'[j].type = given[j].type /\ hosts'[j].name = given[j].name
        /\ hosts'[j].token = given[j].token /\ Own(hosts'[j]) = Own(given[j])
        /\ j \in DOMAIN given
    BY <2>1, Committed
  <2>3. CASE bare
    <3>1. Recognised(given[j], hosts)
      BY <2>1, <2>2, <2>3, Committed
    <3>2. AloneIn(i, hosts)
      BY <2>3 DEF Alone, AloneIn
    <3> QED BY <2>2, <2>3, <3>1, <3>2 DEF Recognised
  <2>4. CASE ~bare
    <3>1. Explained(given[j], hosts) /\ given[j].id = hosts[i].id
      BY <2>1, <2>2, <2>4, Committed
    <3> QED BY <2>2, <3>1, InForce DEF Explained
  <2> QED BY <2>3, <2>4
<1> QED BY <1>1, Invariance, SavesCorrect, PTL DEF Spec, TokensAreKept
=============================================================================
