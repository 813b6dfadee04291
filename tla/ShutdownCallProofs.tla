------------------------- MODULE ShutdownCallProofs -------------------------
(***************************************************************************)
(* What ShutdownCall does for any entries, layouts and times.  The         *)
(* inductive invariant says what the request of a call has done, which     *)
(* refusals brought it to its second form, and how its time adds up.       *)
(***************************************************************************)
EXTENDS ShutdownCall, FiniteSetTheorems, TLAPS

\* The segment of the n-th attempt, and whether the machine refuses it for good.
NodeAt(e, n) == IF local[e] <=> n = 1 THEN Localhost ELSE host[e].node
Barred(e, n) ==
    \/ NodeAt(e, n) = Bad
    \/ /\ host[e].paths \cap {"/", "all"} = {}
       /\ ~("own" \in host[e].paths /\ NodeAt(e, n) = host[e].node)

Target(e, n) == IF NodeAt(e, n) = Localhost THEN Behind[host[e].url] ELSE NodeAt(e, n)

\* Only an accepted request commands a machine, and that is one it names; unless an error
\* answered a command that was carried out, the one of the attempt the call is at.
HitInv ==
    \A e \in Entries :
        /\ hit[e] \subseteq {Target(e, 1), Target(e, 2)}
        /\ masked[e] => excused[e]
        /\ ~masked[e] =>
             hit[e] = IF request[e] = "accepted" THEN {Target(e, form[e])} ELSE {}

\* Without an excuse, what was refused is barred, and the first form before the second.
RefusalInv ==
    \A e \in Entries :
        /\ host[e].type = "pbs" => host[e].node = Localhost
        /\ phase[e] # "idle" => form[e] <= Last(e)
        /\ (phase[e] # "idle" /\ ~excused[e]) =>
             /\ request[e] = "refused" => Barred(e, form[e])
             /\ form[e] = 2 => Barred(e, 1)
             /\ phase[e] = "failed" => request[e] = "refused" /\ form[e] = Last(e)
             /\ phase[e] = "sent" => request[e] = "accepted"
             /\ phase[e] # "cut"

\* Unless an attempt outlasted its share, the time spent is that of the attempts.
TimeInv ==
    \A e \in Entries :
        /\ (phase[e] = "busy" /\ ~overran[e]) =>
             /\ age[e] <= Share(e)
             /\ spent[e] <= IF form[e] = 1 THEN age[e] ELSE Share(e) + age[e]
        /\ phase[e] = "cut" => overran[e]

IInv == TypeOK /\ HitInv /\ RefusalInv /\ TimeInv

-----------------------------------------------------------------------------
LEMMA ShareFits ==
  ASSUME TypeOK, NEW e \in Entries
  PROVE  /\ Share(e) \in Nat /\ Share(e) <= Timeout
         /\ Last(e) = 2 => 2 * Share(e) <= Timeout
         /\ Last(e) \in {1, 2}
<1>1. CASE Last(e) = 1
  BY <1>1, CallAssumption DEF Share
<1>2. CASE Last(e) = 2
  BY <1>2, CallAssumption DEF Share
<1> QED BY <1>1, <1>2 DEF Last

LEMMA Initial == Init => IInv
<1> SUFFICES ASSUME Init PROVE IInv
  OBVIOUS
<1> USE CallAssumption
<1>1. TypeOK
  BY DEF Init, TypeOK
<1>2. HitInv /\ TimeInv
  BY DEF Init, HitInv, TimeInv
<1>3. RefusalInv
  BY DEF Init, RefusalInv
<1> QED BY <1>1, <1>2, <1>3 DEF IInv

LEMMA Types == ASSUME IInv, Next PROVE TypeOK'
<1> USE CallAssumption DEF IInv, TypeOK, call, client
<1>1. ASSUME NEW e \in Entries, Served(e) PROVE TypeOK'
  <2>1. CASE Accept(e)
    <3>1. PICK m \in Machines : hit' = [hit EXCEPT ![e] = @ \cup {m}]
      BY <2>1 DEF Accept
    <3> QED BY <2>1, <3>1 DEF Accept
  <2>2. CASE Refuse(e)
    BY <2>2 DEF Refuse
  <2>3. CASE Fault(e)
    BY <2>3 DEF Fault
  <2> QED BY <1>1, <2>1, <2>2, <2>3 DEF Served
<1>2. ASSUME NEW e \in Entries, Begin(e) PROVE TypeOK'
  <2>1. IsUnique(e) \in BOOLEAN /\ hosts[e] \in HostConfig
    BY DEF IsUnique
  <2> QED BY <1>2, <2>1 DEF Begin
<1>3. ASSUME NEW e \in Entries, Tick(e) PROVE TypeOK'
  BY <1>3 DEF Tick
<1>4. ASSUME NEW e \in Entries, Succeed(e) PROVE TypeOK'
  BY <1>4 DEF Succeed, End
<1>5. ASSUME NEW e \in Entries, AfterRefusal(e) PROVE TypeOK'
  <2>1. CASE TryOther(e)
    BY <1>5, <2>1 DEF AfterRefusal, TryOther
  <2>2. CASE End(e, "failed") /\ UNCHANGED <<form, request>>
    BY <1>5, <2>2 DEF AfterRefusal, End
  <2> QED BY <1>5, <2>1, <2>2 DEF AfterRefusal
<1>6. ASSUME NEW e \in Entries, Raise(e) PROVE TypeOK'
  BY <1>6 DEF Raise, AfterSilence, End
<1>7. ASSUME NEW e \in Entries, Cut(e) PROVE TypeOK'
  BY <1>7 DEF Cut, End
<1>8. ASSUME NEW m \in Machines, GoDown(m) PROVE TypeOK'
  BY <1>8 DEF GoDown
<1>9. ASSUME NEW new \in Configs, Save(new) PROVE TypeOK'
  BY <1>9 DEF Save
<1> QED BY <1>1, <1>2, <1>3, <1>4, <1>5, <1>6, <1>7, <1>8, <1>9 DEF Next, Called

LEMMA Hits == ASSUME IInv, Next PROVE HitInv'
<1> USE CallAssumption DEF IInv, TypeOK, call, client, HitInv, Target, NodeAt
<1>1. ASSUME NEW e \in Entries, Accept(e) PROVE HitInv'
  <2>1. PICK m \in Machines : Reaches(e, m) /\ hit' = [hit EXCEPT ![e] = @ \cup {m}]
    BY <1>1 DEF Accept
  <2>2. m = Target(e, form[e]) /\ form[e] \in {1, 2}
    BY <2>1 DEF Reaches, Node
  <2>3. \A d \in Entries, n \in {1, 2} : Target(d, n)' = Target(d, n)
    BY <1>1 DEF Accept
  <2>4. /\ ~masked[e] => hit[e] = {}
        /\ request' = [request EXCEPT ![e] = "accepted"]
        /\ UNCHANGED <<form, masked, excused>>
    BY <1>1 DEF Accept
  <2>5. \A d \in Entries : hit'[d] = IF d = e THEN hit[e] \cup {Target(e, form[e])} ELSE hit[d]
    BY <2>1, <2>2
  <2> HIDE DEF Target
  <2>6. \A d \in Entries : hit'[d] \subseteq {Target(d, 1)', Target(d, 2)'}
    BY <2>2, <2>3, <2>5
  <2>7. \A d \in Entries : ~masked'[d] =>
          hit'[d] = IF request'[d] = "accepted" THEN {Target(d, form[d])} ELSE {}
    BY <2>4, <2>5
  <2>8. \A d \in Entries : Target(d, form[d])' = Target(d, form[d])
    BY <1>1 DEF Accept, Target
  <2> QED BY <2>4, <2>6, <2>7, <2>8
<1>2. ASSUME NEW e \in Entries, Refuse(e) PROVE HitInv'
  <2>1. \A d \in Entries, n \in {1, 2} : Target(d, n)' = Target(d, n)
    BY <1>2 DEF Refuse
  <2>2. /\ ~masked[e] => hit[e] = {}
        /\ UNCHANGED <<hit, form, masked, excused>>
        /\ request' = [request EXCEPT ![e] = "refused"]
    BY <1>2 DEF Refuse
  <2> HIDE DEF Target
  <2> QED BY <2>1, <2>2
<1>3. ASSUME NEW e \in Entries, Fault(e) PROVE HitInv'
  <2>1. \A d \in Entries, n \in {1, 2} : Target(d, n)' = Target(d, n)
    BY <1>3 DEF Fault
  <2>2. /\ masked' = [masked EXCEPT ![e] = @ \/ request[e] = "accepted"]
        /\ ~masked'[e] => hit[e] = {} /\ ~masked[e]
        /\ UNCHANGED <<hit, form>>
        /\ request' = [request EXCEPT ![e] = "refused"]
        /\ excused' = [excused EXCEPT ![e] = TRUE]
    BY <1>3 DEF Fault
  <2> HIDE DEF Target
  <2> QED BY <2>1, <2>2
<1>4. ASSUME NEW e \in Entries, Begin(e) PROVE HitInv'
  <2>1. \A d \in Entries \ {e}, n \in {1, 2} : Target(d, n)' = Target(d, n)
    BY <1>4 DEF Begin
  <2>2. /\ hit' = [hit EXCEPT ![e] = {}] /\ masked' = [masked EXCEPT ![e] = FALSE]
        /\ form' = [form EXCEPT ![e] = 1] /\ request' = [request EXCEPT ![e] = "sent"]
        /\ excused' = [excused EXCEPT ![e] = FALSE]
    BY <1>4 DEF Begin
  <2> HIDE DEF Target
  <2> QED BY <2>1, <2>2
<1>5. ASSUME NEW e \in Entries, Tick(e) \/ Succeed(e) \/ Raise(e) \/ Cut(e) PROVE HitInv'
  <2>1. \A d \in Entries, n \in {1, 2} : Target(d, n)' = Target(d, n)
    BY <1>5 DEF Tick, Succeed, Raise, Cut
  <2>2. /\ UNCHANGED <<hit, form, masked, request>>
        /\ UNCHANGED excused \/ excused' = [excused EXCEPT ![e] = TRUE]
    BY <1>5 DEF Tick, Succeed, Raise, Cut, AfterSilence
  <2> HIDE DEF Target
  <2> QED BY <2>1, <2>2
<1>6. ASSUME NEW e \in Entries, AfterRefusal(e) PROVE HitInv'
  BY <1>6 DEF AfterRefusal, TryOther
<1>7. ASSUME NEW m \in Machines, GoDown(m) PROVE HitInv'
  BY <1>7 DEF GoDown
<1>8. ASSUME NEW new \in Configs, Save(new) PROVE HitInv'
  BY <1>8 DEF Save
<1> QED BY <1>1, <1>2, <1>3, <1>4, <1>5, <1>6, <1>7, <1>8 DEF Next, Called, Served

LEMMA Refusals == ASSUME IInv, Next PROVE RefusalInv'
<1> USE CallAssumption DEF IInv, TypeOK, call, client, RefusalInv, Barred, NodeAt, Last
<1>1. ASSUME NEW e \in Entries, Accept(e) PROVE RefusalInv'
  BY <1>1 DEF Accept
<1>2. ASSUME NEW e \in Entries, Refuse(e) PROVE RefusalInv'
  BY <1>2 DEF Refuse, Privileged, Node
<1>3. ASSUME NEW e \in Entries, Fault(e) PROVE RefusalInv'
  BY <1>3 DEF Fault
<1>4. ASSUME NEW e \in Entries, Begin(e) PROVE RefusalInv'
  BY <1>4 DEF Begin
<1>5. ASSUME NEW e \in Entries, Tick(e) PROVE RefusalInv'
  BY <1>5 DEF Tick
<1>6. ASSUME NEW e \in Entries, Succeed(e) PROVE RefusalInv'
  BY <1>6 DEF Succeed, End
<1>7. ASSUME NEW e \in Entries, Raise(e) \/ Cut(e) PROVE RefusalInv'
  BY <1>7 DEF Raise, AfterSilence, Cut, End
<1>8. ASSUME NEW e \in Entries, AfterRefusal(e) PROVE RefusalInv'
  BY <1>8 DEF AfterRefusal, TryOther, End
<1>9. ASSUME NEW m \in Machines, GoDown(m) PROVE RefusalInv'
  BY <1>9 DEF GoDown
<1>10. ASSUME NEW new \in Configs, Save(new) PROVE RefusalInv'
  BY <1>10 DEF Save
<1> QED BY <1>1, <1>2, <1>3, <1>4, <1>5, <1>6, <1>7, <1>8, <1>9, <1>10 DEF Next, Called, Served

LEMMA Times == ASSUME IInv, Next PROVE TimeInv'
<1> USE CallAssumption DEF IInv, TypeOK, call, client, TimeInv
<1>1. ASSUME NEW e \in Entries, Served(e) PROVE TimeInv'
  BY <1>1 DEF Served, Accept, Refuse, Fault, Share, Last
<1>2. ASSUME NEW e \in Entries, Begin(e) PROVE TimeInv'
  <2>1. Last(e)' \in {1, 2}
    BY DEF Last
  <2>2. Share(e)' \in Nat
    BY <2>1 DEF Share
  <2> QED BY <1>2, <2>2 DEF Begin, Share, Last
<1>3. ASSUME NEW e \in Entries, Tick(e) PROVE TimeInv'
  <2>1. Share(e) \in Nat
    BY ShareFits
  <2> QED BY <1>3, <2>1 DEF Tick, Share, Last
<1>4. ASSUME NEW e \in Entries, Succeed(e) \/ Raise(e) PROVE TimeInv'
  BY <1>4 DEF Succeed, Raise, AfterSilence, End, Share, Last
<1>5. ASSUME NEW e \in Entries, Cut(e) PROVE TimeInv'
  <2>1. overran[e]
    <3>1. /\ Share(e) \in Nat /\ Share(e) <= Timeout
          /\ form[e] = 2 => 2 * Share(e) <= Timeout
      BY <1>5, ShareFits DEF Cut, RefusalInv
    <3>2. spent[e] > Timeout
      BY <1>5 DEF Cut, Deadline
    <3> QED BY <1>5, <3>1, <3>2 DEF Cut
  <2> QED BY <1>5, <2>1 DEF Cut, End, Share, Last
<1>6. ASSUME NEW e \in Entries, AfterRefusal(e) PROVE TimeInv'
  <2>1. Share(e) \in Nat
    BY ShareFits
  <2> QED BY <1>6, <2>1 DEF AfterRefusal, TryOther, End, Share, Last, RefusalInv
<1>7. ASSUME NEW m \in Machines, GoDown(m) PROVE TimeInv'
  BY <1>7 DEF GoDown, Share, Last
<1>8. ASSUME NEW new \in Configs, Save(new) PROVE TimeInv'
  BY <1>8 DEF Save, Share, Last
<1> QED BY <1>1, <1>2, <1>3, <1>4, <1>5, <1>6, <1>7, <1>8 DEF Next, Called

\* The inductive invariant.
LEMMA Invariance == Spec => []IInv
<1>1. ASSUME IInv, [Next]_vars PROVE IInv'
  <2>1. CASE Next
    BY <1>1, <2>1, Types, Hits, Refusals, Times DEF IInv
  <2>2. CASE UNCHANGED vars
    BY <1>1, <2>2 DEF vars, call, client, IInv, TypeOK, HitInv, RefusalInv, TimeInv, Target,
       NodeAt, Barred, Last, Share
  <2> QED BY <1>1, <2>1, <2>2
<1> QED BY Initial, <1>1, PTL DEF Spec

-----------------------------------------------------------------------------
\* In every reachable state the variables have their types, for any entries and layouts.
THEOREM TypeCorrect == Spec => []TypeOK
BY Invariance, PTL DEF IInv

\* A call shuts down one machine at most, whatever answers are lost or late and whichever
\* machines its two forms name.  The one way to two is a command carried out and answered
\* with an error, of an entry that names another machine than the one behind its URL
\* (proxmox.py:242-281).
THEOREM OneMachineCorrect == Spec => []OneMachinePerCall
<1>1. IInv => OneMachinePerCall
  <2> SUFFICES ASSUME IInv, NEW e \in Entries,
                      ~(masked[e] /\ host[e].node \in Machines \ {Behind[host[e].url]})
               PROVE  Cardinality(hit[e]) <= 1
    BY DEF OneMachinePerCall
  <2> DEFINE b == Behind[host[e].url]
  <2>1. /\ host[e].node \in Machines \cup {Bad, Localhost}
        /\ hit[e] \subseteq Machines /\ b \in Machines /\ form[e] \in {1, 2}
    BY CallAssumption DEF IInv, TypeOK, HostConfig
  <2>2. hit[e] = {} \/ \E m : hit[e] = {m}
    <3>1. CASE ~masked[e]
      BY <3>1 DEF IInv, HitInv
    <3>2. CASE host[e].node \notin Machines \ {b}
      <4>1. \A n \in {1, 2} : Target(e, n) \in {b, Bad}
        BY <2>1, <3>2 DEF Target, NodeAt
      <4>2. hit[e] \subseteq {b}
        BY <2>1, <4>1, CallAssumption DEF IInv, HitInv
      <4> QED BY <4>2
    <3> QED BY <3>1, <3>2
  <2>3. \A m : Cardinality({m}) = 1
    BY FS_Singleton
  <2>4. CASE hit[e] = {}
    BY <2>4, FS_EmptySet
  <2>5. CASE \E m : hit[e] = {m}
    BY <2>3, <2>5
  <2> QED BY <2>2, <2>4, <2>5
<1> QED BY <1>1, Invariance, PTL

\* The deadline cuts a call off only if an attempt outlasted its share, for any timeout and
\* any grace (targets.py:27-30, proxmox.py:252-258).
THEOREM BackstopCorrect == Spec => []DeadlineIsBackstop
<1>1. IInv => DeadlineIsBackstop
  BY DEF IInv, TimeInv, DeadlineIsBackstop
<1> QED BY <1>1, Invariance, PTL

\* What an entry that passes the self-test is worth in an outage: a call that was answered,
\* and not with a fault of the machine's own, shuts down the machine behind its URL
\* (engine.py:1814-1825, proxmox.py:233-281).
THEOREM GreenIsServedCorrect == Spec => []GreenIsServed
<1>1. IInv => GreenIsServed
  <2> SUFFICES ASSUME IInv, NEW e \in Entries,
                      phase[e] \in {"sent", "failed", "cut"}, ~excused[e], Standing(e)
               PROVE  phase[e] = "sent" /\ hit[e] = {Behind[host[e].url]}
    BY DEF GreenIsServed
  <2> DEFINE b == Behind[host[e].url]
             tied == host[e].paths \cap {"/", "all"} = {}
  <2>1. /\ host[e] \in HostConfig /\ b \in Machines /\ form[e] \in {1, 2}
        /\ host[e].node \in Machines \cup {Bad, Localhost} /\ local[e] \in BOOLEAN
    BY CallAssumption DEF IInv, TypeOK, HostConfig
  <2>2. /\ host[e].paths \cap PrivPaths # {}
        /\ \/ host[e].type = "pbs"
           \/ host[e].node = b
           \/ local[e] /\ ~tied
    <3> DEFINE h == host[e]
               status == [readable |-> TRUE, nodes |-> Machines, local |-> Behind[h.url]]
               verdict == IF h.type = "pbs" THEN "unverified"
                          ELSE VerifyNode(h.node, h.node # Bad, status)
    <3>1. verdict = "unverified" => h.type = "pbs"
      BY DEF VerifyNode
    <3>2. verdict = "ok" => h.node = b
      BY <2>1, CallAssumption DEF VerifyNode
    <3>3. /\ IsGreen(TestConnection("200", "200", h.paths, verdict), local[e])
          /\ verdict # "ok" => ~tied
      BY DEF Standing
    <3> HIDE DEF verdict
    <3>4. h.paths \cap PrivPaths # {} /\ (verdict \in {"ok", "unverified"} \/ local[e])
      BY <3>3 DEF IsGreen, TestConnection, NodeNameOk
    <3> QED BY <3>1, <3>2, <3>3, <3>4
  <2>3. tied => "own" \in host[e].paths
    BY <2>1, <2>2 DEF PrivPaths
  <2>4. host[e].type = "pbs" => host[e].node = Localhost
    BY DEF IInv, RefusalInv
  <2>5. \A n \in {1, 2} : Barred(e, n) =>
          \/ NodeAt(e, n) = Bad
          \/ tied /\ NodeAt(e, n) # host[e].node
    BY <2>3 DEF Barred
  <2>6. ~Barred(e, 1) \/ (host[e].node = b /\ ~Barred(e, IF local[e] THEN 2 ELSE 1))
    BY <2>1, <2>2, <2>4, <2>5, CallAssumption DEF NodeAt
  <2>7. Last(e) = IF host[e].node = Localhost THEN 1 ELSE 2
    BY DEF Last
  <2>8. /\ phase[e] # "cut"
        /\ form[e] = 2 => Barred(e, 1)
        /\ phase[e] = "failed" => Barred(e, form[e]) /\ form[e] = Last(e)
        /\ phase[e] = "sent" => request[e] = "accepted"
    BY DEF IInv, RefusalInv
  <2>9. phase[e] # "failed"
    BY <2>1, <2>6, <2>7, <2>8, CallAssumption
  <2>10. Target(e, form[e]) = b
    BY <2>1, <2>2, <2>4, <2>5, <2>6, <2>8, CallAssumption DEF NodeAt, Target
  <2> QED BY <2>8, <2>9, <2>10 DEF IInv, HitInv
<1> QED BY <1>1, Invariance, PTL

\* A check whose requests all take their share in full ends before the deadline of the call,
\* from a timeout of three seconds on (proxmox.py:171-222, pbs.py:52-60, targets.py:73-87).
THEOREM ChecksFit ==
  ASSUME NEW timeout \in Nat, timeout >= 18
  PROVE  PveTestTime(timeout) <= timeout + 30 /\ PbsTestTime(timeout) <= timeout + 30
BY DEF PveTestTime, PbsTestTime, PveShare, PbsShare, ListShare, AtLeast, AtMost
=============================================================================
