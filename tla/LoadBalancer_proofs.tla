------------------------ MODULE LoadBalancer_proofs ------------------------
(***************************************************************************)
(* Proofs about the load balancer for any number of members and requests,  *)
(* any members that fail, and any order of closing, under running requests *)
(* or not.                                                                 *)
(***************************************************************************)
EXTENDS LoadBalancer, TLAPS

USE DEF requestVars, closeVars, At, Closing

\* A request that goes on has tries left: what makes the type of the counter
\* inductive.
TriesLeft ==
  \A p \in Requests : pc[p] \in {"ask", "wait", "source"} => tries[p] \in 0..N

TypeInv == TypeOK /\ TriesLeft

\* The members before idx have been handed out once more than the others.
Rotation ==
  \E n \in Nat : \A i \in Members : picked[i] = IF i < idx THEN n + 1 ELSE n

-----------------------------------------------------------------------------
\* (idx + 1) % N is the next member, and the first after the last.
LEMMA AdvanceRange ==
  ASSUME idx \in Members
  PROVE  /\ Advance = IF idx = N - 1 THEN 0 ELSE idx + 1
         /\ Advance \in Members
BY BalancerAssumption DEF Members, Advance

\* Closing a member keeps the types of what it touches.
LEMMA CloseMemberType ==
  ASSUME TypeOK, NEW i \in Members, CloseMember(i)
  PROVE  closed' \subseteq {Balancer} \cup Members /\ panicked' \in BOOLEAN
BY DEF TypeOK, CloseMember

\* How the balancer is closed is settled at the start, so that a step of the
\* specification is one on the other variables.
LEMMA SettingStays == [Next]_<<vars, setting>> => [Next]_vars
OBVIOUS

LEMMA TypeInvInit == Init => TypeInv
<1> SUFFICES ASSUME Init PROVE TypeInv
  OBVIOUS
<1>1. toClose \in Seq({Balancer} \cup Members)
  <2>1. setting \in Settings /\ toClose = setting.closeOrder
    BY DEF Init, CloseOrder
  <2>2. \A s \in Settings : s.closeOrder \in Seq({Balancer} \cup 0..(N - 1))
    BY BalancerAssumption
  <2> QED BY <2>1, <2>2 DEF Members
<1>2. N \in Nat /\ N > 1
  BY BalancerAssumption
<1>3. /\ idx \in Members /\ 0 \in Members /\ 0 \in -1..N /\ 0 \in 0..N
  BY <1>2 DEF Init, Members
<1>4. /\ pc = [p \in Requests |-> "idle"] /\ tries = [p \in Requests |-> 0]
      /\ source = [p \in Requests |-> 0] /\ tried = [p \in Requests |-> {}]
      /\ alone = [p \in Requests |-> TRUE] /\ picked = [i \in Members |-> 0]
      /\ made = [p \in Requests |-> 0] /\ router = "select" /\ closer = "open"
      /\ member = 0 /\ closed = {} /\ panicked = FALSE
  BY DEF Init
<1>5. TypeOK
  BY <1>1, <1>3, <1>4, Zenon DEF TypeOK
<1> QED BY <1>4, <1>5 DEF TypeInv, TriesLeft

LEMMA TypeInvStep == TypeInv /\ [Next]_vars => TypeInv'
<1> SUFFICES ASSUME TypeInv, [Next]_vars PROVE TypeInv'
  OBVIOUS
<1>0. N \in Nat /\ N > 1
  BY BalancerAssumption
<1> USE DEF TypeInv, TypeOK, TriesLeft
<1>1. ASSUME NEW p \in Requests, Start(p) PROVE TypeInv'
  <2>1. N \in -1..N /\ N \in 0..N
    <3> HIDE DEF TypeInv, TypeOK, TriesLeft
    <3> QED BY <1>0
  <2>2. made' \in [Requests -> Nat]
    <3>1. made \in [Requests -> Nat] /\ made' = [made EXCEPT ![p] = made[p] + 1]
      BY <1>1 DEF Start
    <3> HIDE DEF TypeInv, TypeOK, TriesLeft
    <3> QED BY <3>1
  <2>3. TriesLeft'
    BY <1>1, <2>1 DEF Start
  <2>4. TypeOK'
    BY <1>1, <2>1, <2>2 DEF Start
  <2> QED BY <2>3, <2>4
<1>2. ASSUME NEW p \in Requests, Ask(p) PROVE TypeInv'
  BY <1>2 DEF Ask
<1>3. ASSUME NEW p \in Requests, AskClosed(p) PROVE TypeInv'
  BY <1>3 DEF AskClosed
<1>4. ASSUME NEW p \in Requests, Choose(p) PROVE TypeInv'
  <2>1. idx' \in Members
    BY <1>4, AdvanceRange DEF Choose
  <2>2. alone' \in [Requests -> BOOLEAN]
    BY <1>4 DEF Choose
  <2>3. picked' \in [Members -> Nat]
    <3>1. /\ picked \in [Members -> Nat] /\ idx \in Members
          /\ picked' = [picked EXCEPT ![idx] = picked[idx] + 1]
      BY <1>4 DEF Choose
    <3> HIDE DEF TypeInv, TypeOK, TriesLeft
    <3> QED BY <3>1
  <2> QED BY <1>4, <2>1, <2>2, <2>3 DEF Choose
<1>5. ASSUME NEW p \in Requests, Answer(p) PROVE TypeInv'
  BY <1>5 DEF Answer
<1>6. ASSUME NEW p \in Requests, Fail(p) PROVE TypeInv'
  <2>1. tries[p] \in 0..N /\ tries[p] - 1 \in -1..N /\ (tries[p] > 0 => tries[p] - 1 \in 0..N)
    <3>1. tries[p] \in 0..N
      BY <1>6 DEF Fail
    <3> HIDE DEF TypeInv, TypeOK, TriesLeft
    <3> QED BY <1>0, <3>1
  <2>2. tries' = [tries EXCEPT ![p] = tries[p] - 1]
    BY <1>6 DEF Fail
  <2>3. TriesLeft'
    BY <1>6, <2>1, <2>2 DEF Fail
  <2>4. TypeOK'
    BY <1>6, <2>1, <2>2, ZenonT(60) DEF Fail
  <2> QED BY <2>3, <2>4
<1>7. CASE Close
  BY <1>7 DEF Close
<1>8. CASE CloseNext
  <2>1. Head(toClose) \in {Balancer} \cup Members /\ toClose' \in Seq({Balancer} \cup Members)
    <3>1. toClose \in Seq({Balancer} \cup Members) /\ toClose # <<>> /\ toClose' = Tail(toClose)
      BY <1>8 DEF CloseNext
    <3> HIDE DEF TypeInv, TypeOK, TriesLeft
    <3> QED BY <3>1
  <2>2. CASE Head(toClose) = Balancer
    BY <1>8, <2>1, <2>2 DEF CloseNext
  <2>3. CASE Head(toClose) # Balancer
    <3>1. CloseMember(Head(toClose)) /\ Head(toClose) \in Members
      BY <1>8, <2>1, <2>3 DEF CloseNext
    <3>2. closed' \subseteq {Balancer} \cup Members /\ panicked' \in BOOLEAN
      BY <3>1, CloseMemberType
    <3> QED BY <1>8, <2>1, <2>3, <3>2 DEF CloseNext
  <2> QED BY <2>2, <2>3
<1>9. CASE SendClose
  BY <1>9 DEF SendClose
<1>10. CASE AckClose
  BY <1>10 DEF AckClose
<1>11. CASE CloseChannels
  <2>1. member' \in 0..N /\ closed' \subseteq {Balancer} \cup Members
    <3>1. closed \subseteq {Balancer} \cup Members /\ closed' = closed \cup {Balancer} /\ member' = 0
      BY <1>11 DEF CloseChannels
    <3> HIDE DEF TypeInv, TypeOK, TriesLeft
    <3> QED BY <1>0, <3>1
  <2> QED BY <1>11, <2>1 DEF CloseChannels
<1>12. CASE CloseMembers
  <2>1. CASE member = N
    BY <1>12, <2>1 DEF CloseMembers
  <2>2. CASE member # N
    <3>1. CloseMember(member) /\ member \in Members /\ member' \in 0..N
      <4>1. member \in 0..N /\ member # N /\ member' = member + 1 /\ CloseMember(member)
        BY <1>12, <2>2 DEF CloseMembers
      <4> HIDE DEF TypeInv, TypeOK, TriesLeft
      <4> QED BY <1>0, <4>1 DEF Members
    <3>2. closed' \subseteq {Balancer} \cup Members /\ panicked' \in BOOLEAN
      BY <3>1, CloseMemberType
    <3> QED BY <1>12, <2>2, <3>1, <3>2 DEF CloseMembers
  <2> QED BY <2>1, <2>2
<1>13. CASE UNCHANGED vars
  BY <1>13 DEF vars
<1> QED
  BY <1>1, <1>2, <1>3, <1>4, <1>5, <1>6, <1>7, <1>8, <1>9, <1>10, <1>11, <1>12, <1>13
  DEF Next, RequestStep, CloseStep

\* The variables of the balancer keep their types, whatever the interleaving of
\* requests, router and close (loadbalancing_source.go 38-85).
THEOREM TypeCorrect == Spec => []TypeOK
<1>1. TypeInv => TypeOK
  BY DEF TypeInv
<1> QED BY <1>1, TypeInvInit, SettingStays, TypeInvStep, PTL DEF Spec

-----------------------------------------------------------------------------
\* Only the router's choice touches the rotation.
LEMMA RotationStep == TypeInv /\ Rotation /\ [Next]_vars => Rotation'
<1> SUFFICES ASSUME TypeInv, Rotation, [Next]_vars PROVE Rotation'
  OBVIOUS
<1> USE BalancerAssumption
<1>1. ASSUME NEW p \in Requests, Choose(p) PROVE Rotation'
  <2>1. PICK n \in Nat : \A i \in Members : picked[i] = IF i < idx THEN n + 1 ELSE n
    BY DEF Rotation
  <2>2. /\ idx \in Members /\ picked \in [Members -> Nat]
        /\ picked' = [picked EXCEPT ![idx] = @ + 1] /\ idx' = Advance
    BY <1>1 DEF TypeInv, TypeOK, Choose
  <2>3. CASE idx = N - 1
    <3>1. \A i \in Members : picked'[i] = n + 1
      BY <2>1, <2>2, <2>3 DEF Members
    <3>2. idx' = 0
      BY <2>2, <2>3, AdvanceRange
    <3>3. \A i \in Members : picked'[i] = IF i < idx' THEN (n + 1) + 1 ELSE n + 1
      BY <3>1, <3>2 DEF Members
    <3> QED BY <3>3 DEF Rotation
  <2>4. CASE idx # N - 1
    <3>1. idx' = idx + 1
      BY <2>2, <2>4, AdvanceRange
    <3>2. \A i \in Members : picked'[i] = IF i < idx' THEN n + 1 ELSE n
      BY <2>1, <2>2, <3>1 DEF Members
    <3> QED BY <3>2 DEF Rotation
  <2> QED BY <2>3, <2>4
<1>2. CASE UNCHANGED <<idx, picked>>
  BY <1>2 DEF Rotation
<1>3. (\E p \in Requests : Choose(p)) \/ UNCHANGED <<idx, picked>>
  BY DEF Next, RequestStep, CloseStep, vars, Start, Ask, AskClosed, Answer, Fail,
         Close, CloseNext, SendClose, AckClose, CloseChannels, CloseMembers
<1> QED BY <1>1, <1>2, <1>3

\* However requests interleave, fail and are repeated, no member is handed out
\* more than once more than another (router, loadbalancing_source.go 38-49).
THEOREM RotationIsBalanced == Spec => []Balanced
<1>1. Init => TypeInv /\ Rotation
  <2>1. Init => \A i \in Members : picked[i] = IF i < idx THEN 0 + 1 ELSE 0
    BY DEF Init, Members
  <2> QED BY <2>1, TypeInvInit DEF Rotation
<1>2. TypeInv /\ Rotation => Balanced
  <2> SUFFICES ASSUME Rotation, NEW i \in Members, NEW j \in Members
               PROVE  picked[i] <= picked[j] + 1
    BY DEF Balanced
  <2>1. PICK n \in Nat : \A k \in Members : picked[k] = IF k < idx THEN n + 1 ELSE n
    BY DEF Rotation
  <2>2. picked[i] \in {n, n + 1} /\ picked[j] \in {n, n + 1}
    BY <2>1
  <2> QED BY <2>2
<1> QED BY <1>1, <1>2, SettingStays, TypeInvStep, RotationStep, PTL DEF Spec

-----------------------------------------------------------------------------
LEMMA ChoiceStep == TypeInv /\ ChoiceIsOwn /\ [Next]_vars => ChoiceIsOwn'
<1> SUFFICES ASSUME TypeInv, ChoiceIsOwn, [Next]_vars PROVE ChoiceIsOwn'
  OBVIOUS
<1> USE DEF TypeInv, TypeOK, ChoiceIsOwn
<1>1. ASSUME NEW p \in Requests, Start(p) PROVE ChoiceIsOwn'
  BY <1>1 DEF Start
<1>2. ASSUME NEW p \in Requests, Ask(p) PROVE ChoiceIsOwn'
  BY <1>2 DEF Ask
<1>3. ASSUME NEW p \in Requests, Choose(p) PROVE ChoiceIsOwn'
  BY <1>3 DEF Choose
<1>4. ASSUME NEW p \in Requests, Answer(p) \/ Fail(p) PROVE ChoiceIsOwn'
  BY <1>4, ZenonT(60) DEF Answer, Fail
<1>5. CASE SendClose \/ AckClose
  BY <1>5 DEF SendClose, AckClose
<1>6. CASE UNCHANGED <<pc, router>>
  BY <1>6
<1>7. ASSUME NEW p \in Requests, AskClosed(p) PROVE UNCHANGED <<pc, router>>
  BY <1>7 DEF AskClosed
<1>8. Close \/ CloseNext \/ CloseChannels \/ CloseMembers => UNCHANGED <<pc, router>>
  BY DEF Close, CloseNext, CloseChannels, CloseMembers
<1>9. UNCHANGED vars => UNCHANGED <<pc, router>>
  BY DEF vars
<1> QED BY <1>1, <1>2, <1>3, <1>4, <1>5, <1>6, <1>7, <1>8, <1>9
        DEF Next, RequestStep, CloseStep

\* With any number of requests on the two channels, the router's choice goes to
\* the request that asked for it, also while the balancer is being closed
\* (loadbalancing_source.go 41-42, 54-55).
THEOREM ChoiceGoesToAsker == Spec => []ChoiceIsOwn
<1>1. Init => TypeInv /\ ChoiceIsOwn
  BY TypeInvInit DEF Init, ChoiceIsOwn
<1> QED BY <1>1, SettingStays, TypeInvStep, ChoiceStep, PTL DEF Spec

-----------------------------------------------------------------------------
\* The k members handed out before member i, going round.
Before(i, k) ==
  {m \in Members : (i - k <= m /\ m < i) \/ i + N - k <= m}

\* What a request that nobody got in between of knows: it has tried as many
\* members as it has used tries, and these are the ones before the next; its
\* own member of the moment is the one just before.
AloneAt(p) ==
  /\ pc[p] \in {"ask", "wait"} => Before(idx, N - tries[p]) \subseteq tried[p]
  /\ pc[p] = "source" => /\ Before(source[p], N - tries[p]) \subseteq tried[p]
                         /\ idx = IF source[p] = N - 1 THEN 0 ELSE source[p] + 1
  /\ pc[p] = "gave up" => tried[p] = Members

AloneInv == \A p \in Requests : alone[p] => AloneAt(p)

\* Going round by one adds the member passed; a full round is all members, and
\* none is no member.
LEMMA BeforeNext ==
  ASSUME NEW i \in Members, NEW k \in 0..N
  PROVE  /\ Before(IF i = N - 1 THEN 0 ELSE i + 1, k + 1) \subseteq Before(i, k) \cup {i}
         /\ Before(i, N) = Members
         /\ Before(i, 0) = {}
<1>1. N \in Nat /\ N > 1
  BY BalancerAssumption
<1>2. CASE i = N - 1
  BY <1>1, <1>2 DEF Before, Members
<1>3. CASE i # N - 1
  BY <1>1, <1>3 DEF Before, Members
<1> QED BY <1>2, <1>3

\* A request on whose variables, and on idx, a step does nothing keeps what it
\* knows.
LEMMA AloneAtKept ==
  ASSUME NEW p \in Requests, AloneAt(p), idx' = idx, pc'[p] = pc[p],
         tries'[p] = tries[p], tried'[p] = tried[p], source'[p] = source[p]
  PROVE  AloneAt(p)'
BY DEF AloneAt, Before

LEMMA AloneStep == TypeInv /\ AloneInv /\ [Next]_vars => AloneInv'
<1> SUFFICES ASSUME TypeInv, AloneInv, [Next]_vars, NEW p \in Requests, alone'[p]
             PROVE  AloneAt(p)'
  BY DEF AloneInv
<1>0. N \in Nat /\ N > 1 /\ (alone[p] => AloneAt(p))
  BY BalancerAssumption DEF AloneInv
<1>t. /\ pc \in [Requests -> {"idle", "ask", "wait", "source", "gave up"}]
      /\ idx \in Members /\ source \in [Requests -> Members]
      /\ tries \in [Requests -> -1..N] /\ alone \in [Requests -> BOOLEAN]
      /\ tried \in [Requests -> SUBSET Members]
      /\ pc[p] \in {"ask", "wait", "source"} => tries[p] \in 0..N
  BY Zenon DEF TypeInv, TypeOK, TriesLeft
<1>1. CASE Start(p)
  <2>1. pc'[p] = "ask" /\ tries'[p] = N /\ tried'[p] = {} /\ idx' = idx
    BY <1>1, <1>t DEF Start
  <2>2. Before(idx', N - tries'[p]) = {}
    <3>1. N - tries'[p] = 0 /\ 0 \in 0..N
      BY <1>0, <2>1
    <3>2. Before(idx, 0) = {}
      BY <1>t, <3>1, BeforeNext
    <3> QED BY <2>1, <3>1, <3>2
  <2>3. (Before(idx, N - tries[p]))' = {}
    BY <2>2 DEF Before
  <2> QED BY <2>1, <2>3 DEF AloneAt
<1>2. CASE Ask(p)
  <2>1. /\ pc[p] = "ask" /\ pc'[p] = "wait" /\ alone' = alone /\ tries' = tries
        /\ tried' = tried /\ idx' = idx
    BY <1>2, <1>t DEF Ask
  <2>2. Before(idx, N - tries[p]) \subseteq tried[p]
    BY <1>0, <2>1 DEF AloneAt
  <2>3. (Before(idx, N - tries[p]) \subseteq tried[p])'
    BY <2>1, <2>2 DEF Before
  <2> QED BY <2>1, <2>3 DEF AloneAt
<1>3. CASE Choose(p)
  <2>1. /\ pc[p] = "wait" /\ pc'[p] = "source" /\ alone'[p] = alone[p] /\ tries' = tries
        /\ tried' = tried /\ idx' = Advance /\ source'[p] = idx
    BY <1>3, <1>t DEF Choose
  <2>2. Before(idx, N - tries[p]) \subseteq tried[p]
    BY <1>0, <2>1 DEF AloneAt
  <2>3. idx' = IF idx = N - 1 THEN 0 ELSE idx + 1
    BY <1>t, <2>1, AdvanceRange
  <2>4. (Before(source[p], N - tries[p]) \subseteq tried[p])'
    BY <2>1, <2>2 DEF Before
  <2> QED BY <2>1, <2>3, <2>4 DEF AloneAt
<1>4. CASE Answer(p)
  BY <1>4, <1>t DEF Answer, AloneAt
<1>5. CASE Fail(p)
  <2>1. /\ pc[p] = "source" /\ alone' = alone /\ idx' = idx
        /\ tried'[p] = tried[p] \cup {source[p]} /\ tries'[p] = tries[p] - 1
        /\ pc'[p] = IF tries[p] > 0 THEN "ask" ELSE "gave up"
    BY <1>5, <1>t DEF Fail
  <2>2. /\ Before(source[p], N - tries[p]) \subseteq tried[p]
        /\ idx = IF source[p] = N - 1 THEN 0 ELSE source[p] + 1
    BY <1>0, <2>1 DEF AloneAt
  <2>3. source[p] \in Members /\ tried[p] \subseteq Members /\ tries[p] \in 0..N
    BY <1>t, <2>1
  <2>4. N - tries[p] \in 0..N /\ N - tries'[p] = (N - tries[p]) + 1
    <3>1. tries'[p] = tries[p] - 1
      BY <2>1
    <3> QED BY <1>0, <2>3, <3>1
  <2>5. CASE tries[p] > 0
    <3>1. Before(idx, N - tries'[p]) \subseteq tried'[p]
      <4>1. Before(idx, (N - tries[p]) + 1)
              \subseteq Before(source[p], N - tries[p]) \cup {source[p]}
        BY <2>2, <2>3, <2>4, BeforeNext, Zenon
      <4>2. Before(idx, N - tries'[p]) = Before(idx, (N - tries[p]) + 1)
        BY <2>4, Zenon
      <4>3. tried'[p] = tried[p] \cup {source[p]}
        BY <2>1, Zenon
      <4> QED BY <2>2, <4>1, <4>2, <4>3, Zenon
    <3>2. (Before(idx, N - tries[p]) \subseteq tried[p])'
      BY <2>1, <3>1 DEF Before
    <3> QED BY <2>1, <2>5, <3>2 DEF AloneAt
  <2>6. CASE ~(tries[p] > 0)
    <3>1. N - tries[p] = N
      BY <1>0, <2>3, <2>6
    <3>2. Before(source[p], N) = Members
      BY <2>3, <2>4, BeforeNext
    <3>3. tried'[p] = Members
      BY <2>1, <2>2, <2>3, <3>1, <3>2
    <3>4. pc'[p] = "gave up"
      BY <2>1, <2>6
    <3> QED BY <3>3, <3>4 DEF AloneAt, Members
  <2> QED BY <2>5, <2>6
\* Another request: if the router served it, p is no longer alone, or idle.
<1>6. ASSUME NEW q \in Requests, q # p, Choose(q) PROVE AloneAt(p)'
  <2>1. pc'[p] = "idle"
    BY <1>6, <1>t DEF Choose
  <2> QED BY <2>1 DEF AloneAt
<1>7. ASSUME NEW q \in Requests, q # p, Start(q) \/ Ask(q) \/ AskClosed(q) \/ Answer(q) \/ Fail(q)
      PROVE  AloneAt(p)'
  <2>1. /\ pc'[p] = pc[p] /\ tries'[p] = tries[p] /\ tried'[p] = tried[p]
        /\ source'[p] = source[p] /\ idx' = idx /\ alone'[p] = alone[p]
    BY <1>7, <1>t DEF Start, Ask, AskClosed, Answer, Fail
  <2> QED BY <1>0, <2>1, AloneAtKept
<1>8. CASE AskClosed(p) \/ Close \/ CloseStep \/ UNCHANGED vars
  <2>1. UNCHANGED <<idx, alone, requestVars>>
    BY <1>8 DEF AskClosed, Close, CloseStep, CloseNext, SendClose, AckClose, CloseChannels,
                CloseMembers, vars
  <2> QED BY <1>0, <2>1, AloneAtKept
<1> QED BY <1>1, <1>2, <1>3, <1>4, <1>5, <1>6, <1>7, <1>8 DEF Next, RequestStep

\* A request whose tries no other request got in between of gives up only after
\* every member failed it, whatever member the rotation had reached when it
\* began (lbSource.Answer, loadbalancing_source.go 52-66).
THEOREM AloneMissesNobody == Spec => []AloneTriesAll
<1>1. Init => TypeInv /\ AloneInv
  BY TypeInvInit DEF Init, AloneInv, AloneAt
<1>2. AloneInv => AloneTriesAll
  BY DEF AloneInv, AloneAt, AloneTriesAll
<1> QED BY <1>1, <1>2, SettingStays, TypeInvStep, AloneStep, PTL DEF Spec
=============================================================================
