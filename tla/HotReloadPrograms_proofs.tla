---------------------- MODULE HotReloadPrograms_proofs ----------------------
(***************************************************************************)
(* What the goroutines of HotReload have to do, for any number of lists    *)
(* and sources: which operations the boot and a swap are made of and in    *)
(* what order, what is left after each, and that every step keeps the      *)
(* types.  The invariant is stated here; HotReload_proofs proves it.       *)
(***************************************************************************)
EXTENDS HotReload, TLAPS

(* Sequences.                                                               *)

Within(e, q) == \E i \in DOMAIN q : q[i] = e

\* Nothing appears in two sequences put together that is in neither, and
\* everything of both does.
LEMMA WithinCat ==
  ASSUME NEW S, NEW s \in Seq(S), NEW t \in Seq(S), NEW e
  PROVE  Within(e, s \o t) <=> Within(e, s) \/ Within(e, t)
<1>1. s \o t \in Seq(S) /\ Len(s \o t) = Len(s) + Len(t) /\ Len(s) \in Nat /\ Len(t) \in Nat
  OBVIOUS
<1>2. \A i \in 1..Len(s) : (s \o t)[i] = s[i] /\ i \in 1..Len(s \o t)
  BY <1>1
<1>3. \A i \in 1..Len(t) : (s \o t)[Len(s) + i] = t[i] /\ Len(s) + i \in 1..Len(s \o t)
  BY <1>1
<1>4. \A i \in 1..Len(s \o t) :
        i \notin 1..Len(s) => i - Len(s) \in 1..Len(t) /\ (s \o t)[i] = t[i - Len(s)]
  BY <1>1
<1>5. DOMAIN s = 1..Len(s) /\ DOMAIN t = 1..Len(t) /\ DOMAIN (s \o t) = 1..Len(s \o t)
  BY <1>1
<1>6. Within(e, s) => Within(e, s \o t)
  BY <1>2, <1>5 DEF Within
<1>7. Within(e, t) => Within(e, s \o t)
  BY <1>3, <1>5, Zenon DEF Within
<1>8. Within(e, s \o t) => Within(e, s) \/ Within(e, t)
  BY <1>2, <1>4, <1>5 DEF Within
<1> QED BY <1>6, <1>7, <1>8

\* InTurn keeps the operations of its setups.
LEMMA InTurnHas ==
  ASSUME NEW T, NEW setups \in Seq(Seq(T)), \A k \in DOMAIN setups : DOMAIN setups[k] = 1..3
  PROVE  /\ InTurn(setups) \in Seq(T)
         /\ \A k \in DOMAIN setups : \A e :
              Within(e, setups[k]) => Within(e, InTurn(setups))
<1> DEFINE n == Len(setups)
           q == InTurn(setups)
           K(i) == 1 + ((i - 1) \div 3)
           R(i) == 1 + ((i - 1) % 3)
<1>1. n \in Nat /\ DOMAIN setups = 1..n
  OBVIOUS
<1>2. ASSUME NEW k \in 1..n, NEW r \in 1..3 PROVE setups[k][r] \in T
  <2> DEFINE p == setups[k]
  <2>1. p \in Seq(T)
    BY <1>1
  <2>2. DOMAIN p = 1..3
    BY <1>1, Zenon
  <2> HIDE DEF p
  <2>3. p[r] \in T
    <3>1. \A i \in DOMAIN p : p[i] \in T
      BY <2>1
    <3> QED BY <2>2, <3>1
  <2> QED BY <2>3 DEF p
<1>3. q = [i \in 1..(3 * n) |-> setups[K(i)][R(i)]]
  BY DEF InTurn
<1>4. \A i \in 1..(3 * n) : K(i) \in 1..n /\ R(i) \in 1..3
  BY <1>1
<1>5. ASSUME NEW k \in 1..n, NEW r \in 1..3
      PROVE  3 * (k - 1) + r \in 1..(3 * n) /\ K(3 * (k - 1) + r) = k /\ R(3 * (k - 1) + r) = r
  <2>1. \A m \in Nat : \A b \in 0..2 : (3 * m + b) \div 3 = m /\ (3 * m + b) % 3 = b
    OBVIOUS
  <2>2. k - 1 \in Nat /\ r - 1 \in 0..2 /\ (3 * (k - 1) + r) - 1 = 3 * (k - 1) + (r - 1)
        /\ 3 * (k - 1) + r \in 1..(3 * n)
    BY <1>1
  <2>3. ((3 * (k - 1) + r) - 1) \div 3 = k - 1 /\ ((3 * (k - 1) + r) - 1) % 3 = r - 1
    BY <2>1, <2>2, Zenon
  <2> QED BY <2>2, <2>3
<1> HIDE DEF K, R, q, n
<1>6. q \in [1..(3 * n) -> T]
  BY <1>2, <1>3, <1>4
<1>7. q \in Seq(T)
  BY <1>1, <1>6
<1>8. ASSUME NEW k \in DOMAIN setups, NEW e, Within(e, setups[k]) PROVE Within(e, q)
  <2>1. PICK r \in 1..3 : setups[k][r] = e
    BY <1>8 DEF Within
  <2> DEFINE i == 3 * (k - 1) + r
  <2>2. i \in 1..(3 * n) /\ K(i) = k /\ R(i) = r
    BY <1>1, <1>5
  <2> HIDE DEF i
  <2>3. i \in DOMAIN q /\ q[i] = e
    BY <1>3, <2>1, <2>2
  <2> QED BY <2>3 DEF Within
<1> QED BY <1>7, <1>8 DEF q

\* What is left of a sequence without its first element.
LEMMA TailAt ==
  ASSUME NEW S, NEW q \in Seq(S), q # <<>>
  PROVE  /\ Tail(q) \in Seq(S) /\ 1 \in DOMAIN q /\ Head(q) = q[1]
         /\ \A i \in DOMAIN Tail(q) : i \in Int /\ i + 1 \in DOMAIN q /\ Tail(q)[i] = q[i + 1]
         /\ \A i \in DOMAIN q :
              i # 1 => i - 1 \in DOMAIN Tail(q) /\ Tail(q)[i - 1] = q[i] /\ i \in Int /\ i > 1
<1>1. Len(q) \in Nat /\ Len(q) # 0 /\ DOMAIN q = 1..Len(q)
  OBVIOUS
<1>2. Tail(q) \in Seq(S) /\ Len(Tail(q)) = Len(q) - 1 /\ DOMAIN Tail(q) = 1..(Len(q) - 1)
  BY <1>1
<1>3. \A i \in 1..(Len(q) - 1) : Tail(q)[i] = q[i + 1]
  BY <1>1
<1>4. ASSUME NEW i \in DOMAIN q, i # 1
      PROVE  i - 1 \in DOMAIN Tail(q) /\ Tail(q)[i - 1] = q[i] /\ i \in Int /\ i > 1
  <2>1. i - 1 \in 1..(Len(q) - 1) /\ (i - 1) + 1 = i
    BY <1>1, <1>4
  <2>2. Tail(q)[i - 1] = q[(i - 1) + 1]
    BY <1>3, <2>1
  <2> QED BY <1>1, <1>2, <1>4, <2>1, <2>2
<1> QED BY <1>1, <1>2, <1>3, <1>4

\* An element is the first or in the rest.
LEMMA WithinTail ==
  ASSUME NEW S, NEW q \in Seq(S), q # <<>>, NEW e
  PROVE  /\ Within(e, Tail(q)) => Within(e, q)
         /\ Within(e, q) => e = Head(q) \/ Within(e, Tail(q))
<1>1. ASSUME Within(e, Tail(q)) PROVE Within(e, q)
  <2>1. PICK i \in DOMAIN Tail(q) : Tail(q)[i] = e
    BY <1>1 DEF Within
  <2>2. i + 1 \in DOMAIN q /\ q[i + 1] = e
    BY <2>1, TailAt
  <2> QED BY <2>2 DEF Within
<1>2. ASSUME Within(e, q), e # Head(q) PROVE Within(e, Tail(q))
  <2>1. PICK i \in DOMAIN q : q[i] = e
    BY <1>2 DEF Within
  <2>2. i # 1
    BY <1>2, <2>1, TailAt
  <2>3. i - 1 \in DOMAIN Tail(q) /\ Tail(q)[i - 1] = e
    BY <2>1, <2>2, TailAt
  <2> QED BY <2>3 DEF Within
<1> QED BY <1>1, <1>2

-----------------------------------------------------------------------------
(* The invariant.                                                           *)

Topics == {"file", "start", "clear", "close", "changed", "source"}

\* The operations of a swap and of the handlers of a file, those of the file
\* watcher's listeners, and the two that go on to a swap.
StepOps ==
  {<<n>> : n \in {"download", "lock", "locked", "stopEngine", "newEngine", "built",
                  "unlock", "host"}}
WorkOps ==
  StepOps \cup ({"load", "listen"} \X Files)
          \cup ({"send"} \X {"start", "changed", "source"} \X Files)
WatchOps == {"unwatch", "hash", "watch"} \X Files
OtherOps ==
  {<<n>> : n \in {"clear", "loadConf", "endWatch", "endWatchAck", "closeWatcher"}}
    \cup {send("clear", Conf)}
AllOps == WorkOps \cup WatchOps \cup OtherOps

TypeInv ==
  /\ setting \in Settings
  /\ version \in [Files -> Int] /\ hash \in [Files -> Int]
  /\ watched \in SUBSET Files /\ pending \in SUBSET Files /\ listening \in SUBSET Files
  /\ lfile \in Files
  /\ busChan \in Seq(Topics \X Files)
  /\ todo \in [{"main", "bus"} -> Seq(AllOps)]
  /\ stopping \in [Stoppers -> {"run", "called", "stop", "reading", "closing", "done"}]
  /\ cpc \in [Clients -> {"idle", "waiting", "reading"}]

Work == WorkOps \ {<<"listen", Conf>>}

\* What the bus may have left to do.
Shape(q) ==
  \/ q \in Seq(Work)
  \/ \E f \in Files : q \in {StartProgram(f), << <<"hash", f>>, <<"watch", f>> >>,
                              << <<"watch", f>> >>}
  \/ q = << <<"clear">> >>
  \/ q \in {ConfProgram, << <<"loadConf">>, send("start", Conf) >>}

ProgramInv ==
  /\ busUp
  /\ \A i \in DOMAIN busChan : busChan[i][1] # "close"
  /\ Shape(todo["bus"])
  /\ todo["main"] \in Seq(WorkOps)

\* The place of an operation in the critical section of a swap; 0 for others.
Rank(op) ==
  CASE op[1] = "lock" -> 1 [] op[1] = "locked" -> 2 [] op[1] = "stopEngine" -> 3
    [] op[1] = "built" -> 4 [] op[1] = "unlock" -> 5 [] OTHER -> 0

\* The operations of the section come in order, and what is left of it is what
\* begins with the k-th.
InOrder(q) == \A i, j \in DOMAIN q : i < j /\ Rank(q[j]) > 0 => Rank(q[i]) < Rank(q[j])
LeftFrom(q, k) == \A r \in 1..5 : (\E i \in DOMAIN q : Rank(q[i]) = r) <=> r >= k

LockAt(k) == CASE k \in {1, 6} -> "free" [] k = 2 -> "wanted" [] OTHER -> "write"

AtStage(k) ==
  /\ LeftFrom(todo["bus"], k)
  /\ lock = LockAt(k)
  /\ Within(<<"loadConf">>, todo["bus"]) => k = 6
  /\ Conf \notin listening => k = 6 /\ ~Within(<<"loadConf">>, todo["bus"])
  /\ engineUp \/ k = 4 \/ \E i \in DOMAIN todo["main"] : todo["main"][i][1] = "built"

MainOrder(q) ==
  \A i, j \in DOMAIN q : i < j /\ q[i] = <<"listen", Conf>> => q[j][1] \notin {"listen", "built"}

EngineInv ==
  /\ ~panicked
  /\ InOrder(todo["bus"])
  /\ \E k \in 1..6 : AtStage(k)
  /\ MainOrder(todo["main"])
  /\ \A i \in DOMAIN todo["main"] :
       todo["main"][i][1] \in {"listen", "built"} => Conf \notin listening

\* No request is under way while swap holds the lock, and none before the boot is over.
RequestInv ==
  \A c \in Clients :
    /\ cpc[c] = "reading" => lock # "write"
    /\ cpc[c] # "idle" => todo["main"] = <<>>

\* The watch on f will be asked for: by an operation that is left, or by an event
\* on the bus behind which nothing clears the watches.
Asked(f) ==
  \/ Within(send("start", f), todo["main"])
  \/ Within(send("start", f), todo["bus"])
  \/ Within(<<"loadConf">>, todo["bus"])
Queued(f) ==
  \E j \in DOMAIN busChan :
    /\ busChan[j] = <<"start", f>>
    /\ \A i \in DOMAIN busChan : i > j => busChan[i][1] # "clear"

\* Nothing clears the watches, and f is watched or about to be.
NoClear ==
  /\ todo["bus"] # << <<"clear">> >>
  /\ \A i \in DOMAIN busChan : busChan[i][1] # "clear"
Renewing(f) ==
  \/ todo["bus"] = StartProgram(f)
  \/ todo["bus"] = << <<"hash", f>>, <<"watch", f>> >>
  \/ todo["bus"] = << <<"watch", f>> >> /\ hash[f] = version[f]
InPlace(f) == f \in watched /\ (hash[f] = version[f] \/ f \in pending)

WatchInv ==
  \A f \in Files : Asked(f) \/ Queued(f) \/ (NoClear /\ (Renewing(f) \/ InPlace(f)))

\* f has a listener that will not be closed, or will get one.
ListenInv ==
  \A f \in Files :
    \/ f \in listening /\ (f = Conf \/ ~Within(<<"stopEngine">>, todo["bus"]))
    \/ \E j \in DOMAIN todo["bus"] :
         /\ todo["bus"][j] = <<"listen", f>>
         /\ \A i \in DOMAIN todo["bus"] : i > j => todo["bus"][i] # <<"stopEngine">>
    \/ Within(<<"listen", f>>, todo["main"])

Inv ==
  /\ TypeInv
  /\ RequestInv
  /\ Running =>
       /\ ProgramInv
       /\ ~EngineFails => EngineInv
       /\ Orderly => WatchInv /\ ListenInv

-----------------------------------------------------------------------------
(* The programs.                                                            *)

\* The configuration file is none of the lists and sources.
LEMMA FileFacts ==
  /\ Conf \in Files
  /\ Conf \notin Range(Lists) /\ Conf \notin Range(Sources)
  /\ Files \ {Conf} = Range(Lists) \cup Range(Sources)
  /\ Lists \in Seq(Files \ {Conf}) /\ Sources \in Seq(Files \ {Conf})
<1>1. Conf \in Files /\ Range(Lists) \subseteq Files /\ Range(Sources) \subseteq Files
  BY DEF Files
<1>2. Lists \in Seq(Range(Lists)) /\ Sources \in Seq(Range(Sources))
  BY HotReloadAssumption
<1> DEFINE s == Lists \o Sources \o <<Conf>>
           m == Len(Lists)
           n == Len(Sources)
<1>3. Lists \in Seq(Files) /\ Sources \in Seq(Files) /\ m \in Nat /\ n \in Nat
  BY <1>1, <1>2
<1>4. s \in Seq(Files) /\ Len(s) = m + n + 1 /\ DOMAIN s = 1..(m + n + 1)
  BY <1>1, <1>3
<1>5. s[m + n + 1] = Conf
  BY <1>1, <1>3
<1>6. \A i \in 1..m : s[i] = Lists[i]
  BY <1>1, <1>3
<1>7. \A i \in 1..n : s[m + i] = Sources[i]
  BY <1>1, <1>3
<1>8. \A i, j \in DOMAIN s : s[i] = s[j] => i = j
  BY HotReloadAssumption DEF IsInjective
<1> HIDE DEF s
<1>9. Conf \notin Range(Lists)
  <2> SUFFICES ASSUME NEW i \in DOMAIN Lists, Lists[i] = Conf PROVE FALSE
    BY DEF Range
  <2>1. i \in 1..m
    BY <1>3
  <2>2. i \in DOMAIN s /\ m + n + 1 \in DOMAIN s /\ i # m + n + 1
    BY <1>3, <1>4, <2>1
  <2> QED BY <1>5, <1>6, <1>8, <2>1, <2>2
<1>10. Conf \notin Range(Sources)
  <2> SUFFICES ASSUME NEW i \in DOMAIN Sources, Sources[i] = Conf PROVE FALSE
    BY DEF Range
  <2>1. i \in 1..n
    BY <1>3
  <2>2. m + i \in DOMAIN s /\ m + n + 1 \in DOMAIN s /\ m + i # m + n + 1
    BY <1>3, <1>4, <2>1
  <2> QED BY <1>5, <1>7, <1>8, <2>1, <2>2
<1>11. Files \ {Conf} = Range(Lists) \cup Range(Sources)
  BY <1>9, <1>10 DEF Files
<1>12. Range(Lists) \subseteq Files \ {Conf} /\ Range(Sources) \subseteq Files \ {Conf}
  BY <1>11
<1>13. Lists \in Seq(Files \ {Conf}) /\ Sources \in Seq(Files \ {Conf})
  BY <1>2, <1>12
<1> QED BY <1>1, <1>9, <1>10, <1>11, <1>13

\* What NewEngine does before the engine is built.
Plain ==
  {<<"download">>} \cup ({"load", "listen"} \X (Files \ {Conf}))
                   \cup ({"send"} \X {"start"} \X (Files \ {Conf}))

Preparation ==
  InTurn([i \in DOMAIN Sources |-> SourceSetup(Sources[i])])
  \o << <<"download">> >>
  \o InTurn([i \in DOMAIN Lists |-> ListSetup(Lists[i])])

\* NewEngine loads, asks for the watch of and listens to every list and source.
LEMMA PreparationFacts ==
  /\ Preparation \in Seq(Plain)
  /\ \A f \in Files \ {Conf} :
       Within(send("start", f), Preparation) /\ Within(<<"listen", f>>, Preparation)
<1> DEFINE A == [i \in DOMAIN Sources |-> SourceSetup(Sources[i])]
           B == [i \in DOMAIN Lists |-> ListSetup(Lists[i])]
           D == << <<"download">> >>
<1>1. \A f \in Files \ {Conf} :
        /\ <<"load", f>> \in Plain /\ <<"listen", f>> \in Plain /\ send("start", f) \in Plain
  BY DEF Plain, send
<1>2. \A f \in Files \ {Conf} :
        /\ SourceSetup(f) \in Seq(Plain) /\ ListSetup(f) \in Seq(Plain)
        /\ Within(send("start", f), SourceSetup(f)) /\ Within(<<"listen", f>>, SourceSetup(f))
        /\ Within(send("start", f), ListSetup(f)) /\ Within(<<"listen", f>>, ListSetup(f))
        /\ DOMAIN SourceSetup(f) = 1..3 /\ DOMAIN ListSetup(f) = 1..3
  <2> TAKE f \in Files \ {Conf}
  <2>1. SourceSetup(f) \in Seq(Plain) /\ ListSetup(f) \in Seq(Plain)
    BY <1>1 DEF SourceSetup, ListSetup
  <2>2. SourceSetup(f)[2] = <<"listen", f>> /\ SourceSetup(f)[3] = send("start", f)
        /\ DOMAIN SourceSetup(f) = 1..3
    BY DEF SourceSetup
  <2>3. ListSetup(f)[3] = <<"listen", f>> /\ ListSetup(f)[2] = send("start", f)
        /\ DOMAIN ListSetup(f) = 1..3
    BY DEF ListSetup
  <2>4. 2 \in 1..3 /\ 3 \in 1..3
    OBVIOUS
  <2> QED BY <2>1, <2>2, <2>3, <2>4 DEF Within
<1>3. /\ \A i \in DOMAIN Sources : Sources[i] \in Files \ {Conf}
      /\ \A i \in DOMAIN Lists : Lists[i] \in Files \ {Conf}
      /\ Len(Sources) \in Nat /\ DOMAIN Sources = 1..Len(Sources)
      /\ Len(Lists) \in Nat /\ DOMAIN Lists = 1..Len(Lists)
  BY FileFacts
<1> HIDE DEF A, B, D
<1>4. A \in Seq(Seq(Plain)) /\ DOMAIN A = DOMAIN Sources
      /\ \A i \in DOMAIN Sources : A[i] = SourceSetup(Sources[i])
  <2>1. DOMAIN A = DOMAIN Sources /\ \A i \in DOMAIN Sources : A[i] = SourceSetup(Sources[i])
    BY DEF A
  <2>2. A = [i \in 1..Len(Sources) |-> A[i]]
    BY <1>3 DEF A
  <2>3. \A i \in 1..Len(Sources) : A[i] \in Seq(Plain)
    BY <1>2, <1>3, <2>1, Zenon
  <2>4. A \in [1..Len(Sources) -> Seq(Plain)]
    BY <2>2, <2>3
  <2> QED BY <1>3, <2>1, <2>4
<1>5. B \in Seq(Seq(Plain)) /\ DOMAIN B = DOMAIN Lists
      /\ \A i \in DOMAIN Lists : B[i] = ListSetup(Lists[i])
  <2>1. DOMAIN B = DOMAIN Lists /\ \A i \in DOMAIN Lists : B[i] = ListSetup(Lists[i])
    BY DEF B
  <2>2. B = [i \in 1..Len(Lists) |-> B[i]]
    BY <1>3 DEF B
  <2>3. \A i \in 1..Len(Lists) : B[i] \in Seq(Plain)
    BY <1>2, <1>3, <2>1, Zenon
  <2>4. B \in [1..Len(Lists) -> Seq(Plain)]
    BY <2>2, <2>3
  <2> QED BY <1>3, <2>1, <2>4
<1>6. /\ \A k \in DOMAIN A : DOMAIN A[k] = 1..3
      /\ \A k \in DOMAIN B : DOMAIN B[k] = 1..3
  <2>1. ASSUME NEW k \in DOMAIN A PROVE DOMAIN A[k] = 1..3
    <3>1. A[k] = SourceSetup(Sources[k]) /\ Sources[k] \in Files \ {Conf}
      BY <1>3, <1>4
    <3> QED BY <1>2, <3>1, Zenon
  <2>2. ASSUME NEW k \in DOMAIN B PROVE DOMAIN B[k] = 1..3
    <3>1. B[k] = ListSetup(Lists[k]) /\ Lists[k] \in Files \ {Conf}
      BY <1>3, <1>5
    <3> QED BY <1>2, <3>1, Zenon
  <2> QED BY <2>1, <2>2
<1>7. InTurn(A) \in Seq(Plain)
       /\ \A k \in DOMAIN A : \A e : Within(e, A[k]) => Within(e, InTurn(A))
  BY <1>4, <1>6, InTurnHas, Zenon
<1>8. InTurn(B) \in Seq(Plain)
       /\ \A k \in DOMAIN B : \A e : Within(e, B[k]) => Within(e, InTurn(B))
  BY <1>5, <1>6, InTurnHas, Zenon
<1>9. D \in Seq(Plain)
  BY DEF D, Plain
<1>10. Preparation = (InTurn(A) \o D) \o InTurn(B)
  BY DEF Preparation, A, B, D
<1>11. InTurn(A) \o D \in Seq(Plain) /\ Preparation \in Seq(Plain)
  BY <1>7, <1>8, <1>9, <1>10
<1>12. \A e : Within(e, InTurn(A)) \/ Within(e, InTurn(B)) => Within(e, Preparation)
  BY <1>7, <1>8, <1>9, <1>10, <1>11, WithinCat, Zenon
<1>13. ASSUME NEW f \in Files \ {Conf}
       PROVE  Within(send("start", f), Preparation) /\ Within(<<"listen", f>>, Preparation)
  <2>1. CASE f \in Range(Sources)
    <3>1. PICK i \in DOMAIN Sources : Sources[i] = f
      BY <2>1 DEF Range
    <3>2. A[i] = SourceSetup(f) /\ i \in DOMAIN A
      BY <1>4, <3>1
    <3> QED BY <1>2, <1>7, <1>12, <3>2
  <2>2. CASE f \in Range(Lists)
    <3>1. PICK i \in DOMAIN Lists : Lists[i] = f
      BY <2>2 DEF Range
    <3>2. B[i] = ListSetup(f) /\ i \in DOMAIN B
      BY <1>5, <3>1
    <3> QED BY <1>2, <1>8, <1>12, <3>2
  <2> QED BY <2>1, <2>2, FileFacts
<1> QED BY <1>11, <1>13

\* What the operations of NewEngine are and are not.
LEMMA PlainFacts ==
  /\ \A op \in Plain : op \in Work /\ op \in WorkOps /\ Rank(op) = 0
  /\ \A op \in Plain : op # <<"stopEngine">> /\ op[1] # "built" /\ op # <<"listen", Conf>>
<1>1. ASSUME NEW op \in Plain
      PROVE  /\ op \in WorkOps /\ op # <<"listen", Conf>>
             /\ op[1] \in {"download", "load", "listen", "send"}
  <2>1. CASE op = <<"download">>
    BY <2>1 DEF WorkOps, StepOps
  <2>2. CASE op \in {"load", "listen"} \X (Files \ {Conf})
    BY <2>2 DEF WorkOps
  <2>3. CASE op \in {"send"} \X {"start"} \X (Files \ {Conf})
    BY <2>3 DEF WorkOps
  <2> QED BY <2>1, <2>2, <2>3 DEF Plain
<1>2. \A op \in Plain : Rank(op) = 0
  BY <1>1 DEF Rank
<1>3. \A op \in Plain : op # <<"stopEngine">>
  BY <1>1
<1> QED BY <1>1, <1>2, <1>3 DEF Work

\* The elements of two sequences put together.
LEMMA CatAt ==
  ASSUME NEW S, NEW s \in Seq(S), NEW t \in Seq(S)
  PROVE  /\ s \o t \in Seq(S) /\ Len(s) \in Nat /\ Len(t) \in Nat
         /\ Len(s \o t) = Len(s) + Len(t) /\ DOMAIN (s \o t) = 1..(Len(s) + Len(t))
         /\ \A i \in 1..Len(s) : (s \o t)[i] = s[i]
         /\ \A i \in 1..Len(t) : (s \o t)[Len(s) + i] = t[i]
OBVIOUS

\* The operations on the lock, the engine and the servers, and the sends.
LEMMA OpFacts ==
  /\ \A op \in StepOps : op \in Work /\ op \in WorkOps
  /\ <<"lock">> \in StepOps /\ <<"locked">> \in StepOps /\ <<"stopEngine">> \in StepOps
  /\ <<"newEngine">> \in StepOps /\ <<"built">> \in StepOps /\ <<"unlock">> \in StepOps
  /\ <<"host">> \in StepOps
  /\ \A t \in {"start", "changed", "source"}, f \in Files :
       send(t, f) \in Work /\ send(t, f) \in WorkOps
  /\ \A f \in Files : <<"load", f>> \in Work /\ <<"listen", f>> \in WorkOps
<1>1. \A op \in StepOps : op[1] # "listen"
  BY DEF StepOps
<1>2. \A op \in StepOps : op \in Work /\ op \in WorkOps
  BY <1>1 DEF Work, WorkOps
<1>3. /\ <<"lock">> \in StepOps /\ <<"locked">> \in StepOps /\ <<"stopEngine">> \in StepOps
      /\ <<"newEngine">> \in StepOps /\ <<"built">> \in StepOps /\ <<"unlock">> \in StepOps
      /\ <<"host">> \in StepOps
  BY DEF StepOps
<1>4. \A t \in {"start", "changed", "source"}, f \in Files :
        send(t, f) \in Work /\ send(t, f) \in WorkOps
  BY DEF send, Work, WorkOps
<1>5. \A f \in Files : <<"load", f>> \in Work /\ <<"listen", f>> \in WorkOps
  BY DEF Work, WorkOps
<1> QED BY <1>2, <1>3, <1>4, <1>5

SwapLeft == SwapProgram \o << send("start", Conf) >>

\* What swap does, operation by operation.
LEMMA SwapAt ==
  /\ SwapLeft \in Seq(Work)
  /\ Len(Preparation) \in Nat
  /\ DOMAIN SwapLeft = 1..(Len(Preparation) + 7)
  /\ SwapLeft[1] = <<"lock">> /\ SwapLeft[2] = <<"locked">>
  /\ SwapLeft[3] = <<"stopEngine">> /\ SwapLeft[4] = <<"newEngine">>
  /\ \A i \in 1..Len(Preparation) : SwapLeft[4 + i] = Preparation[i]
  /\ SwapLeft[Len(Preparation) + 5] = <<"built">>
  /\ SwapLeft[Len(Preparation) + 6] = <<"unlock">>
  /\ SwapLeft[Len(Preparation) + 7] = send("start", Conf)
<1> DEFINE P == Preparation
           n == Len(P)
           H == << <<"lock">>, <<"locked">>, <<"stopEngine">>, <<"newEngine">> >>
           B == << <<"built">> >>
           U == << <<"unlock">> >>
           C == << send("start", Conf) >>
<1>1. P \in Seq(Plain) /\ P \in Seq(Work) /\ n \in Nat
  BY PreparationFacts, PlainFacts
<1>2. H \in Seq(Work) /\ B \in Seq(Work) /\ U \in Seq(Work) /\ C \in Seq(Work)
  BY OpFacts, FileFacts
<1>3. Len(H) = 4 /\ Len(B) = 1 /\ Len(U) = 1 /\ Len(C) = 1
      /\ H[1] = <<"lock">> /\ H[2] = <<"locked">> /\ H[3] = <<"stopEngine">>
      /\ H[4] = <<"newEngine">>
      /\ B[1] = <<"built">> /\ U[1] = <<"unlock">> /\ C[1] = send("start", Conf)
  OBVIOUS
<1>4. SwapLeft = ((H \o (P \o B)) \o U) \o C
  BY DEF SwapLeft, SwapProgram, BuildEngine, Preparation
<1> HIDE DEF P, n, H, B, U, C
<1>5. P \o B \in Seq(Work) /\ Len(P \o B) = n + 1
      /\ (\A i \in 1..n : (P \o B)[i] = P[i]) /\ (P \o B)[n + 1] = <<"built">>
  <2>1. /\ P \o B \in Seq(Work) /\ Len(P) \in Nat /\ Len(B) \in Nat
        /\ Len(P \o B) = Len(P) + Len(B)
        /\ DOMAIN (P \o B) = 1..(Len(P) + Len(B))
        /\ \A i \in 1..Len(P) : (P \o B)[i] = P[i]
        /\ \A i \in 1..Len(B) : (P \o B)[Len(P) + i] = B[i]
    BY <1>1, <1>2, CatAt
  <2>2. 1 \in 1..Len(B)
    BY <1>3
  <2> QED BY <1>1, <1>3, <2>1, <2>2 DEF n
<1> DEFINE PB == P \o B
<1> HIDE DEF PB
<1>6. H \o PB \in Seq(Work) /\ Len(H \o PB) = n + 5
      /\ (\A i \in 1..4 : (H \o PB)[i] = H[i])
      /\ (\A i \in 1..(n + 1) : (H \o PB)[4 + i] = PB[i])
  <2>1. /\ H \o PB \in Seq(Work) /\ Len(H) \in Nat /\ Len(PB) \in Nat
        /\ Len(H \o PB) = Len(H) + Len(PB)
        /\ DOMAIN (H \o PB) = 1..(Len(H) + Len(PB))
        /\ \A i \in 1..Len(H) : (H \o PB)[i] = H[i]
        /\ \A i \in 1..Len(PB) : (H \o PB)[Len(H) + i] = PB[i]
    <3>1. PB \in Seq(Work)
      BY <1>5 DEF PB
    <3> QED BY <1>2, <3>1, CatAt
  <2>2. Len(PB) = n + 1
    BY <1>5 DEF PB
  <2> QED BY <1>1, <1>3, <2>1, <2>2
<1>7. (\A i \in 1..n : (H \o PB)[4 + i] = P[i]) /\ (H \o PB)[n + 5] = <<"built">>
  <2>1. \A i \in 1..n : i \in 1..(n + 1) /\ PB[i] = P[i]
    BY <1>1, <1>5 DEF PB
  <2>2. n + 1 \in 1..(n + 1) /\ 4 + (n + 1) = n + 5 /\ PB[n + 1] = <<"built">>
    BY <1>1, <1>5 DEF PB
  <2>3. (H \o PB)[4 + (n + 1)] = PB[n + 1]
    BY <1>6, <2>2, Zenon
  <2> QED BY <1>6, <2>1, <2>2, <2>3, SMTT(20)
<1> DEFINE HP == H \o PB
<1> HIDE DEF HP
<1>8. HP \o U \in Seq(Work) /\ Len(HP \o U) = n + 6
      /\ (\A i \in 1..(n + 5) : (HP \o U)[i] = HP[i]) /\ (HP \o U)[n + 6] = <<"unlock">>
  <2>1. /\ HP \o U \in Seq(Work) /\ Len(HP) \in Nat /\ Len(U) \in Nat
        /\ Len(HP \o U) = Len(HP) + Len(U)
        /\ DOMAIN (HP \o U) = 1..(Len(HP) + Len(U))
        /\ \A i \in 1..Len(HP) : (HP \o U)[i] = HP[i]
        /\ \A i \in 1..Len(U) : (HP \o U)[Len(HP) + i] = U[i]
    <3>1. HP \in Seq(Work)
      BY <1>6 DEF HP
    <3> QED BY <1>2, <3>1, CatAt
  <2>2. Len(HP) = n + 5
    BY <1>6 DEF HP
  <2>3. 1 \in 1..Len(U)
    BY <1>3
  <2>4. (HP \o U)[Len(HP) + 1] = U[1]
    BY <2>1, <2>3
  <2>5. Len(HP) + 1 = n + 6
    BY <1>1, <2>2
  <2> QED BY <1>1, <1>3, <2>1, <2>2, <2>4, <2>5
<1> DEFINE HU == HP \o U
<1> HIDE DEF HU
<1>9. HU \o C \in Seq(Work) /\ Len(HU \o C) = n + 7 /\ DOMAIN (HU \o C) = 1..(n + 7)
      /\ (\A i \in 1..(n + 6) : (HU \o C)[i] = HU[i])
      /\ (HU \o C)[n + 7] = send("start", Conf)
  <2>1. /\ HU \o C \in Seq(Work) /\ Len(HU) \in Nat /\ Len(C) \in Nat
        /\ Len(HU \o C) = Len(HU) + Len(C)
        /\ DOMAIN (HU \o C) = 1..(Len(HU) + Len(C))
        /\ \A i \in 1..Len(HU) : (HU \o C)[i] = HU[i]
        /\ \A i \in 1..Len(C) : (HU \o C)[Len(HU) + i] = C[i]
    <3>1. HU \in Seq(Work)
      BY <1>8 DEF HU
    <3> QED BY <1>2, <3>1, CatAt
  <2>2. Len(HU) = n + 6
    BY <1>8 DEF HU
  <2>3. 1 \in 1..Len(C)
    BY <1>3
  <2>4. (HU \o C)[Len(HU) + 1] = C[1]
    BY <2>1, <2>3
  <2>5. Len(HU) + 1 = n + 7
    BY <1>1, <2>2
  <2> QED BY <1>1, <1>3, <2>1, <2>2, <2>4, <2>5
<1>10. SwapLeft = HU \o C
  BY <1>4 DEF HU, HP, PB
<1>11. \A i \in 1..(n + 5) : SwapLeft[i] = HP[i]
  <2>1. \A i \in 1..(n + 5) : i \in 1..(n + 6) /\ HU[i] = HP[i]
    BY <1>1, <1>8 DEF HU
  <2> QED BY <1>9, <1>10, <2>1, Zenon
<1>12. SwapLeft[n + 6] = <<"unlock">>
  BY <1>1, <1>8, <1>9, <1>10 DEF HU
<1>13. \A i \in 1..4 : SwapLeft[i] = H[i]
  <2>1. \A i \in 1..4 : i \in 1..(n + 5) /\ HP[i] = H[i]
    BY <1>1, <1>6, SMTT(20) DEF HP
  <2> QED BY <1>11, <2>1
<1>14. \A i \in 1..n : SwapLeft[4 + i] = P[i]
  <2>1. \A i \in 1..n : 4 + i \in 1..(n + 5) 
    BY <1>1
  <2>2. \A i \in 1..n : HP[4 + i] = P[i]
    BY <1>7, Zenon DEF HP
  <2> QED BY <1>11, <2>1, <2>2
<1>15. SwapLeft[n + 5] = <<"built">>
  <2>1. n + 5 \in 1..(n + 5) /\ HP[n + 5] = <<"built">>
    BY <1>1, <1>7 DEF HP
  <2> QED BY <1>11, <2>1
<1>16. SwapLeft[1] = H[1] /\ SwapLeft[2] = H[2] /\ SwapLeft[3] = H[3] /\ SwapLeft[4] = H[4]
  BY <1>13
<1> QED BY <1>1, <1>3, <1>9, <1>10, <1>12, <1>14, <1>15, <1>16, Zenon DEF P, n

\* What swap leaves to do: all of the critical section, in order, and a watch and
\* a listener for every file after the old engine is shut down.
LEMMA SwapFacts ==
  /\ SwapLeft \in Seq(Work) /\ SwapLeft # <<>>
  /\ InOrder(SwapLeft) /\ LeftFrom(SwapLeft, 1)
  /\ \A f \in Files : Within(send("start", f), SwapLeft)
  /\ \A f \in Files \ {Conf} :
       \E j \in DOMAIN SwapLeft :
         /\ SwapLeft[j] = <<"listen", f>>
         /\ \A i \in DOMAIN SwapLeft : i > j => SwapLeft[i] # <<"stopEngine">>
<1> DEFINE q == SwapLeft
           n == Len(Preparation)
<1>1. n \in Nat /\ DOMAIN q = 1..(n + 7) /\ Preparation \in Seq(Plain)
  BY SwapAt, PreparationFacts
<1>2. \A i \in 1..n : Preparation[i] \in Plain
  BY <1>1
<1>3. \A i \in DOMAIN q :
        \/ i \in 1..4
        \/ i > 4 /\ i < n + 5 /\ q[i] \in Plain
        \/ i = n + 5 \/ i = n + 6 \/ i = n + 7
  <2> TAKE i \in DOMAIN q
  <2>1. i > 4 /\ i < n + 5 => i - 4 \in 1..n /\ 4 + (i - 4) = i
    BY <1>1
  <2>2. i > 4 /\ i < n + 5 => q[i] \in Plain
    BY <1>2, <2>1, SwapAt
  <2> QED BY <1>1, <2>2
<1>4. /\ q[1] = <<"lock">> /\ q[2] = <<"locked">> /\ q[3] = <<"stopEngine">>
      /\ q[4] = <<"newEngine">>
      /\ q[n + 5] = <<"built">> /\ q[n + 6] = <<"unlock">> /\ q[n + 7] = send("start", Conf)
  BY SwapAt
<1>5. /\ Rank(q[1]) = 1 /\ Rank(q[2]) = 2 /\ Rank(q[3]) = 3 /\ Rank(q[4]) = 0
      /\ Rank(q[n + 5]) = 4 /\ Rank(q[n + 6]) = 5 /\ Rank(q[n + 7]) = 0
  BY <1>4 DEF Rank, send
<1>6. \A i \in DOMAIN q : i > 4 /\ i < n + 5 => Rank(q[i]) = 0
  BY <1>1, <1>3, PlainFacts
<1> HIDE DEF q, n
<1>7. InOrder(q)
  BY <1>1, <1>5, <1>6 DEF InOrder
<1>8. LeftFrom(q, 1)
  <2>1. 1 \in DOMAIN q /\ 2 \in DOMAIN q /\ 3 \in DOMAIN q /\ n + 5 \in DOMAIN q
        /\ n + 6 \in DOMAIN q
    BY <1>1
  <2>2. \A r \in 1..5 : r = 1 \/ r = 2 \/ r = 3 \/ r = 4 \/ r = 5
    OBVIOUS
  <2>3. \A r \in 1..5 : \E i \in DOMAIN q : Rank(q[i]) = r
    BY <1>5, <2>1, <2>2
  <2> QED BY <2>3 DEF LeftFrom
<1>9. ASSUME NEW e, Within(e, Preparation)
      PROVE  \E j \in DOMAIN q : q[j] = e /\ j > 4
  <2>1. PICK i \in 1..n : Preparation[i] = e
    BY <1>1, <1>9 DEF Within, n
  <2>2. 4 + i \in DOMAIN q /\ 4 + i > 4
    BY <1>1, <2>1
  <2>3. q[4 + i] = e
    BY <2>1, SwapAt DEF q, n
  <2> QED BY <2>2, <2>3
<1>10. \A f \in Files : Within(send("start", f), q)
  <2> TAKE f \in Files
  <2>1. CASE f = Conf
    <3>1. n + 7 \in DOMAIN q
      BY <1>1
    <3> QED BY <1>4, <2>1, <3>1 DEF Within
  <2>2. CASE f # Conf
    BY <1>9, <2>2, PreparationFacts DEF Within
  <2> QED BY <2>1, <2>2
<1>11. \A i \in DOMAIN q : i > 4 => q[i] # <<"stopEngine">>
  <2> TAKE i \in DOMAIN q
  <2>1. q[i] = <<"stopEngine">> => Rank(q[i]) = 3
    BY DEF Rank
  <2>2. i > 4 => Rank(q[i]) # 3
    BY <1>1, <1>5, <1>6
  <2> QED BY <2>1, <2>2
<1>12. ASSUME NEW f \in Files \ {Conf}
       PROVE  \E j \in DOMAIN q :
                /\ q[j] = <<"listen", f>>
                /\ \A i \in DOMAIN q : i > j => q[i] # <<"stopEngine">>
  <2>1. PICK j \in DOMAIN q : q[j] = <<"listen", f>> /\ j > 4
    BY <1>9, PreparationFacts, Zenon
  <2>2. \A i \in DOMAIN q : i > j => i > 4
    BY <1>1, <2>1
  <2> QED BY <1>11, <2>1, <2>2
<1>13. SwapLeft \in Seq(Work) /\ SwapLeft # <<>>
  BY SwapAt
<1> QED BY <1>7, <1>8, <1>10, <1>12, <1>13 DEF q

\* What main does: as NewEngine, and then the watch of and the listener for the
\* configuration file.
LEMMA BootFacts ==
  /\ BootProgram \in Seq(WorkOps)
  /\ MainOrder(BootProgram)
  /\ \E i \in DOMAIN BootProgram : BootProgram[i][1] = "built"
  /\ \A f \in Files :
       Within(send("start", f), BootProgram) /\ Within(<<"listen", f>>, BootProgram)
<1> DEFINE P == Preparation
           n == Len(P)
           B == << <<"built">> >>
           C == << send("start", Conf), <<"listen", Conf>> >>
           H == << <<"host">> >>
           q == BootProgram
<1>1. P \in Seq(Plain) /\ P \in Seq(WorkOps) /\ n \in Nat /\ \A i \in 1..n : P[i] \in Plain
  BY PreparationFacts, PlainFacts
<1>2. B \in Seq(WorkOps) /\ C \in Seq(WorkOps) /\ H \in Seq(WorkOps)
  <2>1. /\ <<"built">> \in WorkOps /\ <<"host">> \in WorkOps
        /\ send("start", Conf) \in WorkOps /\ <<"listen", Conf>> \in WorkOps
    BY OpFacts, FileFacts, Zenon
  <2> QED BY <2>1
<1>3. /\ Len(B) = 1 /\ Len(C) = 2 /\ Len(H) = 1
      /\ B[1] = <<"built">> /\ C[1] = send("start", Conf) /\ C[2] = <<"listen", Conf>>
      /\ H[1] = <<"host">>
  OBVIOUS
<1>4. q = ((P \o B) \o C) \o H
  BY DEF BootProgram, NewReloadingEngine, BuildEngine, Preparation
<1> HIDE DEF P, n, B, C, H, q
<1> DEFINE PB == P \o B
           PC == PB \o C
<1>5. /\ PB \in Seq(WorkOps) /\ Len(PB) = Len(P) + Len(B)
      /\ \A i \in 1..Len(P) : PB[i] = P[i]
      /\ \A i \in 1..Len(B) : PB[Len(P) + i] = B[i]
  BY <1>1, <1>2, CatAt
<1> HIDE DEF PB
<1>6. /\ PC \in Seq(WorkOps) /\ Len(PC) = Len(PB) + Len(C)
      /\ \A i \in 1..Len(PB) : PC[i] = PB[i]
      /\ \A i \in 1..Len(C) : PC[Len(PB) + i] = C[i]
  <2>1. PB \in Seq(WorkOps)
    BY <1>5
  <2> QED BY <1>2, <2>1, CatAt
<1> HIDE DEF PC
<1>7. /\ q \in Seq(WorkOps) /\ DOMAIN q = 1..(Len(PC) + Len(H))
      /\ \A i \in 1..Len(PC) : q[i] = PC[i]
      /\ \A i \in 1..Len(H) : q[Len(PC) + i] = H[i]
  <2>1. q = PC \o H
    BY <1>4 DEF PC, PB
  <2>2. PC \in Seq(WorkOps)
    BY <1>6
  <2>3. /\ PC \o H \in Seq(WorkOps) /\ DOMAIN (PC \o H) = 1..(Len(PC) + Len(H))
        /\ \A i \in 1..Len(PC) : (PC \o H)[i] = PC[i]
        /\ \A i \in 1..Len(H) : (PC \o H)[Len(PC) + i] = H[i]
    BY <1>2, <2>2, CatAt
  <2> QED BY <2>1, <2>3
<1>8. Len(PB) = n + 1 /\ Len(PC) = n + 3 /\ DOMAIN q = 1..(n + 4)
  BY <1>1, <1>3, <1>5, <1>6, <1>7 DEF n
<1>9. \A i \in 1..n : q[i] = P[i]
  <2> TAKE i \in 1..n
  <2>1. i \in 1..Len(P) /\ i \in 1..Len(PB) /\ i \in 1..Len(PC)
    BY <1>1, <1>8 DEF n
  <2> QED BY <1>5, <1>6, <1>7, <2>1
<1>10. q[n + 1] = <<"built">>
  <2>1. n + 1 \in 1..Len(PB) /\ n + 1 \in 1..Len(PC) /\ 1 \in 1..Len(B)
    BY <1>1, <1>3, <1>8
  <2>2. PB[Len(P) + 1] = B[1]
    BY <1>5, <2>1
  <2> QED BY <1>3, <1>6, <1>7, <2>1, <2>2 DEF n
<1>11. q[n + 2] = send("start", Conf) /\ q[n + 3] = <<"listen", Conf>>
  <2>1. n + 2 \in 1..Len(PC) /\ n + 3 \in 1..Len(PC) /\ 1 \in 1..Len(C) /\ 2 \in 1..Len(C)
        /\ Len(PB) + 1 = n + 2 /\ Len(PB) + 2 = n + 3
    BY <1>1, <1>3, <1>8
  <2>2. PC[Len(PB) + 1] = C[1] /\ PC[Len(PB) + 2] = C[2]
    BY <1>6, <2>1
  <2> QED BY <1>3, <1>7, <2>1, <2>2
<1>12. q[n + 4] = <<"host">>
  <2>1. 1 \in 1..Len(H) /\ Len(PC) + 1 = n + 4
    BY <1>1, <1>3, <1>8
  <2>2. q[Len(PC) + 1] = H[1]
    BY <1>7, <2>1
  <2> QED BY <1>3, <2>1, <2>2
<1>13. MainOrder(q)
  <2> SUFFICES ASSUME NEW i \in DOMAIN q, NEW j \in DOMAIN q, i < j, q[i] = <<"listen", Conf>>
               PROVE  q[j][1] \notin {"listen", "built"}
    BY DEF MainOrder
  <2>1. i \notin 1..n
    BY <1>1, <1>9, PlainFacts
  <2>2. i # n + 1 /\ i # n + 2
    BY <1>10, <1>11 DEF send
  <2>3. j = n + 4
    BY <1>1, <1>8, <2>1, <2>2
  <2> QED BY <1>12, <2>3
<1>14. \E i \in DOMAIN q : q[i][1] = "built"
  <2>1. n + 1 \in DOMAIN q
    BY <1>1, <1>8
  <2> QED BY <1>10, <2>1
<1>15. \A e : Within(e, P) => Within(e, q)
  <2> SUFFICES ASSUME NEW e, NEW i \in DOMAIN P, P[i] = e PROVE Within(e, q)
    BY DEF Within
  <2>1. i \in 1..n /\ i \in DOMAIN q
    BY <1>1, <1>8 DEF n
  <2> QED BY <1>9, <2>1 DEF Within
<1>16. \A f \in Files : Within(send("start", f), q) /\ Within(<<"listen", f>>, q)
  <2> TAKE f \in Files
  <2>1. CASE f = Conf
    <3>1. n + 2 \in DOMAIN q /\ n + 3 \in DOMAIN q
      BY <1>1, <1>8
    <3> QED BY <1>11, <2>1, <3>1 DEF Within
  <2>2. CASE f # Conf
    BY <1>15, <2>2, PreparationFacts DEF P
  <2> QED BY <2>1, <2>2
<1> QED BY <1>7, <1>13, <1>14, <1>16 DEF q

\* A sequence of one operation.
LEMMA OneAt ==
  ASSUME NEW a, NEW q, q = <<a>>
  PROVE  DOMAIN q = 1..1 /\ q[1] = a /\ \A i \in DOMAIN q : q[i] = a
OBVIOUS

\* A sequence of two operations.
LEMMA TwoAt ==
  ASSUME NEW a, NEW b, NEW q, q = <<a, b>>
  PROVE  DOMAIN q = 1..2 /\ q[1] = a /\ q[2] = b /\ \A i \in DOMAIN q : q[i] = a \/ q[i] = b
OBVIOUS

\* A sequence of three operations.
LEMMA ThreeAt ==
  ASSUME NEW a, NEW b, NEW c, NEW q, q = <<a, b, c>>
  PROVE  /\ DOMAIN q = 1..3 /\ q[1] = a /\ q[2] = b /\ q[3] = c
         /\ \A i \in DOMAIN q : q[i] = a \/ q[i] = b \/ q[i] = c
OBVIOUS

\* Up to three operations of a set are a sequence over it.
LEMMA UpToThree ==
  ASSUME NEW S, NEW a \in S, NEW b \in S, NEW c \in S
  PROVE  <<>> \in Seq(S) /\ <<a>> \in Seq(S) /\ <<a, b>> \in Seq(S) /\ <<a, b, c>> \in Seq(S)
OBVIOUS

\* The operations by their name.
LEMMA WorkFacts ==
  ASSUME NEW op \in WorkOps
  PROVE  /\ op[1] \in {"download", "lock", "locked", "stopEngine", "newEngine", "built",
                       "unlock", "host", "load", "listen", "send"}
         /\ op[1] \in {"load", "listen"} => op[2] \in Files /\ op = <<op[1], op[2]>>
         /\ op[1] = "send" => /\ op[2] \in {"start", "changed", "source"} /\ op[3] \in Files
                              /\ op = send(op[2], op[3])
         /\ op[1] = "stopEngine" => op = <<"stopEngine">>
         /\ op \in AllOps
<1>0. op \in AllOps
  BY DEF AllOps
<1>1. CASE op \in StepOps
  BY <1>0, <1>1 DEF StepOps
<1>2. CASE op \in {"load", "listen"} \X Files
  BY <1>0, <1>2
<1>3. CASE op \in {"send"} \X {"start", "changed", "source"} \X Files
  BY <1>0, <1>3 DEF send
<1> QED BY <1>1, <1>2, <1>3 DEF WorkOps

\* The programs that are not made of work, one operation at a time.
LEMMA ShortPrograms ==
  /\ \A f \in Files :
       /\ StartProgram(f) # <<>> /\ Head(StartProgram(f)) = <<"unwatch", f>>
       /\ Tail(StartProgram(f)) = << <<"hash", f>>, <<"watch", f>> >>
       /\ Head(<< <<"hash", f>>, <<"watch", f>> >>) = <<"hash", f>>
       /\ Tail(<< <<"hash", f>>, <<"watch", f>> >>) = << <<"watch", f>> >>
       /\ Head(<< <<"watch", f>> >>) = <<"watch", f>> /\ Tail(<< <<"watch", f>> >>) = <<>>
  /\ Head(<< <<"clear">> >>) = <<"clear">> /\ Tail(<< <<"clear">> >>) = <<>>
  /\ Head(ConfProgram) = send("clear", Conf)
  /\ Tail(ConfProgram) = << <<"loadConf">>, send("start", Conf) >>
  /\ Head(<< <<"loadConf">>, send("start", Conf) >>) = <<"loadConf">>
  /\ Tail(<< <<"loadConf">>, send("start", Conf) >>) = << send("start", Conf) >>
  /\ << send("start", Conf) >> \in Seq(Work)
<1>1. ASSUME NEW f \in Files
      PROVE  /\ StartProgram(f) # <<>> /\ Head(StartProgram(f)) = <<"unwatch", f>>
             /\ Tail(StartProgram(f)) = << <<"hash", f>>, <<"watch", f>> >>
             /\ Head(<< <<"hash", f>>, <<"watch", f>> >>) = <<"hash", f>>
             /\ Tail(<< <<"hash", f>>, <<"watch", f>> >>) = << <<"watch", f>> >>
             /\ Head(<< <<"watch", f>> >>) = <<"watch", f>>
             /\ Tail(<< <<"watch", f>> >>) = <<>>
  BY DEF StartProgram
<1>2. Head(<< <<"clear">> >>) = <<"clear">> /\ Tail(<< <<"clear">> >>) = <<>>
  OBVIOUS
<1>3. /\ Head(ConfProgram) = send("clear", Conf)
      /\ Tail(ConfProgram) = << <<"loadConf">>, send("start", Conf) >>
  BY DEF ConfProgram
<1>4. /\ Head(<< <<"loadConf">>, send("start", Conf) >>) = <<"loadConf">>
      /\ Tail(<< <<"loadConf">>, send("start", Conf) >>) = << send("start", Conf) >>
  OBVIOUS
<1>5. send("start", Conf) \in Work
  BY OpFacts, FileFacts
<1>6. << send("start", Conf) >> \in Seq(Work)
  BY <1>5
<1> QED BY <1>1, <1>2, <1>3, <1>4, <1>6

\* What is left of what the bus may have to do is such, and no clear comes later.
LEMMA ShapeTail ==
  ASSUME NEW q, Shape(q), q # <<>>
  PROVE  Shape(Tail(q)) /\ Tail(q) # << <<"clear">> >>
<1> DEFINE K == << <<"clear">> >>
<1>0. \A s \in Seq(Work) : s # K
  <2> SUFFICES ASSUME K \in Seq(Work) PROVE FALSE
    OBVIOUS
  <2>1. K[1] = <<"clear">> /\ K[1] \in Work
    OBVIOUS
  <2>2. <<"clear">> \in WorkOps
    BY <2>1 DEF Work
  <2>3. <<"clear">>[1] = "clear"
    OBVIOUS
  <2> QED BY <2>2, <2>3, WorkFacts
<1>1. CASE q \in Seq(Work)
  <2>1. Tail(q) \in Seq(Work)
    BY <1>1
  <2> QED BY <1>0, <2>1, Zenon DEF Shape
<1>2. ASSUME NEW f \in Files, q = StartProgram(f) PROVE Shape(Tail(q)) /\ Tail(q) # K
  <2>1. Tail(q) = << <<"hash", f>>, <<"watch", f>> >>
    BY <1>2, ShortPrograms, Zenon
  <2> QED BY <2>1 DEF Shape
<1>3. ASSUME NEW f \in Files, q = << <<"hash", f>>, <<"watch", f>> >>
      PROVE  Shape(Tail(q)) /\ Tail(q) # K
  <2>1. Tail(q) = << <<"watch", f>> >>
    BY <1>3, ShortPrograms
  <2>2. Shape(Tail(q))
    BY <2>1 DEF Shape
  <2> QED BY <2>1, <2>2
<1>4. ASSUME Tail(q) = <<>> PROVE Shape(Tail(q)) /\ Tail(q) # K
  <2>0. <<>> \in Seq(Work)
    OBVIOUS
  <2>1. Tail(q) \in Seq(Work)
    BY <1>4, <2>0, Zenon
  <2> QED BY <1>0, <2>1, Zenon DEF Shape
<1>5. CASE q = ConfProgram
  <2>1. Tail(q) = << <<"loadConf">>, send("start", Conf) >>
    BY <1>5, ShortPrograms
  <2> QED BY <2>1 DEF Shape
<1>6. CASE q = << <<"loadConf">>, send("start", Conf) >>
  <2>1. Tail(q) \in Seq(Work)
    BY <1>6, ShortPrograms
  <2> QED BY <1>0, <2>1 DEF Shape
<1>7. ASSUME NEW f \in Files, q = << <<"watch", f>> >> PROVE Tail(q) = <<>>
  BY <1>7, ShortPrograms
<1>8. ASSUME q = << <<"clear">> >> PROVE Tail(q) = <<>>
  BY <1>8, ShortPrograms
<1> HIDE DEF K
<1> QED BY <1>1, <1>2, <1>3, <1>4, <1>5, <1>6, <1>7, <1>8 DEF Shape, K

\* What comes first tells what is left.
LEMMA ShapeHead ==
  ASSUME NEW q, Shape(q), q # <<>>
  PROVE  \/ Head(q) \in Work /\ q \in Seq(Work)
         \/ \E f \in Files : q = StartProgram(f) /\ Head(q) = <<"unwatch", f>>
         \/ \E f \in Files :
              q = << <<"hash", f>>, <<"watch", f>> >> /\ Head(q) = <<"hash", f>>
         \/ \E f \in Files : q = << <<"watch", f>> >> /\ Head(q) = <<"watch", f>>
         \/ q = << <<"clear">> >> /\ Head(q) = <<"clear">>
         \/ q = ConfProgram /\ Head(q) = send("clear", Conf)
         \/ q = << <<"loadConf">>, send("start", Conf) >> /\ Head(q) = <<"loadConf">>
<1>1. q \in Seq(Work) => Head(q) \in Work
  OBVIOUS
<1> QED BY <1>1, ShortPrograms, Zenon DEF Shape

\* The same by the name of the first operation.
LEMMA HeadFacts ==
  ASSUME NEW q, Shape(q), q # <<>>, NEW op, op = Head(q)
  PROVE  /\ op[1] = "unwatch" => op[2] \in Files /\ q = StartProgram(op[2])
         /\ op[1] = "hash" =>
              op[2] \in Files /\ q = << <<"hash", op[2]>>, <<"watch", op[2]>> >>
         /\ op[1] = "watch" => op[2] \in Files /\ q = << <<"watch", op[2]>> >>
         /\ op[1] = "clear" => q = << <<"clear">> >>
         /\ op[1] = "loadConf" => q = << <<"loadConf">>, send("start", Conf) >>
         /\ op[1] = "send" => \/ q = ConfProgram /\ op[2] = "clear" /\ op[3] = Conf
                              \/ op[2] \in {"start", "changed", "source"} /\ op[3] \in Files
                                 /\ op = send(op[2], op[3]) /\ q \in Seq(Work)
         /\ op[1] = "load" => op[2] \in Files
         /\ op[1] = "listen" => op[2] \in Files \ {Conf} /\ op = <<"listen", op[2]>>
         /\ op[1] = "stopEngine" => op = <<"stopEngine">>
         /\ op[1] \notin {"unwatch", "hash", "watch", "clear", "loadConf", "send"} =>
              q \in Seq(Work)
         /\ op[1] \notin {"endWatch", "endWatchAck", "closeWatcher"}
<1>1. CASE op \in Work /\ q \in Seq(Work)
  <2>1. op \in WorkOps /\ op # <<"listen", Conf>>
    BY <1>1, Zenon DEF Work
  <2> QED BY <1>1, <2>1, WorkFacts
<1>2. CASE \E f \in Files : q = StartProgram(f) /\ op = <<"unwatch", f>>
  BY <1>2
<1>3. CASE \E f \in Files : q = << <<"hash", f>>, <<"watch", f>> >> /\ op = <<"hash", f>>
  <2>1. PICK f \in Files : q = << <<"hash", f>>, <<"watch", f>> >> /\ op = <<"hash", f>>
    BY <1>3
  <2>2. op[1] = "hash" /\ op[2] = f
    BY <2>1
  <2> QED BY <2>1, <2>2
<1>4. CASE \E f \in Files : q = << <<"watch", f>> >> /\ op = <<"watch", f>>
  <2>1. PICK f \in Files : q = << <<"watch", f>> >> /\ op = <<"watch", f>>
    BY <1>4
  <2>2. op[1] = "watch" /\ op[2] = f
    BY <2>1
  <2> QED BY <2>1, <2>2
<1>5. CASE q = << <<"clear">> >> /\ op = <<"clear">>
  <2>1. op[1] = "clear"
    BY <1>5
  <2> QED BY <1>5, <2>1
<1>6. CASE q = ConfProgram /\ op = send("clear", Conf)
  <2>1. op[1] = "send" /\ op[2] = "clear" /\ op[3] = Conf
    BY <1>6 DEF send
  <2> QED BY <1>6, <2>1
<1>7. CASE q = << <<"loadConf">>, send("start", Conf) >> /\ op = <<"loadConf">>
  <2>1. op[1] = "loadConf"
    BY <1>7
  <2> QED BY <1>7, <2>1
<1> QED BY <1>1, <1>2, <1>3, <1>4, <1>5, <1>6, <1>7, ShapeHead, Zenon

\* All of it is made of the operations there are.
LEMMA ShapeType ==
  ASSUME NEW q, Shape(q)
  PROVE  q \in Seq(AllOps)
<1>1. Work \subseteq AllOps
  BY DEF Work, AllOps
<1>2. CASE q \in Seq(Work)
  BY <1>1, <1>2
<1>3. \A f \in Files : /\ <<"unwatch", f>> \in AllOps /\ <<"hash", f>> \in AllOps
                       /\ <<"watch", f>> \in AllOps
  BY DEF AllOps, WatchOps
<1>4. /\ <<"clear">> \in AllOps /\ <<"loadConf">> \in AllOps /\ send("clear", Conf) \in AllOps
      /\ send("start", Conf) \in AllOps
  <2>1. send("start", Conf) \in Work
    BY OpFacts, FileFacts
  <2> QED BY <1>1, <2>1 DEF AllOps, OtherOps
<1>5. ASSUME NEW f \in Files, q \in {StartProgram(f), << <<"hash", f>>, <<"watch", f>> >>,
                                     << <<"watch", f>> >>}
      PROVE  q \in Seq(AllOps)
  BY <1>3, <1>5, UpToThree, Zenon DEF StartProgram
<1>6. ASSUME q \in {ConfProgram, << <<"loadConf">>, send("start", Conf) >>}
      PROVE  q \in Seq(AllOps)
  BY <1>4, <1>6, UpToThree, Zenon DEF ConfProgram
<1>7. CASE q = << <<"clear">> >>
  BY <1>4, <1>7
<1> QED BY <1>2, <1>5, <1>6, <1>7 DEF Shape

\* No program but a swap has to do with the lock and the engine.
LEMMA NoRank ==
  /\ \A f \in Files : \A q \in {StartProgram(f), << <<"hash", f>>, <<"watch", f>> >>,
                            << <<"watch", f>> >>, << <<"clear">> >>, ConfProgram,
                            << <<"loadConf">>, send("start", Conf) >>} :
       \A i \in DOMAIN q : Rank(q[i]) = 0
  /\ \A f \in Files : \A q \in {ListProgram(f), SourceProgram(f)} :
       \A i \in DOMAIN q : Rank(q[i]) = 0
<1>1. ASSUME NEW f \in Files PROVE
        /\ Rank(<<"unwatch", f>>) = 0 /\ Rank(<<"hash", f>>) = 0 /\ Rank(<<"watch", f>>) = 0
        /\ Rank(<<"clear">>) = 0 /\ Rank(<<"loadConf">>) = 0 /\ Rank(<<"load", f>>) = 0
        /\ \A t, g : Rank(send(t, g)) = 0
  BY DEF Rank, send
<1>2. ASSUME NEW f \in Files, NEW q, q = StartProgram(f), NEW i \in DOMAIN q
      PROVE  Rank(q[i]) = 0
  <2>1. q[i] = <<"unwatch", f>> \/ q[i] = <<"hash", f>> \/ q[i] = <<"watch", f>>
    BY <1>2, ThreeAt DEF StartProgram
  <2> QED BY <1>1, <2>1, Zenon
<1>3. ASSUME NEW f \in Files, NEW q, q = << <<"hash", f>>, <<"watch", f>> >>, NEW i \in DOMAIN q
      PROVE  Rank(q[i]) = 0
  <2>1. q[i] = <<"hash", f>> \/ q[i] = <<"watch", f>>
    BY <1>3, TwoAt
  <2> QED BY <1>1, <2>1, Zenon
<1>4. ASSUME NEW f \in Files, NEW q, q = << <<"watch", f>> >>, NEW i \in DOMAIN q
      PROVE  Rank(q[i]) = 0
  <2>1. q[i] = <<"watch", f>>
    BY <1>4, OneAt
  <2> QED BY <1>1, <2>1, Zenon
<1>5. ASSUME NEW f \in Files, NEW q, q = << <<"clear">> >>, NEW i \in DOMAIN q
      PROVE  Rank(q[i]) = 0
  <2>1. q[i] = <<"clear">>
    BY <1>5, OneAt
  <2> QED BY <1>1, <2>1, Zenon
<1>6. ASSUME NEW f \in Files, NEW q, q = ConfProgram, NEW i \in DOMAIN q
      PROVE  Rank(q[i]) = 0
  <2>1. q[i] = send("clear", Conf) \/ q[i] = <<"loadConf">> \/ q[i] = send("start", Conf)
    BY <1>6, ThreeAt DEF ConfProgram
  <2> QED BY <1>1, <2>1, Zenon
<1>7. ASSUME NEW f \in Files, NEW q, q = << <<"loadConf">>, send("start", Conf) >>, NEW i \in DOMAIN q
      PROVE  Rank(q[i]) = 0
  <2>1. q[i] = <<"loadConf">> \/ q[i] = send("start", Conf)
    BY <1>7, TwoAt
  <2> QED BY <1>1, <2>1, Zenon
<1>8. ASSUME NEW f \in Files, NEW q, q = ListProgram(f), NEW i \in DOMAIN q
      PROVE  Rank(q[i]) = 0
  <2>1. q[i] = <<"load", f>> \/ q[i] = send("changed", f) \/ q[i] = send("start", f)
    BY <1>8, ThreeAt DEF ListProgram
  <2> QED BY <1>1, <2>1, Zenon
<1>9. ASSUME NEW f \in Files, NEW q, q = SourceProgram(f), NEW i \in DOMAIN q
      PROVE  Rank(q[i]) = 0
  <2>1. q[i] = <<"load", f>> \/ q[i] = send("start", f) \/ q[i] = send("source", f)
    BY <1>9, ThreeAt DEF SourceProgram
  <2> QED BY <1>1, <2>1, Zenon
<1> QED BY <1>2, <1>3, <1>4, <1>5, <1>6, <1>7, <1>8, <1>9

\* Work is not the reload of the configuration.
LEMMA WorkNoConf ==
  ASSUME NEW q \in Seq(Work)
  PROVE  ~Within(<<"loadConf">>, q) /\ q # << <<"clear">> >>
<1>1. \A i \in DOMAIN q : q[i] \in WorkOps
  BY DEF Work
<1>2. \A i \in DOMAIN q : q[i][1] # "loadConf" /\ q[i][1] # "clear"
  BY <1>1, WorkFacts
<1>3. ~Within(<<"loadConf">>, q)
  BY <1>2 DEF Within
<1>4. ASSUME q = << <<"clear">> >> PROVE FALSE
  <2>1. 1 \in DOMAIN q /\ q[1] = <<"clear">>
    BY <1>4, OneAt, SMTT(20)
  <2> QED BY <1>2, <2>1
<1> QED BY <1>3, <1>4

\* The listener of an event, for each topic.
LEMMA ProgramFacts ==
  ASSUME NEW e \in Topics \X Files
  PROVE  /\ Program(e) \in Seq(AllOps)
         /\ e[1] # "close" =>
              Shape(Program(e)) /\ \A i \in DOMAIN Program(e) : Rank(Program(e)[i]) = 0
         /\ \/ Program(e) = ConfProgram /\ Conf \in listening
            \/ ~Within(<<"loadConf">>, Program(e))
         /\ e[1] = "start" => Program(e) = StartProgram(e[2])
         /\ e[1] # "clear" => Program(e) # << <<"clear">> >>
<1> DEFINE q == Program(e)
           f == e[2]
<1>0. f \in Files
  OBVIOUS
<1>1. CASE e[1] = "file" /\ f \in listening /\ f = Conf
  <2>1. q = ConfProgram
    BY <1>1 DEF Program
  <2>2. Shape(q) /\ \A i \in DOMAIN q : Rank(q[i]) = 0
    BY <1>0, <2>1, NoRank, Zenon DEF Shape
  <2>3. q # << <<"clear">> >>
    <3>1. DOMAIN ConfProgram = 1..3
      BY ThreeAt DEF ConfProgram
    <3>2. DOMAIN << <<"clear">> >> = 1..1
      BY OneAt
    <3>3. 3 \in 1..3 /\ 3 \notin 1..1
      OBVIOUS
    <3> QED BY <2>1, <3>1, <3>2, <3>3
  <2>4. q \in Seq(AllOps)
    BY <2>2, ShapeType
  <2> HIDE DEF q
  <2> QED BY <1>1, <2>1, <2>2, <2>3, <2>4 DEF q
<1>2. ASSUME q \in Seq(Work), \A i \in DOMAIN q : Rank(q[i]) = 0, e[1] # "start"
      PROVE  /\ q \in Seq(AllOps) /\ Shape(q) /\ \A i \in DOMAIN q : Rank(q[i]) = 0
             /\ ~Within(<<"loadConf">>, q) /\ q # << <<"clear">> >>
  <2> HIDE DEF q
  <2>1. Shape(q)
    BY <1>2 DEF Shape
  <2> QED BY <1>2, <2>1, ShapeType, WorkNoConf
<1>3. CASE e[1] = "file" /\ f \in listening /\ f # Conf
  <2>1. q = ListProgram(f) \/ q = SourceProgram(f)
    BY <1>3 DEF Program
  <2>2. ListProgram(f) \in Seq(Work) /\ SourceProgram(f) \in Seq(Work)
    <3>1. /\ <<"load", f>> \in Work /\ send("changed", f) \in Work /\ send("start", f) \in Work
          /\ send("source", f) \in Work
      BY <1>0, OpFacts, Zenon
    <3> QED BY <3>1, UpToThree DEF ListProgram, SourceProgram
  <2>3. \A i \in DOMAIN q : Rank(q[i]) = 0
    BY <1>0, <2>1, NoRank
  <2> HIDE DEF q
  <2>4. q \in Seq(Work)
    BY <2>1, <2>2
  <2> QED BY <1>2, <1>3, <2>3, <2>4 DEF q
<1>4. CASE e[1] = "start"
  <2>1. q = StartProgram(f)
    BY <1>4 DEF Program
  <2>2. Shape(q) /\ \A i \in DOMAIN q : Rank(q[i]) = 0
    BY <1>0, <2>1, NoRank, Zenon DEF Shape
  <2>3. /\ DOMAIN q = 1..3 /\ q[1] = <<"unwatch", f>>
        /\ \A i \in DOMAIN q :
             q[i] = <<"unwatch", f>> \/ q[i] = <<"hash", f>> \/ q[i] = <<"watch", f>>
    BY <2>1, ThreeAt DEF StartProgram
  <2> HIDE DEF q
  <2>4. ~Within(<<"loadConf">>, q)
    BY <2>3 DEF Within
  <2>5. ASSUME q = << <<"clear">> >> PROVE FALSE
    <3>1. q[1] = <<"clear">>
      BY <2>5, OneAt
    <3> QED BY <2>3, <3>1
  <2>6. q \in Seq(AllOps)
    BY <2>2, ShapeType
  <2> QED BY <1>4, <2>1, <2>2, <2>4, <2>5, <2>6 DEF q
<1>5. CASE e[1] = "clear"
  <2>1. q = << <<"clear">> >>
    BY <1>5 DEF Program
  <2>2. Shape(q) /\ \A i \in DOMAIN q : Rank(q[i]) = 0
    BY <1>0, <2>1, NoRank, Zenon DEF Shape
  <2>3. \A i \in DOMAIN q : q[i] = <<"clear">>
    BY <2>1, OneAt
  <2> HIDE DEF q
  <2>4. ~Within(<<"loadConf">>, q)
    BY <2>3 DEF Within
  <2>5. q \in Seq(AllOps)
    BY <2>2, ShapeType
  <2> QED BY <1>5, <2>2, <2>4, <2>5 DEF q
<1>6. CASE e[1] = "close"
  <2>1. q = CloseProgram
    BY <1>6 DEF Program
  <2>2. /\ <<"endWatch">> \in AllOps /\ <<"endWatchAck">> \in AllOps
        /\ <<"closeWatcher">> \in AllOps
    BY DEF AllOps, OtherOps
  <2>3. q \in Seq(AllOps)
    BY <2>1, <2>2, UpToThree DEF CloseProgram
  <2>4. /\ DOMAIN q = 1..3 /\ q[1] = <<"endWatch">>
        /\ \A i \in DOMAIN q :
             q[i] = <<"endWatch">> \/ q[i] = <<"endWatchAck">> \/ q[i] = <<"closeWatcher">>
    BY <2>1, ThreeAt DEF CloseProgram
  <2> HIDE DEF q
  <2>5. ~Within(<<"loadConf">>, q)
    BY <2>4 DEF Within
  <2>6. ASSUME q = << <<"clear">> >> PROVE FALSE
    <3>1. q[1] = <<"clear">>
      BY <2>6, OneAt
    <3> QED BY <2>4, <3>1
  <2> QED BY <1>6, <2>3, <2>5, <2>6 DEF q
<1>7. CASE /\ ~(e[1] = "file" /\ f \in listening) /\ e[1] # "start" /\ e[1] # "clear"
           /\ e[1] # "close"
  <2>1. q = <<>>
    BY <1>7 DEF Program
  <2> HIDE DEF q
  <2>2. q \in Seq(Work) /\ \A i \in DOMAIN q : Rank(q[i]) = 0
    BY <2>1
  <2> QED BY <1>2, <1>7, <2>2 DEF q
<1> QED BY <1>1, <1>3, <1>4, <1>5, <1>6, <1>7

-----------------------------------------------------------------------------
(* The critical section of a swap.                                          *)

\* A rank is the place in a section of five operations, or 0.
LEMMA RankType ==
  ASSUME NEW op
  PROVE  Rank(op) \in 0..5
BY DEF Rank

\* What is left is in order.
LEMMA OrderTail ==
  ASSUME NEW S, NEW q \in Seq(S), q # <<>>, InOrder(q)
  PROVE  InOrder(Tail(q))
<1> SUFFICES ASSUME NEW i \in DOMAIN Tail(q), NEW j \in DOMAIN Tail(q), i < j,
                    Rank(Tail(q)[j]) > 0
             PROVE  Rank(Tail(q)[i]) < Rank(Tail(q)[j])
  BY DEF InOrder
<1>1. /\ i + 1 \in DOMAIN q /\ Tail(q)[i] = q[i + 1] /\ i \in Int
      /\ j + 1 \in DOMAIN q /\ Tail(q)[j] = q[j + 1] /\ j \in Int
  BY TailAt
<1>2. i + 1 < j + 1
  BY <1>1
<1> QED BY <1>1, <1>2 DEF InOrder

\* The first operation of the section that is done is the first that is left.
LEMMA LeftTail ==
  ASSUME NEW S, NEW q \in Seq(S), q # <<>>, InOrder(q), NEW k \in 1..6, LeftFrom(q, k)
  PROVE  /\ Rank(Head(q)) = 0 => LeftFrom(Tail(q), k)
         /\ Rank(Head(q)) # 0 =>
              Rank(Head(q)) = k /\ k \in 1..5 /\ LeftFrom(Tail(q), k + 1)
<1> DEFINE Has(s, r) == \E i \in DOMAIN s : Rank(s[i]) = r
           h == Rank(Head(q))
<1>1. h \in 0..5
  BY RankType
<1>2. \A r \in 1..5 : Has(q, r) <=> r >= k
  BY DEF LeftFrom
<1>3. \A r \in 1..5 : Has(Tail(q), r) => Has(q, r) /\ h < r
  <2> SUFFICES ASSUME NEW r \in 1..5, NEW i \in DOMAIN Tail(q), Rank(Tail(q)[i]) = r
               PROVE  Has(q, r) /\ h < r
    OBVIOUS
  <2>1. i + 1 \in DOMAIN q /\ Tail(q)[i] = q[i + 1] /\ i \in Int /\ Head(q) = q[1]
        /\ 1 \in DOMAIN q
    BY TailAt
  <2>2. 1 < i + 1
    BY <2>1
  <2>3. Rank(q[1]) < Rank(q[i + 1])
    BY <2>1, <2>2 DEF InOrder
  <2> QED BY <2>1, <2>3
<1>4. \A r \in 1..5 : Has(q, r) /\ h # r => Has(Tail(q), r)
  <2> SUFFICES ASSUME NEW r \in 1..5, NEW i \in DOMAIN q, Rank(q[i]) = r, h # r
               PROVE  Has(Tail(q), r)
    OBVIOUS
  <2>1. i # 1
    BY TailAt
  <2>2. i - 1 \in DOMAIN Tail(q) /\ Tail(q)[i - 1] = q[i]
    BY <2>1, TailAt
  <2> QED BY <2>2
<1>5. h # 0 => Has(q, h)
  BY TailAt
<1> HIDE DEF Has, h
<1>6. ASSUME h = 0 PROVE LeftFrom(Tail(q), k)
  <2>1. \A r \in 1..5 : Has(Tail(q), r) <=> Has(q, r)
    BY <1>3, <1>4, <1>6
  <2>2. \A r \in 1..5 : Has(Tail(q), r) <=> r >= k
    BY <1>2, <2>1
  <2> QED BY <2>2 DEF LeftFrom, Has
<1>7. ASSUME h # 0 PROVE h = k /\ k \in 1..5 /\ LeftFrom(Tail(q), k + 1)
  <2>1. h \in 1..5 /\ h >= k
    BY <1>1, <1>2, <1>5, <1>7
  <2>2. k \in 1..5 /\ Has(q, k)
    BY <1>2, <2>1
  <2>3. k # h => Has(Tail(q), k)
    BY <1>4, <2>2
  <2>4. k = h
    BY <1>3, <2>1, <2>2, <2>3
  <2>5. \A r \in 1..5 : Has(Tail(q), r) <=> r >= k + 1
    BY <1>2, <1>3, <1>4, <2>1, <2>4
  <2> QED BY <2>2, <2>4, <2>5 DEF LeftFrom, Has
<1> QED BY <1>6, <1>7 DEF h

-----------------------------------------------------------------------------
(* The types, and what is left to do.                                       *)

\* What is sent is an event, and the other operations with an argument have a file.
LEMMA AllOpsFacts ==
  ASSUME NEW op \in AllOps
  PROVE  /\ op[1] = "send" => op[2] \in Topics /\ op[3] \in Files
         /\ op[1] \in {"load", "listen", "unwatch", "hash", "watch"} => op[2] \in Files
<1>1. CASE op \in WorkOps
  BY <1>1, WorkFacts DEF Topics
<1>2. CASE op \in WatchOps
  BY <1>2 DEF WatchOps
<1>3. CASE op \in OtherOps
  BY <1>3, FileFacts DEF OtherOps, send, Topics
<1> QED BY <1>1, <1>2, <1>3 DEF AllOps

\* What swap does is made of known operations.
LEMMA SwapType == SwapProgram \in Seq(AllOps)
<1> DEFINE P == Preparation
           H == << <<"lock">>, <<"locked">>, <<"stopEngine">>, <<"newEngine">> >>
           B == << <<"built">> >>
           U == << <<"unlock">> >>
<1>1. /\ <<"lock">> \in AllOps /\ <<"locked">> \in AllOps /\ <<"stopEngine">> \in AllOps
      /\ <<"newEngine">> \in AllOps /\ <<"built">> \in AllOps /\ <<"unlock">> \in AllOps
      /\ Plain \subseteq AllOps
  BY OpFacts, PlainFacts DEF AllOps
<1>2. P \in Seq(AllOps) /\ H \in Seq(AllOps) /\ B \in Seq(AllOps) /\ U \in Seq(AllOps)
  BY <1>1, PreparationFacts
<1>3. SwapProgram = (H \o (P \o B)) \o U
  BY DEF SwapProgram, BuildEngine, Preparation
<1> HIDE DEF P, H, B, U
<1> QED BY <1>2, <1>3

\* One operation of a goroutine is done.
LEMMA Popped ==
  ASSUME TypeInv, NEW p \in {"main", "bus"}, todo[p] # <<>>, Done(p)
  PROVE  /\ todo' \in [{"main", "bus"} -> Seq(AllOps)]
         /\ todo[p] \in Seq(AllOps) /\ Head(todo[p]) \in AllOps
         /\ todo'[p] = Tail(todo[p])
         /\ \A o \in {"main", "bus"} : o # p => todo'[o] = todo[o]
<1>1. todo \in [{"main", "bus"} -> Seq(AllOps)]
  BY DEF TypeInv
<1>2. todo[p] \in Seq(AllOps)
  BY <1>1
<1>3. Tail(todo[p]) \in Seq(AllOps) /\ Head(todo[p]) \in AllOps
  BY <1>2
<1>4. todo' = [todo EXCEPT ![p] = Tail(todo[p])]
  BY DEF Done
<1> QED BY <1>1, <1>2, <1>3, <1>4

\* What goes on while nobody has asked to shut down.
Going ==
  \/ \E f \in Editable : Edit(f)
  \/ Loop \/ Main \/ Bus
  \/ \E c \in Clients : Accept(c) \/ Handle(c)

\* While nobody has asked to shut down, nothing else happens.
LEMMA GoingOn ==
  ASSUME TypeInv, [Next]_<<vars, setting>>, Running'
  PROVE  Running /\ ((Going /\ UNCHANGED setting) \/ UNCHANGED <<vars, setting>>)
<1>0. stopping \in [Stoppers -> {"run", "called", "stop", "reading", "closing", "done"}]
  BY DEF TypeInv
<1>1. \A g \in Stoppers : stopping'[g] = "run"
  BY DEF Running
<1>2. \A g \in Stoppers : \A a, b : Step(g, a, b) => b = "run"
  BY <1>0, <1>1 DEF Step
<1>3. ~Signal /\ ~StopFileWatch /\ ~Stop /\ ~StopServers /\ ~StopEngine
  <2>1. "events" \in Stoppers /\ "servers" \in Stoppers /\ "engine" \in Stoppers
    BY DEF Stoppers
  <2>2. ~Signal
    BY <1>1, <2>1 DEF Signal
  <2>3. ~StopFileWatch /\ ~Stop /\ ~StopServers
    BY <1>2, <2>1 DEF StopFileWatch, Stop, StopServers
  <2>4. ~StopEngine
    BY <1>2, <2>1 DEF StopEngine
  <2> QED BY <2>2, <2>3, <2>4
<1>4. (Going /\ UNCHANGED setting) \/ UNCHANGED <<vars, setting>>
  BY <1>3 DEF Next, Going
<1>5. UNCHANGED stopping
  <2>1. CASE UNCHANGED <<vars, setting>>
    BY <2>1 DEF vars, stopVars
  <2>2. ASSUME NEW f, Edit(f) PROVE UNCHANGED stopping
    BY <2>2 DEF Edit, stopVars
  <2>3. CASE Loop
    BY <2>3 DEF Loop, LoopSend, LoopEvent, stopVars
  <2>4. CASE Main
    BY <2>4, SMTT(20) DEF Main, SendOp, LoadOp, ListenOp, NewEngineOp, BuiltOp, HostOp, stopVars
  <2>5. CASE Bus
    BY <2>5, Zenon DEF Bus, Dispatch, SendOp, LoadOp, ListenOp, UnwatchOp, HashOp, WatchOp, ClearOp,
                EndWatchOp, CloseWatcherOp, LoadConfOp, LockOp, UnlockOp, StopEngineOp,
                NewEngineOp, BuiltOp, stopVars
  <2>6. ASSUME NEW c, Accept(c) \/ Handle(c) PROVE UNCHANGED stopping
    BY <2>6 DEF Accept, Handle, stopVars
  <2> QED BY <1>4, <2>1, <2>2, <2>3, <2>4, <2>5, <2>6 DEF Going
<1> QED BY <1>1, <1>4, <1>5 DEF Running

\* What is sent is an event.
LEMMA SentType ==
  ASSUME TypeInv, NEW e \in Topics \X Files
  PROVE  Sent(e) \in Seq(Topics \X Files)
BY DEF TypeInv, Sent

\* The types hold at the start.
LEMMA TypeInit == Init => TypeInv
<1> SUFFICES ASSUME Init PROVE TypeInv
  OBVIOUS
<1>1. BootProgram \in Seq(AllOps)
  <2>1. WorkOps \subseteq AllOps
    BY DEF AllOps
  <2>2. BootProgram \in Seq(WorkOps)
    BY BootFacts
  <2> QED BY <2>1, <2>2
<1>2. todo \in [{"main", "bus"} -> Seq(AllOps)]
  BY <1>1 DEF Init
<1>3. busChan \in Seq(Topics \X Files)
  BY DEF Init
<1> QED BY <1>2, <1>3, FileFacts DEF Init, TypeInv, NoHash

\* Every step keeps the types, those of the shutdown included.
LEMMA TypeStep == TypeInv /\ [Next]_<<vars, setting>> => TypeInv'
<1> SUFFICES ASSUME TypeInv, [Next]_<<vars, setting>> PROVE TypeInv'
  OBVIOUS
<1> USE DEF fileVars, watchVars, loopVars, engineVars, stopVars
<1>0. UNCHANGED setting
  BY DEF Next, vars
<1>1. CASE UNCHANGED vars
  BY <1>0, <1>1 DEF vars, TypeInv
<1>2. ASSUME NEW f \in Editable, Edit(f) PROVE TypeInv'
  <2>1. f \in Files
    BY HotReloadAssumption
  <2> QED BY <1>0, <1>2, <2>1 DEF Edit, TypeInv
<1>3. ASSUME NEW f \in Files, LoopEvent(f) PROVE TypeInv'
  BY <1>0, <1>3 DEF LoopEvent, TypeInv
<1>4. CASE LoopSend
  <2>1. <<"file", lfile>> \in Topics \X Files
    BY DEF TypeInv, Topics
  <2>2. busChan' \in Seq(Topics \X Files)
    BY <1>4, <2>1, SentType DEF LoopSend
  <2> QED BY <1>0, <1>4, <2>2 DEF LoopSend, TypeInv
<1>5. CASE Dispatch
  <2>1. busChan \in Seq(Topics \X Files) /\ busChan # <<>>
    BY <1>5 DEF Dispatch, TypeInv
  <2>2. Head(busChan) \in Topics \X Files /\ Tail(busChan) \in Seq(Topics \X Files)
    BY <2>1
  <2>3. Program(Head(busChan)) \in Seq(AllOps)
    BY <2>2, ProgramFacts
  <2>4. todo' \in [{"main", "bus"} -> Seq(AllOps)]
    BY <1>5, <2>3 DEF Dispatch, TypeInv
  <2> QED BY <1>0, <1>5, <2>2, <2>4 DEF Dispatch, TypeInv
<1>6. ASSUME NEW p \in {"main", "bus"}, SendOp(p) PROVE TypeInv'
  <2>1. todo[p] # <<>> /\ Done(p) /\ Head(todo[p])[1] = "send"
    BY <1>6 DEF SendOp, Op
  <2>2. Head(todo[p]) \in AllOps /\ todo' \in [{"main", "bus"} -> Seq(AllOps)]
    BY <2>1, Popped
  <2>3. <<Head(todo[p])[2], Head(todo[p])[3]>> \in Topics \X Files
    BY <2>1, <2>2, AllOpsFacts
  <2>4. busChan' \in Seq(Topics \X Files)
    BY <1>6, <2>3, SentType DEF SendOp
  <2> QED BY <1>0, <1>6, <2>2, <2>4 DEF SendOp, TypeInv
<1>7. ASSUME NEW p \in {"main", "bus"}, todo[p] # <<>>, Done(p),
             UNCHANGED <<version, lfile, busChan, stopping, cpc>>,
             hash' \in [Files -> Int], watched' \in SUBSET Files, pending' \in SUBSET Files,
             listening' \in SUBSET Files
      PROVE  TypeInv'
  BY <1>0, <1>7, Popped, SMTT(20) DEF TypeInv
<1>8. ASSUME NEW p \in {"main", "bus"}, todo[p] # <<>>
      PROVE  Head(todo[p])[1] \in {"load", "listen", "unwatch", "hash", "watch"} => Arg(p) \in Files
  <2>1. Head(todo[p]) \in AllOps
    <3>1. todo[p] \in Seq(AllOps)
      BY DEF TypeInv
    <3> QED BY <1>8, <3>1
  <2> QED BY <2>1, AllOpsFacts DEF Arg
<1>9. ASSUME NEW p \in {"main", "bus"}, LoadOp(p) \/ ListenOp(p) \/ BuiltOp(p) PROVE TypeInv'
  <2>1. todo[p] # <<>> /\ Done(p) /\ (ListenOp(p) => Arg(p) \in Files)
    BY <1>8, <1>9, Zenon DEF LoadOp, ListenOp, BuiltOp, Op
  <2>2. listening' \in SUBSET Files
    BY <1>9, <2>1 DEF LoadOp, ListenOp, BuiltOp, TypeInv
  <2>3. /\ UNCHANGED <<version, lfile, busChan, stopping, cpc>>
        /\ hash' \in [Files -> Int] /\ watched' \in SUBSET Files /\ pending' \in SUBSET Files
    BY <1>9 DEF LoadOp, ListenOp, BuiltOp, TypeInv
  <2> QED BY <1>7, <2>1, <2>2, <2>3, SMTT(20)
<1>10. CASE UnwatchOp \/ HashOp \/ WatchOp \/ ClearOp \/ CloseWatcherOp
  <2>1. todo["bus"] # <<>> /\ Done("bus")
        /\ (UnwatchOp \/ HashOp \/ WatchOp => Arg("bus") \in Files)
    BY <1>8, <1>10, Zenon DEF UnwatchOp, HashOp, WatchOp, ClearOp, CloseWatcherOp, Op
  <2>2. hash' \in [Files -> Int]
    BY <1>10, <2>1, SMTT(20) DEF UnwatchOp, HashOp, WatchOp, ClearOp, CloseWatcherOp, TypeInv, NoHash
  <2>3. watched' \in SUBSET Files /\ pending' \in SUBSET Files
    BY <1>10, <2>1, SMTT(20) DEF UnwatchOp, HashOp, WatchOp, ClearOp, CloseWatcherOp, TypeInv, Unwatch
  <2>4. listening' \in SUBSET Files /\ UNCHANGED <<version, lfile, busChan, stopping, cpc>>
    BY <1>10 DEF UnwatchOp, HashOp, WatchOp, ClearOp, CloseWatcherOp, TypeInv
  <2> QED BY <1>7, <2>1, <2>2, <2>3, <2>4, SMTT(20)
<1>11. CASE EndWatchOp \/ LockOp \/ UnlockOp \/ StopEngineOp
  <2>1. todo["bus"] # <<>> /\ Done("bus")
    BY <1>11 DEF EndWatchOp, LockOp, UnlockOp, StopEngineOp, Op
  <2>2. listening' \in SUBSET Files
    BY <1>11 DEF EndWatchOp, LockOp, UnlockOp, StopEngineOp, ShutdownEngine, TypeInv
  <2>3. /\ UNCHANGED <<version, lfile, busChan, stopping, cpc>>
        /\ hash' \in [Files -> Int] /\ watched' \in SUBSET Files /\ pending' \in SUBSET Files
    BY <1>11 DEF EndWatchOp, LockOp, UnlockOp, StopEngineOp, TypeInv
  <2> QED BY <1>7, <2>1, <2>2, <2>3, SMTT(20)
<1>12. CASE HostOp
  <2>1. todo["main"] # <<>> /\ Done("main")
    BY <1>12 DEF HostOp, Op
  <2>2. /\ UNCHANGED <<version, lfile, busChan, stopping, cpc>> /\ listening' \in SUBSET Files
        /\ hash' \in [Files -> Int] /\ watched' \in SUBSET Files /\ pending' \in SUBSET Files
    BY <1>12 DEF HostOp, TypeInv
  <2> QED BY <1>7, <2>1, <2>2
<1>13. ASSUME NEW p \in {"main", "bus"}, NewEngineOp(p) PROVE TypeInv'
  <2>1. todo[p] # <<>> /\ (Done(p) \/ Fails(p))
    BY <1>13, Zenon DEF NewEngineOp, Op
  <2>2. <<"unlock">> \in AllOps /\ send("start", Conf) \in AllOps
    BY OpFacts, FileFacts DEF AllOps
  <2>3. << <<"unlock">>, send("start", Conf) >> \in Seq(AllOps)
    BY <2>2, UpToThree, SMTT(20)
  <2>4. todo' \in [{"main", "bus"} -> Seq(AllOps)]
    BY <2>1, <2>3, Popped, Zenon DEF Fails, TypeInv
  <2> QED BY <1>0, <1>13, <2>4, SMTT(20) DEF NewEngineOp, TypeInv
<1>14. CASE LoadConfOp
  <2>1. todo["bus"] # <<>> /\ todo["bus"] \in Seq(AllOps)
    BY <1>14 DEF LoadConfOp, Op, TypeInv
  <2>2. SwapProgram \o Tail(todo["bus"]) \in Seq(AllOps)
    BY <2>1, SwapType
  <2>3. todo' \in [{"main", "bus"} -> Seq(AllOps)]
    BY <1>14, <2>1, <2>2, Popped, Zenon DEF LoadConfOp, TypeInv
  <2> QED BY <1>0, <1>14, <2>3 DEF LoadConfOp, TypeInv
<1>15. ASSUME NEW c \in Clients, Accept(c) \/ Handle(c) PROVE TypeInv'
  BY <1>0, <1>15, Zenon DEF Accept, Handle, TypeInv
<1>16. CASE Signal
  BY <1>0, <1>16 DEF Signal, TypeInv
<1>17. CASE StopFileWatch
  <2>1. <<"close", Conf>> \in Topics \X Files
    BY FileFacts DEF Topics
  <2>2. busChan' \in Seq(Topics \X Files)
    BY <1>17, <2>1, SentType DEF StopFileWatch
  <2> QED BY <1>0, <1>17, <2>2, Zenon DEF StopFileWatch, Step, TypeInv
<1>18. CASE Stop \/ StopServers
  BY <1>0, <1>18, Zenon DEF Stop, StopServers, Step, TypeInv
<1>19. CASE StopEngine
  BY <1>0, <1>19, Zenon DEF StopEngine, Step, ShutdownEngine, TypeInv
<1>20. CASE Main
  BY <1>6, <1>9, <1>12, <1>13, <1>20 DEF Main
<1>21. CASE Bus
  BY <1>5, <1>6, <1>9, <1>10, <1>11, <1>13, <1>14, <1>21 DEF Bus
<1>22. CASE Loop
  BY <1>3, <1>4, <1>22 DEF Loop
<1> QED BY <1>1, <1>2, <1>15, <1>16, <1>17, <1>18, <1>19, <1>20, <1>21, <1>22 DEF Next

=============================================================================
