---------------------------- MODULE LocalSources ----------------------------
(***************************************************************************)
(* The sources that answer from this machine: host files, zone files,      *)
(* resolv.conf files (resolver/hostfile_source.go, zone_source.go,         *)
(* resolv_source.go with multi_source.go), each behind a file source that  *)
(* loads it again when it changes (file_source.go), and the resolver of    *)
(* the operating system (system_source.go).                                *)
(*                                                                         *)
(* A file is a sequence of lines, or Missing.  The line of a host file has *)
(* an address or the target of an alias, and names; that of a zone file is *)
(* a record, or Broken; that of a resolv.conf file is a server.  Names     *)
(* are written with and without the dot at the end: Fqdn adds it.  An      *)
(* answer is a set of records [type, value]; how often and in which order  *)
(* it repeats one is left out.  The records in an answer of a zone are the *)
(* zone's own: such an answer also is a set of positions in the zone       *)
(* numbered gen, and the names in their headers can change until they are  *)
(* sent.                                                                   *)
(***************************************************************************)
EXTENDS Integers, Sequences, FiniteSets, FiniteSetsExt

CONSTANTS
  Names,       \* names in questions, with the dot, in any case
  Lower,       \* Lower[n]: the name n in lower case
  Fqdn,        \* Fqdn[w]: the written name w with the dot
  Patterns,    \* names with a "*"
  Globs,       \* Globs[p]: the names that match pattern p
  Addresses,
  IPv4,        \* the addresses of version 4; the others have version 6
  Reverse,     \* Reverse[a]: the reverse lookup domain of address a
  Servers,
  LocalServers,\* 127.0.0.1, ::1, ::
  Knows,       \* Knows[s]: the names that server s answers
  Missing, Broken, Nothing,
  Settings     \* [kind, files, clients, questions, failing]: the source, the
               \* contents its file may have, the goroutines with questions,
               \* what they ask and the servers that may fail

ASSUME LocalSourcesAssumption ==
  /\ IPv4 \subseteq Addresses /\ LocalServers \subseteq Servers
  /\ \A s \in Settings :
       /\ s.kind \in {"hosts", "zone", "resolv", "system"}
       /\ s.questions \subseteq [name : Names, type : {"A", "AAAA", "CNAME", "PTR", "ANY", "MX"}]
       /\ s.failing \subseteq Servers

VARIABLES
  setting,
  file,      \* the content of the file
  notified,  \* the change of the file has been announced and not been taken up
  lpc,       \* where the goroutine that loads is
  lines,     \* lines not loaded yet
  table,     \* what the source holds
  gen,       \* the number of the zone that is loaded
  read,      \* the content the table was made from; history only
  cpc,       \* cpc[c]: where client c is
  question,  \* question[c]: its question, as it asked it
  response,  \* response[c]: what it has been answered
  headers    \* headers[g][i]: the name in the header of record i of zone g

vars == <<file, notified, lpc, lines, table, gen, read, cpc, question, response, headers>>
fileVars == <<file, notified>>
loadVars == <<lpc, lines, table, gen, read>>
clientVars == <<cpc, question, response>>

Kind == setting.kind
Clients == setting.clients
NoQuestion == [name |-> Nothing, type |-> "none"]
NoResponse == [values |-> {}, names |-> {}, gen |-> 0, recs |-> {}, from |-> <<>>, down |-> {}]
Family(a) == IF a \in IPv4 THEN "A" ELSE "AAAA"
AddressTypes == {"A", "AAAA"}

EmptyTable ==
  [hostEntries |-> [n \in Names |-> {}], cnameEntries |-> [n \in Names |-> Nothing],
   reverseLookup |-> [n \in Names |-> {}], dnsWildcards |-> [p \in Patterns |-> {}],
   records |-> <<>>, wildnames |-> <<>>, upstream |-> <<>>]

\* The source is made when its file exists; Load is called at once.
Init ==
  /\ setting \in Settings
  /\ file \in setting.files \ {Missing}
  /\ notified = FALSE /\ lines = <<>>
  /\ lpc = IF Kind = "system" THEN "idle" ELSE "open"
  /\ table = EmptyTable /\ gen = 0 /\ read = <<>>
  /\ cpc = [c \in Clients |-> "idle"]
  /\ question = [c \in Clients |-> NoQuestion]
  /\ response = [c \in Clients |-> NoResponse]
  /\ headers = [g \in 0..Cardinality(Clients) |-> <<>>]

-----------------------------------------------------------------------------
(* Loading, by the goroutine of the bus, under the write lock of the file   *)
(* source.  A waiting writer keeps new readers out.                         *)

\* A removal is not announced.  The announcement of any other change can be
\* lost while the watch is renewed after a load, and when the file is made anew.
Edit(content) ==
  /\ content # file
  /\ file' = content
  /\ CASE Kind = "system" \/ content = Missing -> UNCHANGED notified
       [] lpc = "idle" /\ file # Missing -> notified' = TRUE
       [] OTHER -> notified' \in {notified, TRUE}
  /\ UNCHANGED <<loadVars, clientVars, headers>>

Readers == {c \in Clients : cpc[c] \in {"lookup", "rename"}}

LockFile ==
  /\ \/ lpc = "idle" /\ notified /\ notified' = FALSE /\ lpc' = "waiting"
     \/ lpc = "waiting" /\ Readers = {} /\ lpc' = "open" /\ UNCHANGED notified
  /\ UNCHANGED <<file, lines, table, gen, read, clientVars, headers>>

Remote(servers) == SelectSeq(servers, LAMBDA s : s \notin LocalServers)

\* Records that an answer holds are not used again for a new zone.
Held == {response[c].gen : c \in {d \in Clients : response[d].recs # {}}}
FreshZone == Min(0..Cardinality(Clients) \ Held)

\* A host file or resolv.conf that cannot be read leaves all as it was; a zone
\* is emptied before its file is opened.
OpenFile ==
  /\ lpc = "open"
  /\ IF file = Missing /\ Kind # "zone"
     THEN lpc' = "unlock" /\ UNCHANGED <<lines, table, read>>
     ELSE /\ lpc' = "line"
          /\ lines' = IF file = Missing THEN <<>> ELSE file
          /\ table' = IF Kind = "resolv" THEN table ELSE EmptyTable
          /\ read' = IF Kind = "resolv" /\ Remote(file) = <<>> THEN read ELSE file
  /\ gen' = IF Kind = "zone" THEN FreshZone ELSE gen
  /\ headers' = [g \in DOMAIN headers |-> IF g \in Held THEN headers[g] ELSE <<>>]
  /\ UNCHANGED <<fileVars, clientVars>>

FqdnAll(ws) == {Fqdn[w] : w \in ws}

\* A line of a host file with an address: the names it has replace the names
\* that an earlier line gave the same address.
AddressLine(l) ==
  [table EXCEPT
     !.reverseLookup[Reverse[l.address]] = FqdnAll(l.names),
     !.hostEntries = [n \in Names |-> @[n] \cup IF n \in FqdnAll(l.names) THEN {l.address} ELSE {}],
     !.dnsWildcards = [p \in Patterns |-> @[p] \cup IF p \in FqdnAll(l.names) THEN {l.address} ELSE {}]]

\* A line with a target: the test whether there is an alias already looks for
\* the name as it is written, entries are stored under the name with the dot.
AliasLine(l) ==
  LET free == {w \in l.names : w \in Names => table.cnameEntries[w] = Nothing}
  IN [table EXCEPT !.cnameEntries =
        [n \in Names |-> IF n \in FqdnAll(free) THEN Fqdn[l.target] ELSE @[n]]]

\* A record of a zone; an address also makes a record for the reverse lookup.
addRecords(l) ==
  IF l.type \in AddressTypes
  THEN <<l, [name |-> Reverse[l.value], type |-> "PTR", value |-> l.name]>>
  ELSE <<l>>

ZoneLine(l) ==
  [table EXCEPT !.wildnames = IF l.name \in Patterns THEN Append(@, l.name) ELSE @,
                !.records = @ \o addRecords(l)]

LoadLine ==
  /\ lpc = "line" /\ Kind \in {"hosts", "zone"} /\ lines # <<>>
  /\ LET l == Head(lines)
     IN /\ lines' = IF l = Broken THEN <<>> ELSE Tail(lines)
        /\ table' = CASE l = Broken -> table
                      [] Kind = "zone" -> ZoneLine(l)
                      [] l.address # Nothing -> AddressLine(l)
                      [] OTHER -> AliasLine(l)
  /\ headers' = [headers EXCEPT ![gen] =
       [i \in DOMAIN table'.records |-> table'.records[i].name]]
  /\ UNCHANGED <<fileVars, lpc, gen, read, clientVars>>

\* Servers of this machine are ignored; without others the upstream stays.
LoadServers ==
  /\ lpc = "line" /\ Kind = "resolv" /\ lines # <<>>
  /\ table' = IF Remote(lines) = <<>> THEN table ELSE [table EXCEPT !.upstream = Remote(lines)]
  /\ lines' = <<>>
  /\ UNCHANGED <<fileVars, lpc, gen, read, clientVars, headers>>

UnlockFile ==
  /\ lpc = "unlock" \/ (lpc = "line" /\ lines = <<>>)
  /\ lpc' = "idle"
  /\ UNCHANGED <<fileVars, lines, table, gen, read, clientVars, headers>>

Load == LockFile \/ OpenFile \/ LoadLine \/ LoadServers \/ UnlockFile

-----------------------------------------------------------------------------
(* Lookups: what each source answers to a question with name n in lower     *)
(* case and type t.                                                         *)

Records(type, values) == {[type |-> type, value |-> v] : v \in values}

respondToAWildcards(n) ==
  UNION {table.dnsWildcards[p] : p \in {q \in Patterns : n \in Globs[q]}}

respondToA(n, t) ==
  Records(t, {a \in table.hostEntries[n] \cup respondToAWildcards(n) : Family(a) = t})

respondToCNAME(n) == Records("CNAME", {table.cnameEntries[n]} \ {Nothing})
respondToPTR(n) == Records("PTR", table.reverseLookup[n])

\* An alias comes before addresses.  A question for everything gets no
\* addresses: the type of a record is compared with that of the question.
HostAnswer(n, t) ==
  CASE t \in AddressTypes -> IF respondToCNAME(n) # {} THEN respondToCNAME(n) ELSE respondToA(n, t)
    [] t = "CNAME" -> respondToCNAME(n)
    [] t = "PTR" -> respondToPTR(n)
    [] t = "ANY" -> respondToCNAME(n) \cup respondToPTR(n)
    [] OTHER -> {}

\* Positions of records.
resolveName(n, t) ==
  {i \in DOMAIN table.records :
     table.records[i].name = n /\ (t = "ANY" \/ table.records[i].type = t)}

\* An alias and the records of the type; otherwise those of the first
\* wildcard that has any.
ZonePositions(n, t) ==
  LET exact == resolveName(n, t)
               \cup IF t \in AddressTypes THEN resolveName(n, "CNAME") ELSE {}
      wild == {j \in DOMAIN table.wildnames :
                 n \in Globs[table.wildnames[j]] /\ resolveName(table.wildnames[j], t) # {}}
  IN IF exact # {} THEN exact
     ELSE IF wild # {} THEN resolveName(table.wildnames[Min(wild)], t) ELSE {}

ZoneAnswer(ps) ==
  {[type |-> table.records[i].type, value |-> table.records[i].value] : i \in ps}

\* multiSource: the first server with an answer, of those that do not fail.
UpstreamAnswer(n, down) ==
  LET able == {i \in DOMAIN table.upstream :
                 table.upstream[i] \notin down /\ n \in Knows[table.upstream[i]]}
  IN IF able = {} THEN {} ELSE Records("A", {table.upstream[Min(able)]})

\* The operating system knows the lines of its own host file.  It looks for
\* addresses when it is asked for an alias, and it is given the reverse lookup
\* domain where it takes an address.
SystemAnswer(n, t) ==
  LET found == {file[i].address : i \in {j \in DOMAIN file : n \in FqdnAll(file[j].names)}} \ {Nothing}
  IN IF t \in {"A", "AAAA", "CNAME"}
     THEN {[type |-> Family(a), value |-> a] : a \in {b \in found : t \in {Family(b), "CNAME"}}}
     ELSE {}

-----------------------------------------------------------------------------
(* A question, from the lock of the file source to the reply on the wire.   *)

Go(c, l) == cpc' = [cpc EXCEPT ![c] = l]

Ask(c, q) ==
  /\ cpc[c] = "idle"
  /\ question' = [question EXCEPT ![c] = q]
  /\ Go(c, "lock")
  /\ UNCHANGED <<fileVars, loadVars, response, headers>>

\* Mutant of Lock: questions do not wait for a load.
LockNot(c) ==
  /\ cpc[c] = "lock"
  /\ Go(c, "lookup")
  /\ UNCHANGED <<fileVars, loadVars, question, response, headers>>

\* Mutant of Lock: questions do not give way to a load that waits.
LockPushes(c) ==
  /\ cpc[c] = "lock" /\ lpc \in {"idle", "waiting"}
  /\ Go(c, "lookup")
  /\ UNCHANGED <<fileVars, loadVars, question, response, headers>>

Lock(c) ==
  /\ cpc[c] = "lock"
  /\ lpc = "idle"
  /\ Go(c, "lookup")
  /\ UNCHANGED <<fileVars, loadVars, question, response, headers>>

\* Answer.  Host file and system give new records the name of the question as
\* it was asked; an upstream's answer repeats the question.
Lookup(c) ==
  /\ cpc[c] = "lookup"
  /\ LET n == Lower[question[c].name]
         t == question[c].type
         answer == [NoResponse EXCEPT !.names = {question[c].name}, !.from = read, !.gen = gen]
     IN \E down \in SUBSET setting.failing :
          response' = [response EXCEPT ![c] =
            CASE Kind = "hosts" -> [answer EXCEPT !.values = HostAnswer(n, t)]
              [] Kind = "zone" -> [answer EXCEPT !.values = ZoneAnswer(ZonePositions(n, t)),
                                                 !.recs = ZonePositions(n, t)]
              [] Kind = "resolv" -> [answer EXCEPT !.values = UpstreamAnswer(n, down), !.down = down]
              [] OTHER -> [answer EXCEPT !.values = SystemAnswer(n, t), !.from = file]]
  /\ Go(c, "rename")
  /\ UNCHANGED <<fileVars, loadVars, question, headers>>

\* A zone writes the name, in lower case, into the records it keeps; the read
\* lock is shared.  Then the lock is released.
Rename(c) ==
  /\ cpc[c] = "rename"
  /\ headers' = [headers EXCEPT ![response[c].gen] =
       [i \in DOMAIN @ |-> IF i \in response[c].recs THEN Lower[question[c].name] ELSE @[i]]]
  /\ Go(c, "reply")
  /\ UNCHANGED <<fileVars, loadVars, question, response>>

\* The server writes the message: records that are shared as they are by now.
Reply(c) ==
  /\ cpc[c] = "reply"
  /\ response' = [response EXCEPT ![c].names =
       IF Kind = "zone" THEN {headers[response[c].gen][i] : i \in response[c].recs} ELSE @]
  /\ Go(c, "replied")
  /\ UNCHANGED <<fileVars, loadVars, question, headers>>

Forget(c) ==
  /\ cpc[c] = "replied"
  /\ question' = [question EXCEPT ![c] = NoQuestion]
  /\ response' = [response EXCEPT ![c] = NoResponse]
  /\ Go(c, "idle")
  /\ UNCHANGED <<fileVars, loadVars, headers>>

Answer(c) == Lock(c) \/ Lookup(c) \/ Rename(c) \/ Reply(c) \/ Forget(c)

Next ==
  /\ \/ \E content \in setting.files : Edit(content)
     \/ Load
     \/ \E c \in Clients : Answer(c) \/ \E q \in setting.questions : Ask(c, q)
  /\ UNCHANGED setting

Spec == Init /\ [][Next]_<<vars, setting>>

(* Goroutines run.  Neither edits nor questions are forced, and questions   *)
(* never end.                                                               *)
FairSpec ==
  /\ Spec
  /\ WF_vars(Load)
  /\ \A c \in UNION {s.clients : s \in Settings} : WF_vars(c \in Clients /\ Answer(c))

-----------------------------------------------------------------------------
(* What a file says, without tables.                                        *)

LinesOf(content) == IF content = Missing THEN <<>> ELSE content
LastOf(S) == {i \in S : \A j \in S : j <= i}

\* Lines of a host file that name n, itself or by a pattern.
Naming(content, n) ==
  {i \in DOMAIN content : \E w \in content[i].names :
     Fqdn[w] = n \/ (Fqdn[w] \in Patterns /\ n \in Globs[Fqdn[w]] /\ content[i].address # Nothing)}

HostSays(content, n, t) ==
  LET lineOf(S) == {content[i] : i \in S}
      aliases == {l \in lineOf(Naming(content, n)) : l.address = Nothing}
      addresses == {l.address : l \in lineOf(Naming(content, n)) \ aliases}
      reverse == {i \in DOMAIN content :
                    content[i].address # Nothing /\ Reverse[content[i].address] = n}
  IN CASE t \in AddressTypes /\ aliases = {} -> Records(t, {a \in addresses : Family(a) = t})
       [] t \in AddressTypes \cup {"CNAME"} -> Records("CNAME", {Fqdn[l.target] : l \in aliases})
       [] t = "PTR" -> Records("PTR", UNION {FqdnAll(l.names) : l \in lineOf(LastOf(reverse))})
       [] OTHER -> {}

\* The lines of a zone before the first that is broken.
Sound(content) ==
  {content[i] : i \in {j \in DOMAIN content : \A k \in 1..j : content[k] # Broken}}

ZoneSays(content, n, t) ==
  LET at(m, types) == {l \in Sound(content) : l.name = m /\ l.type \in types}
      values(S) == {[type |-> l.type, value |-> l.value] : l \in S}
      reverse == {l \in Sound(content) : l.type \in AddressTypes /\ Reverse[l.value] = n}
      exact == at(n, IF t \in AddressTypes THEN {t, "CNAME"} ELSE {t})
      wild == {i \in DOMAIN content : content[i] \in Sound(content)
                 /\ content[i].name \in Patterns /\ n \in Globs[content[i].name]
                 /\ content[i].type = t}
  IN IF exact # {} \/ (t = "PTR" /\ reverse # {})
     THEN values(exact) \cup IF t = "PTR" THEN Records("PTR", {l.name : l \in reverse}) ELSE {}
     ELSE UNION {values(at(content[i].name, {t})) : i \in IF wild = {} THEN {} ELSE {Min(wild)}}

ResolvSays(content, n, down) ==
  {[type |-> "A", value |-> content[i]] : i \in {j \in DOMAIN content :
     LET able(k) == content[k] \notin down \cup LocalServers /\ n \in Knows[content[k]]
     IN able(j) /\ \A k \in 1..(j - 1) : ~able(k)}}

\* An answer is what one content of the file says, as a whole and no later
\* one in part: a load takes many steps while questions come in
\* (file_source.go 43-53, 61-63), a line may add to what earlier ones gave
\* (hostfile_source.go 88-114, zone_source.go 42-79), a file that cannot be
\* read keeps the host file and the upstreams (hostfile_source.go 123-127,
\* resolv_source.go 33-36), servers are tried in their order and those that
\* fail are passed over (multi_source.go 29-40).  Of several aliases there is
\* one, "only one alias per taget" (hostfile_source.go 110), whichever it is.
AnswersMatchFile ==
  \A c \in Clients : cpc[c] = "replied" /\ question[c].type # "ANY" =>
    LET n == Lower[question[c].name]
        t == question[c].type
        values == response[c].values
        content == LinesOf(response[c].from)
        says == HostSays(content, n, t)
        alias == Cardinality(says) > 1 /\ \A r \in says : r.type = "CNAME"
    IN CASE Kind = "hosts" -> IF alias THEN \E r \in says : values = {r} ELSE values = says
         [] Kind = "zone" -> values = ZoneSays(content, n, t)
         [] Kind = "resolv" -> values = ResolvSays(content, n, response[c].down)
         [] OTHER -> t \in AddressTypes => values = says

\* A change that has been announced is loaded, even though there is always
\* someone asking: the write lock of the file source does not starve
\* (file_source.go 26-30, 43-53).
AnnouncedIsLoaded == notified ~> lpc = "open"

\* "normalize names to question name" (zone_source.go 186): the records of a
\* reply carry the name that was asked.
RepliesNameTheQuestion ==
  \A c \in Clients : cpc[c] = "replied" =>
    \A n \in response[c].names : Lower[n] = Lower[question[c].name]
=============================================================================
