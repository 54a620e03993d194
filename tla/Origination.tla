----------------------------- MODULE Origination -----------------------------
(***************************************************************************)
(* How calls reach Asterisk: the hosts of gdhosts.conf and their turns     *)
(* (asterisk.h), CallAll's loop over the cache and DoCall's children       *)
(* (call.h).  A host takes as many calls in a row as its weight.  The      *)
(* daemon marks its own copy of a call and forks; the child sleeps up to   *)
(* two seconds, logs in at its host on a connection of its own, asks for   *)
(* the call, and ends after ten more.                                      *)
(*                                                                         *)
(* A child's failures stay its own: an unreachable host is not noticed     *)
(* (connect's result is ignored, so xConnectionError is never thrown and   *)
(* no host is ever disabled), and a trunk without the placeholder _EXTEN_  *)
(* throws in the child, whose copy of main returns.                        *)
(***************************************************************************)
EXTENDS Integers, Sequences, SequencesExt, FiniteSetsExt

CONSTANTS
  Files,     \* what gdhosts.conf may say: lines that are comments or fields
  MaxPlaced  \* bound: calls put in the cache

ASSUME FilesAssumption ==
  \A f \in Files : \A i \in DOMAIN f :
    f[i] \in [comment : BOOLEAN, fields : Nat, weight : Int]
ASSUME PlacedAssumption == MaxPlaced \in Nat

VARIABLES
  hosts,             \* itsAsterisks: the lines of the file that are hosts, first one in turn
  currentWeightVal,  \* calls the host in front has had
  deque,             \* itsCalls: [id, called]
  added,             \* AddCall has been called so often
  children,          \* forked and not yet at their host: [call, host]
  asked,             \* Asterisk was asked for the call so often
  picks              \* history: the hosts of the last calls, one round of weights long

hostvars == <<hosts, currentWeightVal, deque, added, children, asked, picks>>

Ids == 1 .. MaxPlaced

\* The constructor of AsteriskList, line by line: a line that is no comment is
\* a host's, and the next one, whatever it is, its ARI line.  One field too few
\* or too many, a weight below one, or no ARI line, and the daemon ends.
Parsed(file) ==
  LET Read(s, i) ==
        LET line == file[i] IN
        CASE s.ami # 0 ->
               [s EXCEPT !.ami = 0, !.bad = @ \/ line.fields < 4,
                         !.hosts = Append(@, [line |-> s.ami, weight |-> file[s.ami].weight])]
          [] s.ami = 0 /\ line.comment -> s
          [] OTHER -> [s EXCEPT !.ami = i, !.bad = @ \/ line.fields # 5 \/ line.weight < 1]
  IN FoldLeft(Read, [hosts |-> <<>>, ami |-> 0, bad |-> FALSE], [i \in DOMAIN file |-> i])

\* The hosts of a file the daemon starts with.
Hosts(file) == Parsed(file).hosts
Starts(file) == LET p == Parsed(file) IN ~ p.bad /\ p.ami = 0 /\ p.hosts # <<>>

\* Slips the checks must catch: the comparison without its + 1; the call marked
\* in the child, whose copy of the cache ends with it.
RotateLate ==
  IF Len(hosts) = 1 THEN [hosts |-> hosts, value |-> currentWeightVal]
  ELSE IF currentWeightVal < hosts[1].weight
  THEN [hosts |-> hosts, value |-> currentWeightVal + 1]
  ELSE [hosts |-> Append(Tail(hosts), hosts[1]), value |-> 0]
MarkInChild(calls, i) == calls

\* AsteriskList::Rotate: the hosts, the counter and, in front, who gets the call.
Rotate ==
  IF Len(hosts) = 1 THEN [hosts |-> hosts, value |-> currentWeightVal]
  ELSE IF currentWeightVal + 1 < hosts[1].weight
  THEN [hosts |-> hosts, value |-> currentWeightVal + 1]
  ELSE [hosts |-> Append(Tail(hosts), hosts[1]), value |-> 0]

Round == FoldLeft(LAMBDA n, h : n + h.weight, 0, hosts)
LastOf(s, n) == SubSeq(s, Max({1, Len(s) - n + 1}), Len(s))
-----------------------------------------------------------------------------
HostsInit ==
  /\ \E f \in Files : Starts(f) /\ hosts = Hosts(f)
  /\ currentWeightVal = 0
  /\ deque = <<>>
  /\ added = 0
  /\ children = {}
  /\ asked = [id \in Ids |-> 0]
  /\ picks = <<>>

\* CallCache::AddCall.
AddCall ==
  /\ added < MaxPlaced
  /\ added' = added + 1
  /\ deque' = Append(deque, [id |-> added', called |-> FALSE])
  /\ UNCHANGED <<hosts, currentWeightVal, children, asked, picks>>

\* CallCache::LinesDialing: the call in front has timed out.
PopFront ==
  /\ deque # <<>>
  /\ deque' = Tail(deque)
  /\ UNCHANGED <<hosts, currentWeightVal, added, children, asked, picks>>

\* DoCall in the daemon: called = true, before the fork.
Mark(calls, i) == [calls EXCEPT ![i].called = TRUE]

\* A turn of CallAll's loop.
DoCall(i) ==
  /\ ~ deque[i].called
  /\ \A j \in 1 .. i - 1 : deque[j].called
  /\ hosts' = Rotate.hosts
  /\ currentWeightVal' = Rotate.value
  /\ deque' = Mark(deque, i)
  /\ children' = children \cup {[call |-> deque[i].id, host |-> hosts'[1].line]}
  /\ picks' = LastOf(Append(picks, hosts'[1].line), Round)
  /\ UNCHANGED <<added, asked>>

\* The child reaches its host and asks for the call.
Originate(c) ==
  /\ children' = children \ {c}
  /\ asked' = [asked EXCEPT ![c.call] = @ + 1]
  /\ UNCHANGED <<hosts, currentWeightVal, deque, added, picks>>

\* Its host is down, or the trunk has no placeholder: nobody learns of it.
LoseOrder(c) ==
  /\ children' = children \ {c}
  /\ UNCHANGED <<hosts, currentWeightVal, deque, added, asked, picks>>

\* A fork fails, or the daemon dies otherwise, and is started again, perhaps
\* with another file.  Its children live on.
StartAgain ==
  /\ \E f \in Files : Starts(f) /\ hosts' = Hosts(f)
  /\ currentWeightVal' = 0
  /\ deque' = <<>>
  /\ picks' = <<>>
  /\ UNCHANGED <<added, children, asked>>

HostsNext ==
  \/ AddCall \/ PopFront \/ StartAgain
  \/ \E i \in DOMAIN deque : DoCall(i)
  \/ \E c \in children : Originate(c) \/ LoseOrder(c)

HostsSpec == HostsInit /\ [][HostsNext]_hostvars
-----------------------------------------------------------------------------
\* Of any calls in a row, as many as the weights add up to, each host gets
\* exactly its weight ("can handle 4x as many calls", gdhosts.conf.example):
\* from the first call on, wherever the round begins.
SharesKept ==
  Len(picks) = Round =>
    \A i \in DOMAIN hosts :
      Cardinality({k \in DOMAIN picks : picks[k] = hosts[i].line}) = hosts[i].weight

\* Passes over the cache and children that are late, lost or outlive the daemon
\* never have Asterisk asked twice for one call.
AskedOnce ==
  \A id \in Ids : asked[id] + Cardinality({c \in children : c.call = id}) <= 1
==============================================================================
