---------------------------- MODULE PanelProofs ------------------------------
(***************************************************************************)
(* Overlapping refreshes never put back older data, nor, while nothing     *)
(* disturbs the panel, the list of assets and a withdrawn conflict; and a  *)
(* panel never outdates a revision of its own: for any number of commits,  *)
(* refreshes, subscriptions and requests under way.                        *)
(*                                                                         *)
(* The argument: answers come in the order of the requests, and the server *)
(* answers with what it has, so that along the socket the contents grow    *)
(* (OrderOK).  What a refresh has got is older than what is still to come, *)
(* and for the newest refresh, the only one that lands, no older than what *)
(* is shown.                                                               *)
(*                                                                         *)
(* The controls on the pages of an asset follow, for any assets and        *)
(* commits: none writes what was not reviewed, twice, or for another asset.*)
(***************************************************************************)
EXTENDS Panel, TLAPS, SequenceTheorems, FiniteSetTheorems

Part == {"assets", "registry", "statuses", "places", "preview", "list"}
Gots == UNION {[D -> Stamp] : D \in SUBSET Part}

Request ==
  [type : {"read"}, gen : Nat, part : Part]
    \cup [type : {"mutate"}, based : Stamp \cup {None}, alone : BOOLEAN, follow : Follow]
    \cup [type : {"subscribe"}, sub : Nat]

Answer ==
  [type : {"part"}, gen : Nat, part : Part, stamp : Stamp, ok : BOOLEAN]
    \cup [type : {"event"}, sub : Nat, revision : Nat]
    \cup [type : {"reply"}, follow : Follow, stamp : Stamp]
    \cup [type : {"refusal"}, stamp : Stamp]
    \cup [type : {"subscribed"}, sub : Nat, ok : BOOLEAN]

Op == [gen : Nat, kind : Kind, got : Gots]

\* A read that is under way asks for what its refresh awaits.
Fits(m) == m.gen \in 0..generation /\ \A o \in ops : o.gen = m.gen => m.part \in Parts(o.kind)

RequestsOK ==
  /\ toServer \in Seq(Request)
  /\ \A i \in DOMAIN toServer : /\ toServer[i].type = "read" => Fits(toServer[i])
                                /\ toServer[i].type = "subscribe" => toServer[i].sub \in 1..subId

AnswersOK ==
  /\ toPanel \in Seq(Answer)
  /\ \A i \in DOMAIN toPanel :
       /\ toPanel[i].type = "part" => Fits(toPanel[i])
       /\ toPanel[i].type \in {"part", "reply", "refusal"} => toPanel[i].stamp.content <= content

QueuesOK == RequestsOK /\ AnswersOK

OpsOK ==
  /\ ops \subseteq Op /\ generation \in Nat
  /\ \A o \in ops : o.gen \in 1..generation /\ DOMAIN o.got \subseteq Parts(o.kind)
  /\ \A o, p \in ops : (o.gen = p.gen \/ (o.kind = "load" /\ p.kind = "load")) => o = p

\* The parts that carry the registry's content and land by generation.
Ordered == {"registry", "statuses"}

\* Nothing that is still to come is older than c.
Past(c) ==
  /\ c <= content
  /\ \A i \in DOMAIN toPanel : toPanel[i].type = "part" => c <= toPanel[i].stamp.content

\* No older than what is shown.
Covers(c) == (registry # None => registry.content <= c) /\ (statuses # None => statuses <= c)

OrderOK ==
  /\ \A i, j \in DOMAIN toPanel :
       i < j /\ toPanel[i].type = "part" /\ toPanel[j].type = "part"
         => toPanel[i].stamp.content <= toPanel[j].stamp.content
  /\ registry # None => Past(registry.content)
  /\ statuses # None => Past(statuses)
  /\ \A o \in ops : \A p \in Ordered \cap DOMAIN o.got :
       /\ Past(o.got[p].content)
       /\ o.gen = generation => Covers(o.got[p].content)

\* The part of TypeOK that a landing may touch.
PanelOK ==
  /\ registry \in Stamp \cup {None} /\ {assets, statuses} \subseteq Nat \cup {None}
  /\ {places, initialized, loading, error, conflict} \subseteq BOOLEAN
  /\ sub \in {"none", "pending", "active"} /\ subId \in Nat

ServerOK ==
  /\ content \in Nat /\ base \in 0..content /\ foreign \subseteq 1..content
  /\ feed = None \/ feed \in [sub : 1..subId, revision : Nat \cup {Live}]
  /\ failures \in 0..MaxFailures

ClientOK ==
  /\ basis \in Stamp \cup {None} /\ reviewed \in Stamp \cup {None}
  /\ refusedAt \in 0..content /\ attached \in BOOLEAN

\* No mutation is added to the requests.
Grows ==
  \A n \in DOMAIN toServer' :
    (n \in DOMAIN toServer /\ toServer'[n] = toServer[n]) \/ toServer'[n].type # "mutate"

IInv == ServerOK /\ PanelOK /\ ClientOK /\ QueuesOK /\ OpsOK /\ OrderOK

-----------------------------------------------------------------------------
(***************************************************************************)
(* Queues and refreshes.                                                   *)
(***************************************************************************)

\* What a queue holds after others are added to it.
LEMMA Added ==
  ASSUME NEW S, NEW q \in Seq(S), NEW r \in Seq(S)
  PROVE  /\ q \o r \in Seq(S)
         /\ \A n \in DOMAIN (q \o r) :
              (n \in DOMAIN q /\ (q \o r)[n] = q[n]) \/ (\E k \in DOMAIN r : (q \o r)[n] = r[k])
         /\ \A n \in DOMAIN q : n \in DOMAIN (q \o r) /\ (q \o r)[n] = q[n]
OBVIOUS

\* After one is added.
LEMMA Appended ==
  ASSUME NEW S, NEW q \in Seq(S), NEW m \in S
  PROVE  /\ Append(q, m) \in Seq(S)
         /\ \A n \in DOMAIN Append(q, m) :
              (n \in DOMAIN q /\ Append(q, m)[n] = q[n])
                \/ (Append(q, m)[n] = m /\ \A k \in DOMAIN q : k < n)
OBVIOUS

\* After the first is taken.
LEMMA Taken ==
  ASSUME NEW S, NEW q \in Seq(S), q # <<>>
  PROVE  /\ Head(q) \in S /\ Head(q) = q[1] /\ 1 \in DOMAIN q
         /\ Tail(q) \in Seq(S)
         /\ \A n \in DOMAIN Tail(q) :
              n \in Nat /\ n + 1 \in DOMAIN q /\ 1 < n + 1 /\ Tail(q)[n] = q[n + 1]
OBVIOUS

\* The reads of a refresh are its parts, but for what other handlers answer.
LEMMA ReadsFit ==
  ASSUME NEW g \in Nat, NEW kind \in Kind
  PROVE  /\ Reads(g, kind) \in Seq(Request)
         /\ \A k \in DOMAIN Reads(g, kind) :
              /\ Reads(g, kind)[k].type = "read" /\ Reads(g, kind)[k].gen = g
              /\ Reads(g, kind)[k].part \in Parts(kind)
<1>1. Requests(kind) \in Seq(Parts(kind)) /\ Parts(kind) \subseteq Part
  <2>1. CASE kind = "load"
    BY <2>1 DEF Requests, Parts, Part
  <2>2. CASE kind \in {"event", "bindings"}
    <3>1. Requests(kind) = <<"registry", "statuses">> /\ Parts(kind) = {"registry", "statuses"}
      BY <2>2 DEF Requests, Parts
    <3> QED BY <3>1 DEF Part
  <2>3. CASE kind = "topology"
    <3>1. Requests(kind) = <<"registry">> /\ Parts(kind) = {"registry"}
      BY <2>3 DEF Requests, Parts
    <3> QED BY <3>1 DEF Part
  <2>4. CASE kind = "assets"
    <3>1. Requests(kind) = <<"assets">> /\ Parts(kind) = {"assets"}
      BY <2>4 DEF Requests, Parts
    <3> QED BY <3>1 DEF Part
  <2> QED BY <2>1, <2>2, <2>3, <2>4 DEF Kind
<1>2. \A k \in 1..Len(Requests(kind)) :
        /\ Read(g, Requests(kind)[k]) \in Request
        /\ Read(g, Requests(kind)[k]).type = "read" /\ Read(g, Requests(kind)[k]).gen = g
        /\ Read(g, Requests(kind)[k]).part \in Parts(kind)
  BY <1>1 DEF Read, Request
<1>3. DOMAIN Requests(kind) = 1..Len(Requests(kind)) /\ Len(Requests(kind)) \in Nat
  BY <1>1
<1> QED BY <1>2, <1>3, IsASeq DEF Reads

\* Nothing has been got yet.
LEMMA NothingGot == <<>> \in Gots /\ DOMAIN <<>> = {}
<1>1. <<>> \in [{} -> Stamp] /\ DOMAIN <<>> = {}
  OBVIOUS
<1> QED BY <1>1 DEF Gots

\* toPanel is as it was, or without its first answer.
OnlyTaken ==
  /\ toPanel' \in Seq(Answer)
  /\ \/ toPanel' = toPanel
     \/ \A n \in DOMAIN toPanel' :
          n \in Nat /\ n + 1 \in DOMAIN toPanel /\ toPanel'[n] = toPanel[n + 1]

\* What held of the answers still holds of those that are left.
LEMMA LeftAnswers ==
  ASSUME QueuesOK, OrderOK, OnlyTaken, content' = content
  PROVE  /\ \A n \in DOMAIN toPanel' : \E k \in DOMAIN toPanel : toPanel'[n] = toPanel[k]
         /\ \A i, j \in DOMAIN toPanel' :
              i < j /\ toPanel'[i].type = "part" /\ toPanel'[j].type = "part"
                => toPanel'[i].stamp.content <= toPanel'[j].stamp.content
         /\ \A c : Past(c) => Past(c)'
<1>1. \A n \in DOMAIN toPanel' : \E k \in DOMAIN toPanel : toPanel'[n] = toPanel[k]
  BY DEF OnlyTaken
<1>2. \A c : Past(c) => Past(c)'
  BY <1>1 DEF Past
<1>3. CASE toPanel' = toPanel
  BY <1>1, <1>2, <1>3 DEF OrderOK
<1>4. CASE \A n \in DOMAIN toPanel' :
             n \in Nat /\ n + 1 \in DOMAIN toPanel /\ toPanel'[n] = toPanel[n + 1]
  <2>1. ASSUME NEW i \in DOMAIN toPanel', NEW j \in DOMAIN toPanel', i < j,
               toPanel'[i].type = "part", toPanel'[j].type = "part"
        PROVE  toPanel'[i].stamp.content <= toPanel'[j].stamp.content
    <3>1. /\ i \in Nat /\ i + 1 \in DOMAIN toPanel /\ toPanel'[i] = toPanel[i + 1]
          /\ j \in Nat /\ j + 1 \in DOMAIN toPanel /\ toPanel'[j] = toPanel[j + 1]
      BY <1>4
    <3>2. i + 1 < j + 1
      BY <2>1, <3>1
    <3> QED BY <2>1, <3>1, <3>2 DEF OrderOK
  <2> QED BY <1>1, <1>2, <2>1
<1> QED BY <1>3, <1>4 DEF OnlyTaken

\* Requests are added, and the refreshes that wait for their answers: newer than all before.
LEMMA NewRefreshes ==
  ASSUME QueuesOK, OpsOK, OrderOK,
         NEW N \in SUBSET Op, ops' = ops \cup N,
         generation' \in Nat, generation < generation',
         \A o \in N : o.gen \in (generation + 1)..generation' /\ o.got = <<>>,
         \A o, p \in N : (o.gen = p.gen \/ (o.kind = "load" /\ p.kind = "load")) => o = p,
         \A o \in N : o.kind = "load" => ~Loading,
         NEW r \in Seq(Request), toServer' = toServer \o r,
         \A k \in DOMAIN r : r[k].type = "read"
                               /\ \E o \in N : o.gen = r[k].gen /\ r[k].part \in Parts(o.kind),
         OnlyTaken, UNCHANGED <<content, registry, statuses, subId>>
  PROVE  QueuesOK' /\ OpsOK' /\ OrderOK' /\ Grows
<1>1. /\ toServer \in Seq(Request)
      /\ \A n \in DOMAIN toServer' :
           (n \in DOMAIN toServer /\ toServer'[n] = toServer[n])
             \/ (\E k \in DOMAIN r : toServer'[n] = r[k])
      /\ toServer' \in Seq(Request)
  BY Added DEF QueuesOK, RequestsOK, AnswersOK
<1>2. OpsOK'
  BY NothingGot DEF OpsOK, Loading
<1>3. ASSUME NEW m, Fits(m) PROVE Fits(m)'
  BY <1>3 DEF Fits, OpsOK
<1>4. ASSUME NEW k \in DOMAIN r PROVE Fits(r[k])'
  <2>1. PICK o \in N : o.gen = r[k].gen /\ r[k].part \in Parts(o.kind)
    OBVIOUS
  <2>2. \A p \in ops' : p.gen = r[k].gen => p = o
    BY <2>1 DEF OpsOK
  <2> QED BY <2>1, <2>2 DEF Fits, OpsOK
<1>5. QueuesOK'
  <2>1. RequestsOK'
    BY <1>1, <1>3, <1>4 DEF QueuesOK, RequestsOK
  <2>2. \A n \in DOMAIN toPanel' :
          /\ toPanel'[n].type = "part" => Fits(toPanel[n])'
          /\ toPanel'[n].type \in {"part", "reply", "refusal"}
               => toPanel'[n].stamp.content <= content'
    BY <1>3, LeftAnswers DEF QueuesOK, AnswersOK
  <2> QED BY <2>1, <2>2 DEF QueuesOK, AnswersOK, OnlyTaken
<1>6. OrderOK'
  <2>1. ASSUME NEW q \in ops', NEW p \in Ordered \cap DOMAIN q.got
        PROVE  q \in ops /\ Past(q.got[p].content)' /\ q.gen # generation'
    <3>1. q \in ops
      BY NothingGot
    <3>2. Past(q.got[p].content)
      BY <3>1 DEF OrderOK
    <3> QED BY <3>1, <3>2, LeftAnswers DEF OpsOK
  <2> QED BY <2>1, LeftAnswers DEF OrderOK
<1>7. Grows
  BY <1>1 DEF Grows
<1> QED BY <1>2, <1>5, <1>6, <1>7

\* The beginning of one refresh.
LEMMA StartInv ==
  ASSUME QueuesOK, OpsOK, OrderOK, NEW kind \in Kind, kind = "load" => ~Loading, Start(kind),
         OnlyTaken, UNCHANGED <<content, registry, statuses, subId>>
  PROVE  QueuesOK' /\ OpsOK' /\ OrderOK' /\ Grows
<1> DEFINE o == [gen |-> generation + 1, kind |-> kind, got |-> <<>>]
<1>1. generation \in Nat /\ generation + 1 \in Nat
  BY DEF OpsOK
<1>2. o \in Op
  BY <1>1, NothingGot DEF Op
<1>3. /\ ops' = ops \cup {o} /\ generation' = generation + 1
      /\ toServer' = toServer \o Reads(generation + 1, kind)
  BY DEF Start
<1>4. /\ Reads(generation + 1, kind) \in Seq(Request)
      /\ \A k \in DOMAIN Reads(generation + 1, kind) :
           LET m == Reads(generation + 1, kind)[k] IN
           m.type = "read" /\ m.gen = o.gen /\ m.part \in Parts(o.kind)
  BY <1>1, ReadsFit
<1>5. o.gen = generation + 1 /\ o.got = <<>> /\ o.kind = kind
  OBVIOUS
<1> HIDE DEF o
<1> DEFINE N == {o}
           r == Reads(generation + 1, kind)
<1>6. /\ N \in SUBSET Op /\ ops' = ops \cup N /\ generation' \in Nat /\ generation < generation'
      /\ \A p \in N : p.gen \in (generation + 1)..generation' /\ p.got = <<>>
      /\ \A p, q \in N : (p.gen = q.gen \/ (p.kind = "load" /\ q.kind = "load")) => p = q
      /\ \A p \in N : p.kind = "load" => ~Loading
  BY <1>1, <1>2, <1>3, <1>5
<1>7. /\ r \in Seq(Request) /\ toServer' = toServer \o r
      /\ \A k \in DOMAIN r : r[k].type = "read"
                               /\ \E p \in N : p.gen = r[k].gen /\ r[k].part \in Parts(p.kind)
  BY <1>3, <1>4
<1> HIDE DEF N, r
<1> QED BY <1>6, <1>7, NewRefreshes

\* A control refreshes after its mutation; it never begins a load.
LEMMA StartAllInv ==
  ASSUME QueuesOK, OpsOK, OrderOK, NEW kinds \in Follow, kinds # <<"list">>, StartAll(kinds),
         OnlyTaken, UNCHANGED <<content, registry, statuses, subId>>
  PROVE  QueuesOK' /\ OpsOK' /\ OrderOK' /\ Grows
<1>1. generation \in Nat
  BY DEF OpsOK
<1>2. CASE Len(kinds) = 1
  <2>1. /\ kinds[1] \in Kind /\ kinds[1] # "load" /\ DOMAIN kinds = {1}
    BY <1>2, PanelAssumption DEF Kind
  <2>2. Start(kinds[1])
    BY <1>1, <1>2, <2>1 DEF Start, StartAll
  <2> QED BY <2>1, <2>2, StartInv
<1>3. CASE kinds = <<"bindings", "topology", "assets">>
  <2> DEFINE a == Reads(generation + 1, "bindings")
             b == Reads(generation + 2, "topology")
             c == Reads(generation + 3, "assets")
             x == [gen |-> generation + 1, kind |-> "bindings", got |-> <<>>]
             y == [gen |-> generation + 2, kind |-> "topology", got |-> <<>>]
             z == [gen |-> generation + 3, kind |-> "assets", got |-> <<>>]
  <2>1. /\ generation + 1 \in Nat /\ generation + 2 \in Nat /\ generation + 3 \in Nat
        /\ {"bindings", "topology", "assets"} \subseteq Kind
    BY <1>1 DEF Kind
  <2>2. /\ generation' = generation + 3 /\ ops' = ops \cup {x, y, z}
        /\ toServer' = toServer \o (a \o b \o c)
    <3>1. Len(kinds) = 3 /\ DOMAIN kinds = {1, 2, 3}
          /\ kinds[1] = "bindings" /\ kinds[2] = "topology" /\ kinds[3] = "assets"
      BY <1>3
    <3>2. {[gen |-> generation + i, kind |-> kinds[i], got |-> <<>>] : i \in DOMAIN kinds}
            = {x, y, z}
      BY <3>1
    <3> QED BY <3>1, <3>2 DEF StartAll
  <2>3. {x, y, z} \subseteq Op
    BY <2>1, NothingGot DEF Op
  <2>4. /\ a \in Seq(Request) /\ \A k \in DOMAIN a :
             a[k].type = "read" /\ a[k].gen = x.gen /\ a[k].part \in Parts(x.kind)
        /\ b \in Seq(Request) /\ \A k \in DOMAIN b :
             b[k].type = "read" /\ b[k].gen = y.gen /\ b[k].part \in Parts(y.kind)
        /\ c \in Seq(Request) /\ \A k \in DOMAIN c :
             c[k].type = "read" /\ c[k].gen = z.gen /\ c[k].part \in Parts(z.kind)
    BY <2>1, ReadsFit
  <2>5. /\ x.gen = generation + 1 /\ y.gen = generation + 2 /\ z.gen = generation + 3
        /\ x.got = <<>> /\ y.got = <<>> /\ z.got = <<>>
        /\ x.kind # "load" /\ y.kind # "load" /\ z.kind # "load"
    OBVIOUS
  <2> HIDE DEF a, b, c, x, y, z
  <2>6. /\ a \o b \o c \in Seq(Request)
        /\ \A k \in DOMAIN (a \o b \o c) :
             LET m == (a \o b \o c)[k] IN
             m.type = "read" /\ \E o \in {x, y, z} : o.gen = m.gen /\ m.part \in Parts(o.kind)
    <3>1. a \o b \in Seq(Request) /\ (a \o b) \o c \in Seq(Request)
      BY <2>4
    <3>2. \A n \in DOMAIN (a \o b) : (n \in DOMAIN a /\ (a \o b)[n] = a[n])
                                       \/ (\E k \in DOMAIN b : (a \o b)[n] = b[k])
      BY <2>4, Added
    <3>3. \A n \in DOMAIN ((a \o b) \o c) :
            (n \in DOMAIN (a \o b) /\ ((a \o b) \o c)[n] = (a \o b)[n])
              \/ (\E k \in DOMAIN c : ((a \o b) \o c)[n] = c[k])
      <4> DEFINE ab == a \o b
      <4>1. ab \in Seq(Request) /\ c \in Seq(Request) BY <2>4, <3>1
      <4> HIDE DEF ab
      <4>2. \A n \in DOMAIN (ab \o c) :
              (n \in DOMAIN ab /\ (ab \o c)[n] = ab[n]) \/ (\E k \in DOMAIN c : (ab \o c)[n] = c[k])
        BY <4>1, Added
      <4> QED BY <4>2 DEF ab
    <3> QED BY <2>4, <3>1, <3>2, <3>3
  <2> DEFINE N == {x, y, z}
             r == a \o b \o c
  <2>7. /\ N \in SUBSET Op /\ ops' = ops \cup N /\ generation' \in Nat /\ generation < generation'
        /\ \A p \in N : p.gen \in (generation + 1)..generation' /\ p.got = <<>>
    BY <1>1, <2>2, <2>3, <2>5
  <2>8. /\ \A p, q \in N : (p.gen = q.gen \/ (p.kind = "load" /\ q.kind = "load")) => p = q
        /\ \A p \in N : p.kind = "load" => ~Loading
    BY <1>1, <2>5
  <2>9. /\ r \in Seq(Request) /\ toServer' = toServer \o r
        /\ \A k \in DOMAIN r : r[k].type = "read"
                                 /\ \E p \in N : p.gen = r[k].gen /\ r[k].part \in Parts(p.kind)
    BY <2>2, <2>6
  <2> HIDE DEF N, r
  <2> QED BY <2>7, <2>8, <2>9, NewRefreshes
<1> QED BY <1>2, <1>3, PanelAssumption

-----------------------------------------------------------------------------
(***************************************************************************)
(* An answer arrives at its refresh.                                       *)
(***************************************************************************)

NothingOlder ==
  ~Older(ContentOf(registry'), ContentOf(registry)) /\ ~Older(statuses', statuses)

\* What Subscribe does to queues and link.
LEMMA SubscribeInv ==
  ASSUME toServer \in Seq(Request), subId \in Nat, sub \in {"none", "pending", "active"}, Subscribe
  PROVE  /\ toServer' \in Seq(Request) /\ subId' \in Nat /\ subId <= subId'
         /\ sub' \in {"none", "pending", "active"}
         /\ \A n \in DOMAIN toServer' :
              \/ n \in DOMAIN toServer /\ toServer'[n] = toServer[n]
              \/ toServer'[n].type = "subscribe" /\ toServer'[n].sub \in 1..subId'
<1>1. CASE sub = "none"
  <2> DEFINE m == [type |-> "subscribe", sub |-> subId + 1]
  <2>1. m \in Request /\ m.type = "subscribe" /\ m.sub = subId + 1
    BY DEF Request
  <2>2. toServer' = Append(toServer, m) /\ subId' = subId + 1 /\ sub' = "pending"
    BY <1>1 DEF Subscribe
  <2> HIDE DEF m
  <2> QED BY <2>1, <2>2, Appended
<1>2. CASE sub # "none"
  BY <1>2 DEF Subscribe
<1> QED BY <1>1, <1>2

\* What a refresh has after one more part.
More(o, part, stamp) == [p \in DOMAIN o.got \cup {part} |-> IF p = part THEN stamp ELSE o.got[p]]

\* It is a refresh again, with what it had and the new part.
LEMMA MoreOK ==
  ASSUME NEW o \in Op, NEW part \in Part, NEW stamp \in Stamp
  PROVE  LET more == More(o, part, stamp)
             full == [o EXCEPT !.got = more] IN
         /\ more \in Gots /\ DOMAIN more = DOMAIN o.got \cup {part}
         /\ \A p \in DOMAIN more : more[p] \in Stamp
         /\ \A p \in DOMAIN more : more[p] = IF p = part THEN stamp ELSE o.got[p]
         /\ full \in Op /\ full.gen = o.gen /\ full.kind = o.kind /\ full.got = more
<1> DEFINE more == More(o, part, stamp)
<1>1. PICK D \in SUBSET Part : o.got \in [D -> Stamp]
  BY DEF Op, Gots
<1>2. more \in [D \cup {part} -> Stamp]
  BY <1>1 DEF More
<1>3. more \in Gots
  BY <1>2 DEF Gots
<1> QED BY <1>1, <1>2, <1>3 DEF Op, More

\* The data of a complete refresh may be shown: nothing that is to come is older, and
\* nothing on show is newer.
Fresh(stamp) == stamp \in Stamp /\ Past(stamp.content)' /\ Covers(stamp.content)

\* What may be shown is not older than what is.
LEMMA FreshIsNotOlder ==
  ASSUME PanelOK, NEW stamp, Fresh(stamp)
  PROVE  /\ stamp \in Stamp /\ stamp.content \in Nat /\ stamp # None /\ ContentOf(stamp) = stamp.content
         /\ ~Older(stamp.content, ContentOf(registry)) /\ ~Older(stamp.content, statuses)
         /\ Past(stamp.content)'
<1>1. stamp \in Stamp /\ stamp.content \in Nat /\ stamp # None /\ ContentOf(stamp) = stamp.content
  BY PanelAssumption DEF Fresh, Stamp, ContentOf
<1>2. ~Older(stamp.content, ContentOf(registry))
  <2>1. CASE registry = None
    BY <2>1 DEF Older, ContentOf
  <2>2. CASE registry # None
    <3>1. registry \in Stamp /\ registry.content \in Nat /\ registry.content <= stamp.content
      BY <2>2 DEF PanelOK, Fresh, Covers, Stamp
    <3> QED BY <1>1, <2>2, <3>1, PanelAssumption DEF Older, ContentOf
  <2> QED BY <2>1, <2>2
<1>3. ~Older(stamp.content, statuses)
  BY <1>1, PanelAssumption DEF PanelOK, Fresh, Covers, Older
<1> QED BY <1>1, <1>2, <1>3 DEF Fresh

\* What is not written is not older than it was.
LEMMA SameIsNotOlder ==
  ASSUME PanelOK
  PROVE  ~Older(ContentOf(registry), ContentOf(registry)) /\ ~Older(statuses, statuses)
BY PanelAssumption DEF PanelOK, Older, ContentOf, Stamp

\* A complete refresh lands, or is superseded.
LEMMA LandInv ==
  ASSUME PanelOK, toServer \in Seq(Request),
         NEW o \in Op, DOMAIN o.got = Parts(o.kind),
         \A p \in DOMAIN o.got : o.got[p] \in Stamp,
         o.gen = generation => \A p \in Ordered \cap DOMAIN o.got : Fresh(o.got[p]),
         Land(o)
  PROVE  /\ PanelOK' /\ NothingOlder /\ generation' = generation
         /\ toServer' \in Seq(Request) /\ subId <= subId'
         /\ \A n \in DOMAIN toServer' :
              \/ n \in DOMAIN toServer /\ toServer'[n] = toServer[n]
              \/ toServer'[n].type = "subscribe" /\ toServer'[n].sub \in 1..subId'
         /\ registry' = registry \/ (registry' \in Stamp /\ Past(registry.content)')
         /\ statuses' = statuses \/ (statuses' \in Nat /\ Past(statuses)')
         /\ o.gen # generation => UNCHANGED <<registry, statuses>>
<1> USE PanelAssumption DEF Lands
<1>0. o.kind \in Kind /\ subId \in Nat /\ sub \in {"none", "pending", "active"}
  BY DEF Op, PanelOK
<1>1. CASE o.kind = "load"
  <2>1. LandLoad(o)
    BY <1>1 DEF Land
  <2>2. {"registry", "assets", "statuses"} \subseteq DOMAIN o.got
    BY <1>1 DEF Parts
  <2>3. CASE o.gen = generation
    <3>1. /\ Fresh(o.got["registry"]) /\ Fresh(o.got["statuses"]) /\ o.got["assets"] \in Stamp
          /\ registry' = o.got["registry"] /\ statuses' = o.got["statuses"].content
          /\ assets' = o.got["assets"].content /\ Subscribe
      BY <2>1, <2>2, <2>3 DEF LandLoad, Ordered
    <3>2. NothingOlder
      BY <3>1, FreshIsNotOlder, SameIsNotOlder DEF NothingOlder
    <3>3. /\ registry' \in Stamp /\ statuses' \in Nat /\ assets' \in Nat
          /\ Past(registry.content)' /\ Past(statuses)'
      <4>1. Past(o.got["registry"].content)' /\ Past(o.got["statuses"].content)'
        BY <3>1 DEF Fresh
      <4> QED BY <3>1, <4>1, FreshIsNotOlder DEF Stamp, Past
    <3>4. /\ {places', initialized', loading', error', conflict'} \subseteq BOOLEAN
          /\ generation' = generation
      BY <2>1, <2>3 DEF LandLoad, PanelOK
    <3>5. PanelOK'
      BY <1>0, <3>1, <3>3, <3>4, SubscribeInv DEF PanelOK
    <3> QED BY <1>0, <2>3, <3>1, <3>2, <3>3, <3>4, <3>5, SubscribeInv
  <2>4. CASE o.gen # generation
    <3>1. UNCHANGED <<registry, assets, statuses, places, conflict, sub, subId, toServer>>
      BY <2>1, <2>4 DEF LandLoad, shown
    <3>2. {initialized', loading', error'} \subseteq BOOLEAN /\ generation' = generation
      BY <2>1 DEF LandLoad, PanelOK
    <3> QED BY <3>1, <3>2, SameIsNotOlder DEF PanelOK, NothingOlder
  <2> QED BY <2>3, <2>4
<1>2. CASE o.kind \in {"event", "bindings"}
  <2>1. LandStatuses(o)
    BY <1>2 DEF Land
  <2>2. {"registry", "statuses"} \subseteq DOMAIN o.got
    BY <1>2 DEF Parts
  <2>3. CASE o.gen = generation
    <3>1. /\ Fresh(o.got["registry"]) /\ Fresh(o.got["statuses"])
          /\ registry' = o.got["registry"] /\ statuses' = o.got["statuses"].content
          /\ assets' = o.got["registry"].content
      BY <2>1, <2>2, <2>3 DEF LandStatuses, ShowRegistry, Ordered
    <3>2. NothingOlder
      BY <3>1, FreshIsNotOlder, SameIsNotOlder DEF NothingOlder
    <3>3. /\ registry' \in Stamp /\ assets' \in Nat /\ Past(registry.content)'
          /\ statuses' = statuses \/ (statuses' \in Nat /\ Past(statuses)')
      <4>1. Past(o.got["registry"].content)' /\ o.got["registry"] \in Stamp
        BY <3>1 DEF Fresh
      <4>2. statuses' = statuses
              \/ (Past(o.got["statuses"].content)' /\ o.got["statuses"] \in Stamp)
        BY <3>1 DEF Fresh
      <4> QED BY <3>1, <4>1, <4>2 DEF Stamp, Past
    <3>4. /\ UNCHANGED <<places, conflict, sub, subId, toServer, generation>>
          /\ UNCHANGED <<initialized, loading, error>>
      BY <2>1 DEF LandStatuses, shell
    <3>5. PanelOK'
      BY <3>3, <3>4 DEF PanelOK
    <3> QED BY <1>0, <2>3, <3>1, <3>2, <3>3, <3>4, <3>5
  <2>4. CASE o.gen # generation
    BY <2>1, <2>4, SameIsNotOlder DEF LandStatuses, PanelOK, shell, NothingOlder
  <2> QED BY <2>3, <2>4
<1>3. CASE o.kind = "topology"
  <2>1. LandTopology(o)
    BY <1>3 DEF Land
  <2>2. "registry" \in DOMAIN o.got
    BY <1>3 DEF Parts
  <2>3. CASE o.gen = generation
    <3>1. /\ Fresh(o.got["registry"])
          /\ registry' = o.got["registry"] /\ statuses' = statuses
          /\ assets' = o.got["registry"].content
      BY <2>1, <2>2, <2>3 DEF LandTopology, ShowRegistry, Ordered
    <3>2. NothingOlder
      BY <3>1, FreshIsNotOlder, SameIsNotOlder DEF NothingOlder
    <3>3. /\ registry' \in Stamp /\ assets' \in Nat /\ Past(registry.content)'
          /\ statuses' = statuses \/ (statuses' \in Nat /\ Past(statuses)')
      <4>1. Past(o.got["registry"].content)' /\ o.got["registry"] \in Stamp
        BY <3>1 DEF Fresh
      <4>2. statuses' = statuses
              \/ (Past(o.got["statuses"].content)' /\ o.got["statuses"] \in Stamp)
        BY <3>1 DEF Fresh
      <4> QED BY <3>1, <4>1, <4>2 DEF Stamp, Past
    <3>4. /\ UNCHANGED <<places, conflict, sub, subId, toServer, generation>>
          /\ UNCHANGED <<initialized, loading, error>>
      BY <2>1 DEF LandTopology, shell
    <3>5. PanelOK'
      BY <3>3, <3>4 DEF PanelOK
    <3> QED BY <1>0, <2>3, <3>1, <3>2, <3>3, <3>4, <3>5
  <2>4. CASE o.gen # generation
    BY <2>1, <2>4, SameIsNotOlder DEF LandTopology, PanelOK, shell, NothingOlder
  <2> QED BY <2>3, <2>4
<1>4. CASE o.kind = "assets"
  <2>1. LandAssets(o)
    BY <1>4 DEF Land
  <2>2. o.got["assets"] \in Stamp
    BY <1>4 DEF Parts
  <2>3. assets' \in {assets, o.got["assets"].content} /\ o.got["assets"].content \in Nat
    BY <2>1, <2>2 DEF LandAssets, Stamp
  <2> QED BY <1>0, <2>1, <2>3, SameIsNotOlder DEF LandAssets, PanelOK, shell, NothingOlder
<1> QED BY <1>0, <1>1, <1>2, <1>3, <1>4 DEF Kind

\* The invariant of refreshes and queues when an answer arrives, and that nothing older is
\* shown then.
LEMMA ArriveInv ==
  ASSUME PanelOK, QueuesOK, OpsOK, OrderOK,
         NEW o \in ops, NEW part \in Parts(o.kind), NEW stamp \in Stamp, NEW ok \in BOOLEAN,
         Arrive(o, part, stamp, ok),
         OnlyTaken, content' = content,
         part \in Ordered => Fresh(stamp)
  PROVE  PanelOK' /\ QueuesOK' /\ OpsOK' /\ OrderOK' /\ NothingOlder /\ subId <= subId' /\ Grows
<1> DEFINE more == More(o, part, stamp)
           full == [o EXCEPT !.got = more]
           done == ok /\ DOMAIN more = Parts(o.kind)
<1>1. /\ o \in Op /\ o.kind \in Kind /\ part \in Part
      /\ o.gen \in 1..generation /\ DOMAIN o.got \subseteq Parts(o.kind) /\ generation \in Nat
  BY DEF OpsOK, Op, Parts, Part, Kind
<1>2. /\ more \in Gots /\ DOMAIN more = DOMAIN o.got \cup {part}
      /\ \A p \in DOMAIN more : more[p] \in Stamp
      /\ \A p \in DOMAIN more : more[p] = IF p = part THEN stamp ELSE o.got[p]
      /\ full \in Op /\ full.gen = o.gen /\ full.kind = o.kind /\ full.got = more
  BY <1>1, MoreOK
<1>3. /\ ops' = (ops \ {o}) \cup (IF ok /\ ~done THEN {full} ELSE {})
      /\ IF ~ok THEN Reject(o)
         ELSE IF done THEN Land(full)
         ELSE UNCHANGED <<shown, conflict, sub, subId, toServer, shell, generation>>
  BY DEF Arrive, More
<1> HIDE DEF more, full, done
<1>4. \A p \in Ordered \cap DOMAIN more :
        Past(more[p].content)' /\ (o.gen = generation => Covers(more[p].content))
  <2> SUFFICES ASSUME NEW p \in Ordered \cap DOMAIN more
               PROVE  Past(more[p].content)' /\ (o.gen = generation => Covers(more[p].content))
    OBVIOUS
  <2>1. CASE p = part
    <3>1. more[p] = stamp BY <1>2, <2>1
    <3> QED BY <2>1, <3>1 DEF Fresh
  <2>2. CASE p # part
    <3>1. more[p] = o.got[p] /\ p \in DOMAIN o.got BY <1>2, <2>2
    <3>2. Past(o.got[p].content) /\ (o.gen = generation => Covers(o.got[p].content))
      BY <3>1 DEF OrderOK
    <3>3. Past(o.got[p].content)'
      BY <3>2, LeftAnswers
    <3> QED BY <3>1, <3>2, <3>3
  <2> QED BY <2>1, <2>2
<1>5. /\ toServer \in Seq(Request) /\ subId \in Nat
  BY DEF QueuesOK, RequestsOK, AnswersOK, PanelOK
<1>6. /\ PanelOK' /\ NothingOlder /\ generation' = generation
      /\ toServer' \in Seq(Request) /\ subId <= subId' /\ subId' \in Nat
      /\ \A n \in DOMAIN toServer' :
           \/ n \in DOMAIN toServer /\ toServer'[n] = toServer[n]
           \/ toServer'[n].type = "subscribe" /\ toServer'[n].sub \in 1..subId'
      /\ registry' = registry \/ (registry' \in Stamp /\ Past(registry.content)')
      /\ statuses' = statuses \/ (statuses' \in Nat /\ Past(statuses)')
      /\ ~(done /\ o.gen = generation) => UNCHANGED <<registry, statuses>>
  <2>1. CASE ~ok
    <3>1. Reject(o) BY <1>3, <2>1
    <3>2. UNCHANGED <<shown, conflict, sub, subId, toServer, generation>>
      BY <3>1 DEF Reject
    <3>3. {initialized', loading', error'} \subseteq BOOLEAN
      BY <3>1 DEF Reject, shell, PanelOK
    <3>4. NothingOlder
      BY <3>2, SameIsNotOlder DEF shown, NothingOlder
    <3> QED BY <1>5, <3>2, <3>3, <3>4 DEF shown, PanelOK
  <2>2. CASE ok /\ ~done
    <3>1. UNCHANGED <<shown, conflict, sub, subId, toServer, shell, generation>>
      BY <1>3, <2>2
    <3>2. NothingOlder
      BY <3>1, SameIsNotOlder DEF shown, NothingOlder
    <3> QED BY <1>5, <3>1, <3>2 DEF shown, shell, PanelOK
  <2>3. CASE done
    <3>1. Land(full) BY <1>3, <2>3 DEF done
    <3>2. DOMAIN full.got = Parts(full.kind)
      BY <1>2, <2>3 DEF done
    <3>3. \A p \in DOMAIN full.got : full.got[p] \in Stamp
      BY <1>2
    <3>4. full.gen = generation => \A p \in Ordered \cap DOMAIN full.got : Fresh(full.got[p])
      BY <1>2, <1>4 DEF Fresh
    <3>5. o.gen # generation => full.gen # generation
      BY <1>2
    <3>6. full \in Op BY <1>2
    <3>7. /\ PanelOK' /\ NothingOlder /\ generation' = generation
          /\ toServer' \in Seq(Request) /\ subId <= subId'
          /\ \A n \in DOMAIN toServer' :
               \/ n \in DOMAIN toServer /\ toServer'[n] = toServer[n]
               \/ toServer'[n].type = "subscribe" /\ toServer'[n].sub \in 1..subId'
          /\ registry' = registry \/ (registry' \in Stamp /\ Past(registry.content)')
          /\ statuses' = statuses \/ (statuses' \in Nat /\ Past(statuses)')
          /\ full.gen # generation => UNCHANGED <<registry, statuses>>
      BY <1>5, <3>1, <3>2, <3>3, <3>4, <3>6, LandInv
    <3>8. subId' \in Nat
      BY <3>7 DEF PanelOK
    <3> QED BY <2>3, <3>5, <3>7, <3>8
  <2> QED BY <2>1, <2>2, <2>3 DEF done
<1>7. \A p \in ops' : p = full \/ (p \in ops /\ p # o)
  BY <1>3
<1>8. OpsOK'
  <2>1. \A p \in ops' : \E q \in ops : p.gen = q.gen /\ p.kind = q.kind /\ (p = full => q = o)
                                         /\ (p # full => q = p /\ q # o)
    BY <1>2, <1>7
  <2>2. ops' \subseteq Op /\ \A p \in ops' : p.gen \in 1..generation
    BY <1>1, <1>2, <1>7 DEF OpsOK
  <2>3. \A p \in ops' : DOMAIN p.got \subseteq Parts(p.kind)
    BY <1>1, <1>2, <1>7 DEF OpsOK
  <2> QED BY <1>6, <2>1, <2>2, <2>3 DEF OpsOK
<1>9. QueuesOK'
  <2>1. \A m : Fits(m) => Fits(m)'
    BY <1>2, <1>6, <1>7 DEF Fits
  <2>2. \A n \in DOMAIN toServer' : /\ toServer'[n].type = "read" => Fits(toServer[n])'
                                    /\ toServer'[n].type = "subscribe"
                                         => toServer'[n].sub \in 1..subId'
    BY <1>5, <1>6, <2>1 DEF QueuesOK, RequestsOK, AnswersOK
  <2>3. \A n \in DOMAIN toPanel' :
          /\ toPanel'[n].type = "part" => Fits(toPanel[n])'
          /\ toPanel'[n].type \in {"part", "reply", "refusal"}
               => toPanel'[n].stamp.content <= content'
    BY <2>1, LeftAnswers DEF QueuesOK, RequestsOK, AnswersOK
  <2> QED BY <1>6, <2>2, <2>3 DEF QueuesOK, RequestsOK, AnswersOK, OnlyTaken
<1>10. OrderOK'
  <2>1. registry' # None => Past(registry.content)'
    BY <1>6, LeftAnswers DEF OrderOK
  <2>2. statuses' # None => Past(statuses)'
    BY <1>6, LeftAnswers DEF OrderOK
  <2>3. ASSUME NEW q \in ops', NEW p \in Ordered \cap DOMAIN q.got
        PROVE  Past(q.got[p].content)' /\ (q.gen = generation' => Covers(q.got[p].content)')
    <3>1. CASE q = full
      <4>1. ok /\ ~done /\ UNCHANGED <<registry, statuses>>
        BY <1>3, <1>6, <3>1, <1>2 DEF OpsOK
      <4> QED BY <1>2, <1>4, <1>6, <3>1, <4>1 DEF Covers
    <3>2. CASE q \in ops /\ q # o
      <4>1. Past(q.got[p].content)'
        BY <3>2, LeftAnswers DEF OrderOK
      <4>2. q.gen = generation' => UNCHANGED <<registry, statuses>>
        BY <1>6, <3>2 DEF OpsOK
      <4>3. q.gen = generation' => Covers(q.got[p].content)
        BY <1>6, <3>2 DEF OrderOK
      <4> QED BY <4>1, <4>2, <4>3 DEF Covers
    <3> QED BY <1>7, <3>1, <3>2
  <2> QED BY <2>1, <2>2, <2>3, LeftAnswers DEF OrderOK
<1>11. Grows
  BY <1>6 DEF Grows
<1> QED BY <1>6, <1>8, <1>9, <1>10, <1>11

-----------------------------------------------------------------------------
(***************************************************************************)
(* The server's steps.                                                     *)
(***************************************************************************)

\* The invariant has the type invariant in it.
LEMMA IInvTypeOK == IInv => TypeOK
BY DEF IInv, TypeOK, ServerOK, PanelOK, ClientOK, OpsOK, Op

\* What is shown, and what refreshes have got, stays ordered when answers are added.
LEMMA OrderKept ==
  ASSUME PanelOK, OpsOK, OrderOK,
         \A c \in Nat : Past(c) => Past(c)',
         \A i, j \in DOMAIN toPanel' :
           i < j /\ toPanel'[i].type = "part" /\ toPanel'[j].type = "part"
             => toPanel'[i].stamp.content <= toPanel'[j].stamp.content,
         UNCHANGED <<ops, generation, registry, statuses>>
  PROVE  OrderOK'
<1>1. registry' # None => Past(registry.content)'
  BY DEF OrderOK, PanelOK, Stamp
<1>2. statuses' # None => Past(statuses)'
  BY DEF OrderOK, PanelOK
<1>3. ASSUME NEW q \in ops', NEW p \in Ordered \cap DOMAIN q.got
      PROVE  Past(q.got[p].content)' /\ (q.gen = generation' => Covers(q.got[p].content)')
  <2>1. q \in ops /\ q.got \in Gots /\ Past(q.got[p].content)
    BY DEF OpsOK, Op, OrderOK
  <2>2. q.got[p] \in Stamp
    BY <2>1 DEF Gots
  <2>3. q.got[p].content \in Nat
    BY <2>2 DEF Stamp
  <2> QED BY <2>1, <2>3 DEF OrderOK, Covers
<1> QED BY <1>1, <1>2, <1>3 DEF OrderOK

\* Notices, replies and refusals are added.
LEMMA OtherAnswers ==
  ASSUME PanelOK, OpsOK, AnswersOK, OrderOK,
         content \in Nat, content' \in Nat, content <= content',
         NEW r \in Seq(Answer), toPanel' = toPanel \o r,
         \A k \in DOMAIN r : /\ r[k].type # "part"
                             /\ r[k].type \in {"reply", "refusal"} => r[k].stamp.content <= content',
         UNCHANGED <<ops, generation, registry, statuses>>
  PROVE  AnswersOK' /\ OrderOK'
<1>1. /\ toPanel' \in Seq(Answer)
      /\ \A n \in DOMAIN toPanel' : (n \in DOMAIN toPanel /\ toPanel'[n] = toPanel[n])
                                      \/ (\E k \in DOMAIN r : toPanel'[n] = r[k])
  BY Added DEF AnswersOK
<1>2. \A n \in DOMAIN toPanel' : toPanel'[n].type = "part"
                                   => n \in DOMAIN toPanel /\ toPanel'[n] = toPanel[n]
  BY <1>1
<1>3. \A n \in DOMAIN toPanel : toPanel[n].type \in {"part", "reply", "refusal"}
                                  => toPanel[n].stamp.content \in Nat
  BY DEF AnswersOK, Answer, Stamp
<1>4. AnswersOK'
  <2>1. \A m : Fits(m) => Fits(m)'
    BY DEF Fits
  <2>2. ASSUME NEW n \in DOMAIN toPanel'
        PROVE  /\ toPanel'[n].type = "part" => Fits(toPanel[n])'
               /\ toPanel'[n].type \in {"part", "reply", "refusal"}
                    => toPanel'[n].stamp.content <= content'
    <3>1. CASE n \in DOMAIN toPanel /\ toPanel'[n] = toPanel[n]
      BY <1>3, <2>1, <3>1 DEF AnswersOK
    <3>2. CASE \E k \in DOMAIN r : toPanel'[n] = r[k]
      BY <3>2
    <3> QED BY <1>1, <3>1, <3>2
  <2> QED BY <1>1, <2>2 DEF AnswersOK
<1>5. \A c \in Nat : Past(c) => Past(c)'
  BY <1>2 DEF Past
<1>6. \A i, j \in DOMAIN toPanel' :
        i < j /\ toPanel'[i].type = "part" /\ toPanel'[j].type = "part"
          => toPanel'[i].stamp.content <= toPanel'[j].stamp.content
  BY <1>2 DEF OrderOK
<1> QED BY <1>4, <1>5, <1>6, OrderKept

\* A read is answered with what there is: no older than all that is under way.
LEMMA PartAnswer ==
  ASSUME PanelOK, OpsOK, AnswersOK, OrderOK, content \in Nat, content' = content,
         NEW m \in Answer, toPanel' = Append(toPanel, m),
         m.type = "part", m.stamp.content = content, Fits(m),
         UNCHANGED <<ops, generation, registry, statuses>>
  PROVE  AnswersOK' /\ OrderOK'
<1>1. /\ toPanel' \in Seq(Answer)
      /\ \A n \in DOMAIN toPanel' : (n \in DOMAIN toPanel /\ toPanel'[n] = toPanel[n])
                                      \/ (toPanel'[n] = m /\ \A k \in DOMAIN toPanel : k < n)
  BY Appended DEF AnswersOK
<1>2. DOMAIN toPanel' \subseteq Int
  BY <1>1
<1>3. \A k : Fits(k) => Fits(k)'
  BY DEF Fits
<1>4. AnswersOK'
  <2>1. ASSUME NEW n \in DOMAIN toPanel'
        PROVE  /\ toPanel'[n].type = "part" => Fits(toPanel[n])'
               /\ toPanel'[n].type \in {"part", "reply", "refusal"}
                    => toPanel'[n].stamp.content <= content'
    <3>1. CASE n \in DOMAIN toPanel /\ toPanel'[n] = toPanel[n]
      BY <1>3, <3>1 DEF AnswersOK
    <3>2. CASE toPanel'[n] = m
      <4>1. Fits(m)' BY <1>3
      <4> QED BY <3>2, <4>1
    <3> QED BY <1>1, <3>1, <3>2
  <2> QED BY <1>1, <2>1 DEF AnswersOK
<1>5. \A c \in Nat : Past(c) => Past(c)'
  BY <1>1 DEF Past
<1>6. ASSUME NEW i \in DOMAIN toPanel', NEW j \in DOMAIN toPanel', i < j,
             toPanel'[i].type = "part", toPanel'[j].type = "part"
      PROVE  toPanel'[i].stamp.content <= toPanel'[j].stamp.content
  <2>1. CASE j \in DOMAIN toPanel /\ toPanel'[j] = toPanel[j]
    <3>1. i \in DOMAIN toPanel /\ toPanel'[i] = toPanel[i]
      BY <1>1, <1>2, <1>6, <2>1
    <3> QED BY <1>6, <2>1, <3>1 DEF OrderOK
  <2>2. CASE toPanel'[j] = m /\ \A k \in DOMAIN toPanel : k < j
    <3>1. toPanel'[i].stamp.content <= content
      BY <1>1, <1>6 DEF AnswersOK
    <3> QED BY <2>2, <3>1
  <2> QED BY <1>1, <2>1, <2>2
<1> QED BY <1>4, <1>5, <1>6, OrderKept

\* The first request is taken.
LEMMA RequestTaken ==
  ASSUME RequestsOK, toServer # <<>>, toServer' = Tail(toServer),
         UNCHANGED <<ops, generation, subId>>
  PROVE  /\ RequestsOK' /\ Head(toServer) \in Request
         /\ Head(toServer).type = "read" => Fits(Head(toServer))
         /\ Head(toServer).type = "subscribe" => Head(toServer).sub \in 1..subId
<1>1. /\ Head(toServer) \in Request /\ Head(toServer) = toServer[1] /\ 1 \in DOMAIN toServer
      /\ toServer' \in Seq(Request)
      /\ \A n \in DOMAIN toServer' : n + 1 \in DOMAIN toServer /\ toServer'[n] = toServer[n + 1]
  BY Taken DEF RequestsOK
<1>2. \A m : Fits(m) => Fits(m)'
  BY DEF Fits
<1>3. \A n \in DOMAIN toServer' : /\ toServer'[n].type = "read" => Fits(toServer[n])'
                                  /\ toServer'[n].type = "subscribe"
                                       => toServer'[n].sub \in 1..subId'
  BY <1>1, <1>2 DEF RequestsOK
<1> QED BY <1>1, <1>3 DEF RequestsOK

\* A notice is at most one answer, and no part of a refresh.
LEMMA NoticeOK ==
  ASSUME ServerOK, subId \in Nat, NEW revision \in Nat
  PROVE  /\ Notice(revision) \in Seq(Answer)
         /\ \A k \in DOMAIN Notice(revision) : Notice(revision)[k].type = "event"
<1>1. CASE feed = None
  BY <1>1 DEF Notice
<1>2. CASE feed # None
  <2> DEFINE r == IF feed.revision = Live THEN revision ELSE feed.revision
             m == [type |-> "event", sub |-> feed.sub, revision |-> r]
  <2>1. feed.sub \in 1..subId /\ feed.revision \in Nat \cup {Live}
    BY <1>2 DEF ServerOK
  <2>2. feed.sub \in Nat /\ r \in Nat
    BY <2>1
  <2>3. m \in Answer /\ m.type = "event"
    BY <2>2 DEF Answer
  <2>4. Notice(revision) = <<m>>
    BY <1>2 DEF Notice
  <2> HIDE DEF m
  <2> QED BY <2>3, <2>4
<1> QED BY <1>1, <1>2

\* The revision read now names the content of now.
LEMMA CurrentOK ==
  ASSUME ServerOK PROVE Current \in Stamp /\ Current.content = content /\ content - base \in Nat
BY DEF ServerOK, Current, Stamp

\* The server takes a request and answers it.
LEMMA ServeInv == ASSUME IInv, Serve PROVE IInv'
<1> DEFINE m == Head(toServer)
<1>1. /\ RequestsOK' /\ m \in Request
      /\ m.type = "read" => Fits(m)
      /\ m.type = "subscribe" => m.sub \in 1..subId
  BY RequestTaken DEF IInv, QueuesOK, Serve, link
<1>2. /\ PanelOK' /\ OpsOK'
  BY DEF IInv, PanelOK, OpsOK, Serve, shown, shell, link
<1>3. /\ UNCHANGED <<ops, generation, registry, statuses>> /\ content \in Nat
      /\ PanelOK /\ OpsOK /\ AnswersOK /\ OrderOK /\ ServerOK /\ ClientOK /\ subId \in Nat
      /\ UNCHANGED <<basis, reviewed, refusedAt, attached, subId>>
  BY DEF IInv, QueuesOK, ServerOK, PanelOK, Serve, shown, link
<1>4. ServerOK' /\ content \in Nat /\ content' \in Nat /\ content <= content'
        /\ AnswersOK' /\ OrderOK'
  <2>1. CASE ServeRead(m)
    <3>1. PICK ok \in BOOLEAN :
            /\ MayFail(ok)
            /\ toPanel' = Append(toPanel, [type |-> "part", gen |-> m.gen, part |-> m.part,
                                           stamp |-> Current, ok |-> ok])
      BY <2>1 DEF ServeRead
    <3>2. m.gen \in Nat /\ m.part \in Part /\ Fits(m)
      BY <1>1, <2>1 DEF ServeRead, Request
    <3> DEFINE a == [type |-> "part", gen |-> m.gen, part |-> m.part,
                     stamp |-> Current, ok |-> ok]
    <3>3. a \in Answer /\ a.type = "part" /\ a.stamp.content = content /\ Fits(a)
      BY <1>3, <3>2, CurrentOK DEF Answer, Fits
    <3>4. ServerOK' /\ content' = content
      BY <1>3, <2>1, <3>1, PanelAssumption DEF ServerOK, ServeRead, MayFail, server
    <3>5. AnswersOK' /\ OrderOK'
      <4>1. toPanel' = Append(toPanel, a) BY <3>1
      <4> HIDE DEF a
      <4> QED BY <1>3, <3>3, <3>4, <4>1, PartAnswer
    <3> QED BY <1>3, <3>4, <3>5
  <2>2. CASE ServeMutation(m)
    <3>1. CASE UNCHANGED <<content, toPanel>>
      <4>1. toPanel' = toPanel \o <<>> /\ <<>> \in Seq(Answer) /\ DOMAIN <<>> = {}
        BY <1>3, <3>1 DEF AnswersOK
      <4>2. content' \in Nat /\ content <= content'
        BY <1>3, <3>1
      <4>3. \A k \in DOMAIN <<>> : /\ <<>>[k].type # "part"
                                   /\ <<>>[k].type \in {"reply", "refusal"}
                                        => <<>>[k].stamp.content <= content'
        BY <4>1
      <4>4. AnswersOK' /\ OrderOK'
        BY <1>3, <4>1, <4>2, <4>3, OtherAnswers
      <4> QED BY <1>3, <2>2, <3>1, <4>2, <4>4 DEF ServeMutation, ServerOK
    <3>2. CASE /\ content' = content + 1
               /\ toPanel' = toPanel \o Append(Notice(content' - base),
                    [type |-> "reply", follow |-> m.follow,
                     stamp |-> [content |-> content', revision |-> content' - base]])
      <4> DEFINE a == [type |-> "reply", follow |-> m.follow,
                       stamp |-> [content |-> content', revision |-> content' - base]]
                 n == Notice(content' - base)
      <4>1. content' \in Nat /\ content' - base \in Nat /\ content <= content' /\ base <= content'
        BY <1>3, <3>2 DEF ServerOK
      <4>2. m.follow \in Follow
        BY <1>1, <2>2 DEF ServeMutation, Request
      <4>3. a \in Answer /\ a.type = "reply" /\ a.stamp.content = content'
        BY <4>1, <4>2 DEF Answer, Stamp
      <4>4. n \in Seq(Answer) /\ \A k \in DOMAIN n : n[k].type = "event"
        BY <1>3, <4>1, NoticeOK
      <4>5. toPanel' = toPanel \o Append(n, a)
        BY <3>2
      <4> HIDE DEF a, n
      <4>6. /\ Append(n, a) \in Seq(Answer)
            /\ \A k \in DOMAIN Append(n, a) :
                 /\ Append(n, a)[k].type # "part"
                 /\ Append(n, a)[k].type \in {"reply", "refusal"}
                      => Append(n, a)[k].stamp.content <= content'
        BY <3>2, <4>1, <4>3, <4>4, Appended
      <4>7. AnswersOK' /\ OrderOK'
        BY <1>3, <4>1, <4>5, <4>6, OtherAnswers
      <4> QED BY <1>3, <2>2, <3>2, <4>1, <4>7 DEF ServeMutation, ServerOK
    <3>3. CASE /\ toPanel' = Append(toPanel, [type |-> "refusal", stamp |-> Current])
               /\ UNCHANGED content
      <4> DEFINE a == [type |-> "refusal", stamp |-> Current]
      <4>1. a \in Answer /\ a.type = "refusal" /\ a.stamp.content = content
        BY <1>3, CurrentOK DEF Answer
      <4>2. toPanel' = Append(toPanel, a) /\ toPanel \in Seq(Answer)
        BY <1>3, <3>3 DEF AnswersOK
      <4> HIDE DEF a
      <4>3. toPanel' = toPanel \o <<a>> /\ <<a>> \in Seq(Answer)
        BY <4>1, <4>2
      <4>4. \A k \in DOMAIN <<a>> : /\ <<a>>[k].type # "part"
                                    /\ <<a>>[k].type \in {"reply", "refusal"}
                                         => <<a>>[k].stamp.content <= content'
        BY <1>3, <3>3, <4>1
      <4>5. content' \in Nat /\ content <= content'
        BY <1>3, <3>3
      <4>6. AnswersOK' /\ OrderOK'
        BY <1>3, <4>3, <4>4, <4>5, OtherAnswers
      <4> QED BY <1>3, <2>2, <3>3, <4>5, <4>6 DEF ServeMutation, ServerOK
    <3> QED BY <2>2, <3>1, <3>2, <3>3 DEF ServeMutation
  <2>3. CASE ServeSubscribe(m)
    <3>1. PICK ok \in BOOLEAN :
            /\ MayFail(ok)
            /\ feed' = IF ok THEN [sub |-> m.sub, revision |-> Live] ELSE feed
            /\ toPanel' = Append(toPanel, [type |-> "subscribed", sub |-> m.sub, ok |-> ok])
      BY <2>3 DEF ServeSubscribe
    <3> DEFINE a == [type |-> "subscribed", sub |-> m.sub, ok |-> ok]
    <3>2. m.sub \in 1..subId /\ m.sub \in Nat
      BY <1>1, <1>3, <2>3 DEF ServeSubscribe
    <3>3. a \in Answer /\ a.type = "subscribed"
      BY <3>2 DEF Answer
    <3>4. ServerOK' /\ content' = content
      BY <1>3, <2>3, <3>1, <3>2, PanelAssumption DEF ServerOK, ServeSubscribe, MayFail
    <3>5. toPanel' = Append(toPanel, a) /\ toPanel \in Seq(Answer)
      BY <1>3, <3>1 DEF AnswersOK
    <3> HIDE DEF a
    <3>6. toPanel' = toPanel \o <<a>> /\ <<a>> \in Seq(Answer)
      BY <3>3, <3>5
    <3>7. \A k \in DOMAIN <<a>> : /\ <<a>>[k].type # "part"
                                  /\ <<a>>[k].type \in {"reply", "refusal"}
                                       => <<a>>[k].stamp.content <= content'
      BY <3>3
    <3>8. content' \in Nat /\ content <= content'
      BY <1>3, <3>4
    <3>9. AnswersOK' /\ OrderOK'
      BY <1>3, <3>6, <3>7, <3>8, OtherAnswers
    <3> QED BY <1>3, <3>4, <3>8, <3>9
  <2> QED BY <2>1, <2>2, <2>3 DEF Serve
<1>5. ClientOK'
  BY <1>3, <1>4 DEF ClientOK
<1> QED BY <1>1, <1>2, <1>4, <1>5 DEF IInv, QueuesOK

\* Somebody else's commit.
LEMMA OtherCommitInv == ASSUME IInv, OtherCommit PROVE IInv'
<1> DEFINE n == Notice(content' - base)
<1>1. /\ PanelOK /\ OpsOK /\ AnswersOK /\ OrderOK /\ ServerOK /\ content \in Nat
      /\ UNCHANGED <<ops, generation, registry, statuses>>
      /\ content' = content + 1 /\ toPanel' = toPanel \o n
  BY DEF IInv, QueuesOK, ServerOK, OtherCommit, shown
<1>2. content' \in Nat /\ content <= content' /\ content' - base \in Nat /\ subId \in Nat
  BY <1>1 DEF ServerOK, PanelOK
<1>3. n \in Seq(Answer) /\ \A k \in DOMAIN n : n[k].type = "event"
  BY <1>1, <1>2, NoticeOK
<1> HIDE DEF n
<1>4. \A k \in DOMAIN n : /\ n[k].type # "part"
                          /\ n[k].type \in {"reply", "refusal"} => n[k].stamp.content <= content'
  BY <1>3
<1>5. AnswersOK' /\ OrderOK'
  BY <1>1, <1>2, <1>3, <1>4, OtherAnswers
<1>6. RequestsOK'
  BY DEF IInv, QueuesOK, RequestsOK, Fits, OtherCommit, link
<1>7. ServerOK' /\ PanelOK' /\ ClientOK' /\ OpsOK'
  BY <1>1, <1>2 DEF IInv, ServerOK, PanelOK, ClientOK, OpsOK, OtherCommit, shown, shell, link
<1> QED BY <1>5, <1>6, <1>7 DEF IInv, QueuesOK

\* The config entry is reloaded: the revision starts again, the content stays.
LEMMA ReloadInv == ASSUME IInv, Reload PROVE IInv'
<1>1. UNCHANGED <<content, toServer, toPanel, ops, generation, shown, shell, link>>
  BY DEF Reload
<1>2. PanelOK' /\ OpsOK' /\ OrderOK'
  <2>1. conflict' = conflict BY DEF Reload
  <2> QED BY <1>1, <2>1 DEF IInv, PanelOK, OpsOK, OrderOK, Past, Covers, shown, shell, link
<1>3. ClientOK' /\ QueuesOK'
  <2>1. ClientOK' BY DEF IInv, ClientOK, Reload, link
  <2> QED BY <1>1, <2>1 DEF IInv, QueuesOK, RequestsOK, AnswersOK, Fits, link
<1>4. ServerOK'
  <2>1. content - base \in Nat /\ content \in 0..content
    BY DEF IInv, ServerOK
  <2>2. feed' = None \/ feed' \in [sub : 1..subId', revision : Nat \cup {Live}]
    BY <2>1 DEF IInv, ServerOK, Reload, link
  <2> QED BY <2>1, <2>2 DEF IInv, ServerOK, Reload
<1> QED BY <1>2, <1>3, <1>4 DEF IInv

\* A load begins.
LEMMA StartLoadInv == ASSUME IInv, NEW initial \in BOOLEAN, StartLoad(initial) PROVE IInv' /\ Grows
<1>1. /\ "load" \in Kind /\ ~Loading /\ Start("load")
      /\ OnlyTaken /\ UNCHANGED <<content, registry, statuses, subId>>
  BY DEF IInv, QueuesOK, AnswersOK, OnlyTaken, StartLoad, Kind, server, shown, link
<1>2. QueuesOK' /\ OpsOK' /\ OrderOK' /\ Grows
  BY <1>1, StartInv DEF IInv
<1>3. ServerOK' /\ PanelOK' /\ ClientOK'
  BY DEF IInv, ServerOK, PanelOK, ClientOK, StartLoad, server, shown, link
<1> QED BY <1>2, <1>3 DEF IInv

\* One request that no refresh waits for.
LEMMA OneRequest ==
  ASSUME RequestsOK, OpsOK, NEW m \in Request, toServer' = Append(toServer, m),
         m.type = "read" => m.gen = 0, m.type # "subscribe",
         UNCHANGED <<ops, generation, subId>>
  PROVE  RequestsOK'
<1>1. /\ toServer' \in Seq(Request)
      /\ \A n \in DOMAIN toServer' :
           (n \in DOMAIN toServer /\ toServer'[n] = toServer[n]) \/ toServer'[n] = m
  BY Appended DEF RequestsOK
<1>2. (\A k : Fits(k) => Fits(k)') /\ (m.type = "read" => Fits(m)')
  BY DEF Fits, OpsOK
<1>3. ASSUME NEW n \in DOMAIN toServer'
      PROVE  /\ toServer'[n].type = "read" => Fits(toServer[n])'
             /\ toServer'[n].type = "subscribe" => toServer'[n].sub \in 1..subId'
  <2>1. CASE n \in DOMAIN toServer /\ toServer'[n] = toServer[n]
    BY <1>2, <2>1 DEF RequestsOK
  <2>2. CASE toServer'[n] = m
    <3>1. m.type = "read" => Fits(m)' BY <1>2
    <3> QED BY <2>2, <3>1
  <2> QED BY <1>1, <2>1, <2>2
<1> QED BY <1>1, <1>3 DEF RequestsOK

\* A mutation is sent.
LEMMA SendInv ==
  ASSUME IInv, NEW based \in Stamp \cup {None},
         NEW alone \in BOOLEAN, NEW follow \in Follow, Send(based, alone, follow)
  PROVE  IInv'
<1> DEFINE m == [type |-> "mutate", based |-> based, alone |-> alone, follow |-> follow]
<1>1. m \in Request /\ m.type = "mutate" /\ toServer' = Append(toServer, m)
  BY DEF Request, Send
<1> HIDE DEF m
<1>2. /\ RequestsOK /\ OpsOK
      /\ UNCHANGED <<server, toPanel, failures, basis, ops, generation, shown, shell, conflict,
                     refusedAt, link, reviewed>>
  BY DEF IInv, QueuesOK, Send
<1>3. RequestsOK'
  BY <1>1, <1>2, OneRequest DEF link
<1>4. ServerOK' /\ PanelOK' /\ ClientOK' /\ AnswersOK' /\ OpsOK' /\ OrderOK'
  BY <1>2 DEF IInv, ServerOK, PanelOK, ClientOK, QueuesOK, AnswersOK, Fits, OpsOK, OrderOK, Past,
              Covers, server, shown, shell, link
<1> QED BY <1>3, <1>4 DEF IInv, QueuesOK

\* Mutations state what the client, or the last preview, has read.
LEMMA MutateInv == ASSUME IInv, Mutate \/ MutateReviewed PROVE IInv'
<1>1. CASE Mutate
  <2>1. PICK follow \in Follow :
          Send(basis, Writing = {}, follow)
    BY <1>1 DEF Mutate
  <2>2. registry \in Stamp /\ basis \in Stamp \cup {None} /\ assets \in Nat \cup {None}
    BY <2>1 DEF Send, Usable, IInv, PanelOK, ClientOK
  <2>3. (IF follow \in {<<"list">>, <<"assets">>} THEN assets ELSE registry.content)
          \in Nat \cup {None} /\ (Writing = {}) \in BOOLEAN
    BY <2>2 DEF Stamp
  <2> QED BY <2>1, <2>2, <2>3, SendInv
<1>2. CASE MutateReviewed
  <2>1. PICK follow \in Follow : Send(reviewed, FALSE, follow)
    BY <1>2 DEF MutateReviewed
  <2>2. reviewed \in Stamp /\ reviewed.content \in Nat
    BY <1>2 DEF MutateReviewed, IInv, ClientOK, Stamp
  <2> QED BY <2>1, <2>2, SendInv
<1> QED BY <1>1, <1>2

\* A preview is asked for.
LEMMA PreviewInv == ASSUME IInv, Preview PROVE IInv' /\ Grows
<1> DEFINE m == Read(0, "preview")
<1>1. m \in Request /\ m.type = "read" /\ m.gen = 0 /\ toServer' = Append(toServer, m)
  BY DEF Request, Preview, Read, Part
<1> HIDE DEF m
<1>2. /\ RequestsOK /\ OpsOK
      /\ UNCHANGED <<server, toPanel, failures, basis, ops, generation, shown, shell, conflict,
                     refusedAt, link, reviewed>>
  BY DEF IInv, QueuesOK, Preview
<1>3. RequestsOK'
  BY <1>1, <1>2, OneRequest DEF link
<1>4. ServerOK' /\ PanelOK' /\ ClientOK' /\ AnswersOK' /\ OpsOK' /\ OrderOK'
  BY <1>2 DEF IInv, ServerOK, PanelOK, ClientOK, QueuesOK, AnswersOK, Fits, OpsOK, OrderOK, Past,
              Covers, server, shown, shell, link
<1>5. Grows
  BY <1>1, <1>2, Appended DEF Grows, RequestsOK
<1> QED BY <1>3, <1>4, <1>5 DEF IInv, QueuesOK

\* The subscription, and the element that comes and goes.
LEMMA LinkInv == ASSUME IInv, EnsureSubscription \/ Disconnect \/ Connect PROVE IInv' /\ Grows
<1>1. /\ UNCHANGED <<server, toPanel, failures, basis, ops, generation, shown, shell, conflict,
                     refusedAt, reviewed>>
      /\ attached' \in BOOLEAN
  BY DEF IInv, ClientOK, EnsureSubscription, Disconnect, Connect
<1>2. /\ toServer \in Seq(Request) /\ subId \in Nat /\ sub \in {"none", "pending", "active"}
  BY DEF IInv, QueuesOK, RequestsOK, PanelOK
<1>3. /\ toServer' \in Seq(Request) /\ subId' \in Nat /\ subId <= subId'
      /\ sub' \in {"none", "pending", "active"}
      /\ \A n \in DOMAIN toServer' :
           \/ n \in DOMAIN toServer /\ toServer'[n] = toServer[n]
           \/ toServer'[n].type = "subscribe" /\ toServer'[n].sub \in 1..subId'
  <2>1. CASE Subscribe
    BY <1>2, <2>1, SubscribeInv
  <2>2. CASE UNCHANGED <<sub, subId, toServer>>
    BY <1>2, <2>2
  <2>3. CASE Disconnect
    BY <1>2, <2>3 DEF Disconnect
  <2> QED BY <2>1, <2>2, <2>3 DEF EnsureSubscription, Connect
<1>4. RequestsOK'
  <2>1. \A k : Fits(k) => Fits(k)'
    BY <1>1 DEF Fits
  <2>2. \A n \in DOMAIN toServer' : /\ toServer'[n].type = "read" => Fits(toServer[n])'
                                    /\ toServer'[n].type = "subscribe"
                                         => toServer'[n].sub \in 1..subId'
    BY <1>2, <1>3, <2>1 DEF IInv, QueuesOK, RequestsOK
  <2> QED BY <1>3, <2>2 DEF RequestsOK
<1>5. AnswersOK' /\ OpsOK' /\ OrderOK' /\ PanelOK' /\ ClientOK'
  BY <1>1, <1>3 DEF IInv, PanelOK, ClientOK, QueuesOK, AnswersOK, Fits, OpsOK, OrderOK, Past,
                    Covers, server, shown, shell
<1>6. ServerOK'
  BY <1>1, <1>2, <1>3 DEF IInv, ServerOK, server
<1>7. Grows
  BY <1>3 DEF Grows
<1> QED BY <1>4, <1>5, <1>6, <1>7 DEF IInv, QueuesOK

-----------------------------------------------------------------------------
(***************************************************************************)
(* The panel's steps on answers.                                           *)
(***************************************************************************)

\* The part that other handlers than the registry's answer.
LEMMA PlacesArriveInv == ASSUME IInv, PlacesArrive PROVE IInv' /\ NothingOlder /\ Grows
<1>1. PICK o \in ops, ok \in BOOLEAN :
        /\ o.kind = "load" /\ MayFail(ok) /\ Arrive(o, "places", Current, ok)
        /\ UNCHANGED <<server, toPanel, basis, refusedAt, attached, reviewed>>
  BY DEF PlacesArrive
<1>2. PICK stamp \in Stamp : stamp = Current
  BY CurrentOK DEF IInv
<1>3. "places" \in Parts(o.kind) /\ "places" \notin Ordered
  BY <1>1 DEF Parts, Ordered
<1>4. OnlyTaken /\ content' = content
  BY <1>1 DEF IInv, QueuesOK, AnswersOK, OnlyTaken, server
<1>5. PanelOK' /\ QueuesOK' /\ OpsOK' /\ OrderOK' /\ NothingOlder /\ subId <= subId' /\ Grows
  <2>1. Arrive(o, "places", stamp, ok) BY <1>1, <1>2
  <2> QED BY <1>3, <1>4, <2>1, ArriveInv DEF IInv
<1>6. ClientOK'
  BY <1>1 DEF IInv, ClientOK, server
<1>7. ServerOK'
  <2>1. failures' \in 0..MaxFailures
    BY <1>1, PanelAssumption DEF IInv, ServerOK, MayFail
  <2>2. subId <= subId' /\ subId \in Nat /\ subId' \in Nat
    BY <1>5 DEF IInv, PanelOK
  <2> QED BY <1>1, <2>1, <2>2 DEF IInv, ServerOK, server
<1> QED BY <1>5, <1>6, <1>7 DEF IInv

\* What is known of the answer that is taken.
LEMMA AnswerTaken ==
  ASSUME IInv, toPanel # <<>>, toPanel' = Tail(toPanel), content' = content
  PROVE  /\ OnlyTaken /\ Head(toPanel) \in Answer
         /\ Head(toPanel).type = "part" => Fits(Head(toPanel))
         /\ Head(toPanel).type \in {"reply", "refusal"} => Head(toPanel).stamp.content <= content
         /\ \A m : m = Head(toPanel) /\ m.type = "part" => Fresh(m.stamp)
<1>1. /\ Head(toPanel) \in Answer /\ Head(toPanel) = toPanel[1] /\ 1 \in DOMAIN toPanel
      /\ toPanel' \in Seq(Answer)
      /\ \A n \in DOMAIN toPanel' :
           n \in Nat /\ n + 1 \in DOMAIN toPanel /\ 1 < n + 1 /\ toPanel'[n] = toPanel[n + 1]
  BY Taken DEF IInv, QueuesOK, AnswersOK
<1>2. OnlyTaken
  BY <1>1 DEF OnlyTaken
<1>3. ASSUME NEW m, m = Head(toPanel), m.type = "part" PROVE Fresh(m.stamp)
  <2>1. m \in Answer /\ m = toPanel[1] BY <1>1, <1>3
  <2>2. m.stamp \in Stamp /\ m.stamp.content <= content
    BY <1>1, <1>3, <2>1 DEF Answer, IInv, QueuesOK, AnswersOK
  <2>3. Past(m.stamp.content)'
    <3>1. ASSUME NEW n \in DOMAIN toPanel', toPanel'[n].type = "part"
          PROVE  m.stamp.content <= toPanel'[n].stamp.content
      BY <1>1, <1>3, <2>1, <3>1 DEF IInv, OrderOK
    <3> QED BY <2>2, <3>1 DEF Past
  <2>4. Covers(m.stamp.content)
    BY <1>1, <1>3, <2>1 DEF Covers, IInv, OrderOK, Past
  <2> QED BY <2>2, <2>3, <2>4 DEF Fresh
<1> QED BY <1>1, <1>2, <1>3 DEF IInv, QueuesOK, AnswersOK

\* Taking an answer that starts and lands nothing.
LEMMA OnlyTakenInv ==
  ASSUME IInv, OnlyTaken,
         UNCHANGED <<content, toServer, ops, generation, registry, statuses, subId>>
  PROVE  QueuesOK' /\ OpsOK' /\ OrderOK' /\ Grows
<1>1. OpsOK' /\ RequestsOK'
  BY DEF IInv, QueuesOK, OpsOK, RequestsOK, Fits
<1>2. \A m : Fits(m) => Fits(m)'
  BY DEF Fits
<1>3. /\ QueuesOK /\ OrderOK
  BY DEF IInv
<1>4. \A n \in DOMAIN toPanel' :
        /\ toPanel'[n].type = "part" => Fits(toPanel[n])'
        /\ toPanel'[n].type \in {"part", "reply", "refusal"}
             => toPanel'[n].stamp.content <= content'
  BY <1>2, <1>3, LeftAnswers DEF QueuesOK, AnswersOK
<1>5. AnswersOK'
  BY <1>4 DEF AnswersOK, OnlyTaken
<1>6. OrderOK'
  <2>1. \A c : Past(c) => Past(c)'
    BY <1>3, LeftAnswers
  <2> QED BY <1>3, <2>1, LeftAnswers DEF OrderOK, Covers
<1>7. Grows
  BY DEF Grows
<1> QED BY <1>1, <1>5, <1>6, <1>7 DEF QueuesOK

\* An answer of each kind is received.
LEMMA ReceiveInv == ASSUME IInv, Receive PROVE IInv' /\ NothingOlder /\ Grows
<1>1. PICK m : m = Head(toPanel)
  OBVIOUS
<1>2. /\ toPanel # <<>> /\ toPanel' = Tail(toPanel) /\ UNCHANGED <<server, failures, attached>>
      /\ ReceivePart(m) \/ ReceiveEvent(m) \/ ReceiveReply(m) \/ ReceiveRefusal(m)
           \/ ReceiveSubscribed(m)
  BY <1>1 DEF Receive
<1>3. /\ OnlyTaken /\ m \in Answer
      /\ m.type = "part" => Fits(m) /\ Fresh(m.stamp)
      /\ m.type \in {"reply", "refusal"} => m.stamp.content <= content
  BY <1>1, <1>2, AnswerTaken DEF server
<1>4. /\ ServerOK /\ PanelOK /\ ClientOK /\ QueuesOK /\ OpsOK /\ OrderOK /\ subId \in Nat
      /\ UNCHANGED <<content, attached>>
  BY <1>2 DEF IInv, PanelOK, server
<1>5. ASSUME PanelOK', subId <= subId' PROVE ServerOK'
  BY <1>2, <1>4, <1>5 DEF ServerOK, PanelOK, server
<1>6. CASE ReceivePart(m)
  <2>1. m.type = "part" /\ m.stamp \in Stamp /\ m.ok \in BOOLEAN /\ refusedAt' = refusedAt
    BY <1>3, <1>6 DEF ReceivePart, Answer
  <2>2. ClientOK'
    <3>1. basis' \in Stamp \cup {None} /\ reviewed' \in Stamp \cup {None}
      BY <1>4, <1>6, <2>1 DEF ReceivePart, AcceptRevision, ClientOK
    <3> QED BY <1>4, <2>1, <3>1 DEF ClientOK
  <2>3. PanelOK' /\ QueuesOK' /\ OpsOK' /\ OrderOK' /\ NothingOlder /\ subId <= subId' /\ Grows
    <3>1. CASE m.part = "list"
      <4>1. /\ UNCHANGED <<registry, statuses, places, ops, conflict, sub, subId, toServer, shell,
                           generation>>
            /\ assets' \in {assets, m.stamp.content}
        BY <1>6, <3>1 DEF ReceivePart
      <4>2. PanelOK' /\ NothingOlder
        BY <1>4, <2>1, <4>1, SameIsNotOlder DEF PanelOK, NothingOlder, Stamp, shell
      <4> QED BY <1>3, <1>4, <4>1, <4>2, OnlyTakenInv
    <3>2. CASE m.part # "list" /\ \E o \in ops : o.gen = m.gen
      <4>1. PICK o \in ops : o.gen = m.gen /\ Arrive(o, m.part, m.stamp, m.ok)
        BY <1>6, <3>2 DEF ReceivePart
      <4>2. m.part \in Parts(o.kind)
        BY <1>3, <2>1, <4>1 DEF Fits
      <4> QED BY <1>3, <1>4, <2>1, <4>1, <4>2, ArriveInv
    <3>3. CASE m.part # "list" /\ ~\E o \in ops : o.gen = m.gen
      <4>1. UNCHANGED <<ops, shown, conflict, sub, subId, toServer, shell, generation>>
        BY <1>6, <3>3 DEF ReceivePart
      <4>2. PanelOK' /\ NothingOlder
        BY <1>4, <4>1, SameIsNotOlder DEF PanelOK, NothingOlder, shell, shown
      <4>3. UNCHANGED <<registry, statuses>>
        BY <4>1 DEF shown
      <4> QED BY <1>3, <1>4, <4>1, <4>2, <4>3, OnlyTakenInv
    <3> QED BY <3>1, <3>2, <3>3
  <2> QED BY <1>5, <2>2, <2>3 DEF IInv
<1>7. ASSUME UNCHANGED <<shown, shell, sub, subId>>, conflict' \in BOOLEAN
      PROVE  PanelOK' /\ NothingOlder /\ ServerOK' /\ UNCHANGED <<registry, statuses>>
  <2>1. PanelOK' /\ NothingOlder
    BY <1>4, <1>7, SameIsNotOlder DEF PanelOK, NothingOlder, shown, shell
  <2> QED BY <1>4, <1>5, <1>7, <2>1 DEF shown
<1>8. CASE ReceiveEvent(m)
  <2>1. PanelOK' /\ NothingOlder /\ ServerOK' /\ UNCHANGED <<registry, statuses, subId>>
    BY <1>4, <1>7, <1>8 DEF ReceiveEvent, PanelOK
  <2>2. ClientOK'
    BY <1>4, <1>8 DEF ReceiveEvent, ClientOK
  <2>3. QueuesOK' /\ OpsOK' /\ OrderOK' /\ Grows
    <3>1. CASE UNCHANGED <<ops, generation, toServer>>
      BY <1>3, <1>4, <2>1, <3>1, OnlyTakenInv
    <3>2. CASE Start("event")
      <4>1. "event" \in Kind /\ ("event" = "load" => ~Loading)
        BY DEF Kind
      <4> QED BY <1>3, <1>4, <2>1, <3>2, <4>1, StartInv
    <3> QED BY <1>8, <3>1, <3>2 DEF ReceiveEvent
  <2> QED BY <2>1, <2>2, <2>3 DEF IInv
<1>9. CASE ReceiveReply(m)
  <2>1. PanelOK' /\ NothingOlder /\ ServerOK' /\ UNCHANGED <<registry, statuses, subId>>
    BY <1>4, <1>7, <1>9 DEF ReceiveReply, PanelOK
  <2>2. m.type = "reply" /\ m.stamp \in Stamp /\ m.follow \in Follow
    BY <1>3, <1>9 DEF ReceiveReply, Answer
  <2>3. ClientOK'
    BY <1>4, <1>9, <2>2 DEF ReceiveReply, AcceptRevision, ClientOK
  <2>4. QueuesOK' /\ OpsOK' /\ OrderOK' /\ Grows
    <3>1. CASE m.follow = <<"list">>
      <4> DEFINE r == Read(0, "list")
      <4>1. toServer' = Append(toServer, r) /\ UNCHANGED <<ops, generation>>
        BY <1>9, <3>1 DEF ReceiveReply
      <4>2. r \in Request /\ r.type = "read" /\ r.gen = 0
        BY DEF Request, Read, Part
      <4> HIDE DEF r
      <4>3. RequestsOK'
        BY <1>4, <2>1, <4>1, <4>2, OneRequest DEF QueuesOK
      <4>4. \A k : Fits(k) => Fits(k)'
        BY <4>1 DEF Fits
      <4>5. \A n \in DOMAIN toPanel' :
              /\ toPanel'[n].type = "part" => Fits(toPanel[n])'
              /\ toPanel'[n].type \in {"part", "reply", "refusal"}
                   => toPanel'[n].stamp.content <= content'
        BY <1>3, <1>4, <4>4, LeftAnswers DEF QueuesOK, AnswersOK
      <4>6. AnswersOK'
        BY <1>3, <4>5 DEF AnswersOK, OnlyTaken
      <4>7. OpsOK'
        BY <1>4, <4>1 DEF OpsOK
      <4>8. OrderOK'
        <5>1. \A c : Past(c) => Past(c)'
          BY <1>3, <1>4, LeftAnswers
        <5> QED BY <1>3, <1>4, <2>1, <4>1, <5>1, LeftAnswers DEF OrderOK, Covers
      <4>9. Grows
        BY <1>4, <4>1, <4>2, Appended DEF Grows, QueuesOK, RequestsOK
      <4> QED BY <4>3, <4>6, <4>7, <4>8, <4>9 DEF QueuesOK
    <3>2. CASE m.follow # <<"list">>
      <4>1. StartAll(m.follow)
        BY <1>9, <3>2 DEF ReceiveReply
      <4> QED BY <1>3, <1>4, <2>1, <2>2, <3>2, <4>1, StartAllInv
    <3> QED BY <3>1, <3>2
  <2> QED BY <2>1, <2>3, <2>4 DEF IInv
<1>10. CASE ReceiveRefusal(m)
  <2>1. /\ UNCHANGED <<toServer, ops, generation>> /\ UNCHANGED <<shown, shell, sub, subId>>
        /\ UNCHANGED <<basis, reviewed>> /\ conflict' \in BOOLEAN
    BY <1>4, <1>10 DEF ReceiveRefusal, PanelOK
  <2>2. PanelOK' /\ NothingOlder /\ ServerOK' /\ UNCHANGED <<registry, statuses>>
    BY <1>7, <2>1
  <2>3. refusedAt' \in 0..content
    <3>1. refusedAt' = m.stamp.content /\ m.type = "refusal"
      BY <1>10 DEF ReceiveRefusal
    <3>2. m.stamp.content \in Nat /\ m.stamp.content <= content
      BY <1>3, <3>1 DEF Answer, Stamp
    <3> QED BY <1>4, <3>1, <3>2 DEF ServerOK
  <2>4. ClientOK'
    BY <1>4, <2>1, <2>3 DEF ClientOK
  <2>5. QueuesOK' /\ OpsOK' /\ OrderOK' /\ Grows
    BY <1>3, <1>4, <2>1, <2>2, OnlyTakenInv
  <2> QED BY <2>2, <2>4, <2>5 DEF IInv
<1>11. CASE ReceiveSubscribed(m)
  <2>1. /\ UNCHANGED <<toServer, ops, generation>> /\ UNCHANGED <<shown, shell, conflict, subId>>
        /\ UNCHANGED <<basis, reviewed, refusedAt>>
        /\ sub' \in {"none", "pending", "active"}
    BY <1>4, <1>11 DEF ReceiveSubscribed, PanelOK
  <2>2. PanelOK' /\ NothingOlder /\ UNCHANGED <<registry, statuses>>
    BY <1>4, <2>1, SameIsNotOlder DEF PanelOK, NothingOlder, shown, shell
  <2>3. ServerOK' /\ ClientOK'
    BY <1>4, <1>5, <2>1, <2>2 DEF ClientOK
  <2>4. QueuesOK' /\ OpsOK' /\ OrderOK' /\ Grows
    BY <1>3, <1>4, <2>1, <2>2, OnlyTakenInv
  <2> QED BY <2>2, <2>3, <2>4 DEF IInv
<1> QED BY <1>2, <1>6, <1>8, <1>9, <1>10, <1>11

-----------------------------------------------------------------------------
(***************************************************************************)
(* Theorems.                                                               *)
(***************************************************************************)

\* Every other step leaves what is shown alone.
LEMMA Quiet ==
  ASSUME IInv, UNCHANGED shown PROVE NothingOlder
BY SameIsNotOlder DEF IInv, NothingOlder, shown

\* Every step keeps the invariant and shows nothing older.
LEMMA StepInv == ASSUME IInv, [Next]_vars PROVE IInv' /\ NothingOlder
<1>1. CASE Serve
  BY <1>1, ServeInv, Quiet DEF Serve
<1>2. CASE Receive BY <1>2, ReceiveInv
<1>3. CASE PlacesArrive BY <1>3, PlacesArriveInv
<1>4. CASE OtherCommit BY <1>4, OtherCommitInv, Quiet DEF OtherCommit
<1>5. CASE Reload BY <1>5, ReloadInv, Quiet DEF Reload
<1>6. CASE FirstHass \/ Retry \/ Refresh \/ ReloadAfterConflict
  <2>1. PICK initial \in BOOLEAN : StartLoad(initial)
    BY <1>6 DEF FirstHass, Retry, Refresh, ReloadAfterConflict
  <2> QED BY <2>1, StartLoadInv, Quiet DEF StartLoad
<1>7. CASE EnsureSubscription \/ Disconnect \/ Connect
  BY <1>7, LinkInv, Quiet DEF EnsureSubscription, Disconnect, Connect
<1>8. CASE Mutate \/ MutateReviewed
  BY <1>8, MutateInv, Quiet DEF Mutate, MutateReviewed, Send
<1>9. CASE Preview BY <1>9, PreviewInv, Quiet DEF Preview
<1>10. CASE UNCHANGED vars
  <2>1. UNCHANGED <<server, toServer, toPanel, failures, basis, ops, generation, shown, shell,
                    conflict, refusedAt, link, reviewed>>
    BY <1>10 DEF vars
  <2>2. ServerOK' /\ PanelOK' /\ ClientOK'
    BY <2>1 DEF IInv, ServerOK, PanelOK, ClientOK, server, shown, shell, link
  <2>3. QueuesOK' /\ OpsOK'
    BY <2>1 DEF IInv, QueuesOK, RequestsOK, AnswersOK, Fits, OpsOK, server, link
  <2>4. OrderOK'
    BY <2>1 DEF IInv, OrderOK, Past, Covers, server, shown
  <2> QED BY <2>1, <2>2, <2>3, <2>4, Quiet DEF IInv
<1> QED BY <1>1, <1>2, <1>3, <1>4, <1>5, <1>6, <1>7, <1>8, <1>9, <1>10 DEF Next, Deliver

\* The invariant holds at first.
LEMMA InitInv == ASSUME Init PROVE IInv
<1>1. ServerOK /\ PanelOK /\ ClientOK
  <2>1. ServerOK BY PanelAssumption DEF Init, ServerOK
  <2>2. PanelOK BY DEF Init, PanelOK
  <2>3. ClientOK BY DEF Init, ClientOK
  <2> QED BY <2>1, <2>2, <2>3
<1>2. QueuesOK
  BY DEF Init, QueuesOK, RequestsOK, AnswersOK
<1>3. OpsOK /\ OrderOK
  BY DEF Init, OpsOK, OrderOK
<1> QED BY <1>1, <1>2, <1>3 DEF IInv

\* The invariant holds of every reachable state.
LEMMA Invariant == Spec => []IInv
<1>1. IInv /\ [Next]_vars => IInv' BY StepInv
<1> QED BY InitInv, <1>1, PTL DEF Spec

\* The state has the shapes the code gives it; in particular at most one load runs
\* (bindhome-panel.js, _load), and refreshes are told apart by their generation.
THEOREM TypeCorrect == Spec => []TypeOK
BY Invariant, IInvTypeOK, PTL

\* Refreshes overlap, are superseded, joined, and land late: none puts back a registry or
\* statuses older than those on show (bindhome-panel.js, _dataGeneration).
THEOREM DataGoesForward == Spec => DataNeverGoesBack
<1>1. IInv /\ [Next]_vars
        => [~Older(ContentOf(registry'), ContentOf(registry)) /\ ~Older(statuses', statuses)]_vars
  BY StepInv DEF NothingOlder
<1> QED BY <1>1, Invariant, PTL DEF Spec, DataNeverGoesBack

-----------------------------------------------------------------------------
(***************************************************************************)
(* A panel does not outdate itself.  Every commit of its own is in         *)
(* the client's basis or announced by a reply that is still to come, and   *)
(* the basis never passes over such a reply.  A mutation that was sent     *)
(* while no other one was under way therefore has all of them in its basis *)
(* until it is served.                                                     *)
(***************************************************************************)

Own == (1..content) \ foreign

\* The answers the client may take its basis from.
Timed(m) == m.type \in {"part", "reply"}

\* No own commit is missing in the basis of the mutation at i, nor can one be added.
Unrivalled(i) ==
  /\ toServer[i].based # None => /\ toServer[i].based.content <= content
                                 /\ \A c \in Own : c <= toServer[i].based.content
  /\ \A j \in DOMAIN toServer : j < i => toServer[j].type # "mutate"

TimesOK ==
  /\ \A i, j \in DOMAIN toPanel :
       i < j /\ Timed(toPanel[i]) /\ Timed(toPanel[j])
         => toPanel[i].stamp.content <= toPanel[j].stamp.content
  /\ basis # None => /\ basis.content <= content
                     /\ \A i \in DOMAIN toPanel :
                          Timed(toPanel[i]) => basis.content <= toPanel[i].stamp.content

Announced(c) ==
  \/ basis # None /\ c <= basis.content
  \/ \E i \in DOMAIN toPanel : toPanel[i].type = "reply" /\ toPanel[i].stamp.content = c

OwnOK ==
  /\ TimesOK
  /\ \A c \in Own : Announced(c)
  /\ \A i \in DOMAIN toServer :
       toServer[i].type = "mutate" /\ toServer[i].alone => Unrivalled(i)

\* Nothing is answered, and no mutation sent.
LEMMA OwnFrame ==
  ASSUME IInv, OwnOK, Grows, UNCHANGED <<content, foreign, basis, toPanel>>
  PROVE  OwnOK'
<1>1. TimesOK'
  BY DEF OwnOK, TimesOK
<1>2. \A c \in Own' : Announced(c)'
  BY DEF OwnOK, Own, Announced
<1>3. ASSUME NEW i \in DOMAIN toServer', toServer'[i].type = "mutate", toServer'[i].alone
      PROVE  Unrivalled(i)'
  <2>1. i \in DOMAIN toServer /\ toServer'[i] = toServer[i]
    BY <1>3 DEF Grows
  <2>2. Unrivalled(i)
    BY <1>3, <2>1 DEF OwnOK
  <2>3. \A j \in DOMAIN toServer' : j < i => toServer'[j].type # "mutate"
    BY <2>2 DEF Unrivalled, Grows
  <2> QED BY <2>1, <2>2, <2>3 DEF Unrivalled, Own
<1> QED BY <1>1, <1>2, <1>3 DEF OwnOK

\* A mutation is sent; it is alone if none is under way, and then the basis has all own commits.
LEMMA SendOwn ==
  ASSUME IInv, OwnOK, NEW based \in Stamp \cup {None}, NEW alone \in BOOLEAN,
         NEW follow, Send(based, alone, follow),
         alone => based = basis /\ Writing = {}
  PROVE  OwnOK'
<1> DEFINE m == [type |-> "mutate", based |-> based, alone |-> alone, follow |-> follow]
<1>1. toServer' = Append(toServer, m) /\ m.type = "mutate" /\ m.alone = alone /\ m.based = based
  BY DEF Send
<1>2. UNCHANGED <<content, foreign, basis, toPanel>>
  BY DEF Send, server
<1> HIDE DEF m
<1>3. TimesOK' /\ \A c \in Own' : Announced(c)'
  BY <1>2 DEF OwnOK, TimesOK, Own, Announced
<1>4. /\ toServer \in Seq(Request) /\ Len(toServer) \in Nat
      /\ DOMAIN toServer' = 1..(Len(toServer) + 1) /\ DOMAIN toServer = 1..Len(toServer)
      /\ \A j \in DOMAIN toServer : toServer'[j] = toServer[j]
      /\ toServer'[Len(toServer) + 1] = m
  BY <1>1 DEF IInv, QueuesOK, RequestsOK
<1>5. ASSUME NEW i \in DOMAIN toServer', toServer'[i].type = "mutate", toServer'[i].alone
      PROVE  Unrivalled(i)'
  <2>1. CASE i \in DOMAIN toServer
    <3>1. Unrivalled(i) /\ toServer'[i] = toServer[i]
      BY <1>4, <1>5, <2>1 DEF OwnOK
    <3>2. \A j \in DOMAIN toServer' : j < i => j \in DOMAIN toServer
      BY <1>4, <2>1
    <3> QED BY <1>2, <1>4, <3>1, <3>2 DEF Unrivalled, Own
  <2>2. CASE i = Len(toServer) + 1
    <3>1. alone /\ based = basis /\ Writing = {}
      BY <1>1, <1>4, <1>5, <2>2
    <3>2. /\ \A j \in DOMAIN toServer : toServer[j].type # "mutate"
          /\ \A j \in DOMAIN toPanel : toPanel[j].type # "reply"
      BY <3>1 DEF Writing
    <3>3. \A j \in DOMAIN toServer' : j < i => toServer'[j].type # "mutate"
      BY <1>4, <2>2, <3>2
    <3>4. toServer'[i].based = basis
      BY <1>1, <1>4, <2>2, <3>1
    <3>5. basis # None => basis.content <= content /\ \A c \in Own : c <= basis.content
      BY <3>2 DEF OwnOK, TimesOK, Announced
    <3> QED BY <1>2, <3>3, <3>4, <3>5 DEF Unrivalled, Own
  <2> QED BY <1>4, <2>1, <2>2
<1> QED BY <1>3, <1>5 DEF OwnOK

\* Somebody else's commit is not an own one.
LEMMA OtherCommitOwn == ASSUME IInv, OwnOK, OtherCommit PROVE OwnOK'
<1> DEFINE n == Notice(content' - base)
<1>1. /\ content \in Nat /\ content' = content + 1 /\ foreign' = foreign \cup {content'}
      /\ toPanel \in Seq(Answer) /\ toPanel' = toPanel \o n
      /\ UNCHANGED <<basis, toServer>>
  BY DEF IInv, ServerOK, QueuesOK, AnswersOK, OtherCommit
<1>2. n \in Seq(Answer) /\ \A k \in DOMAIN n : n[k].type = "event"
  <2>1. content' - base \in Nat /\ ServerOK /\ subId \in Nat
    BY <1>1 DEF IInv, ServerOK, PanelOK
  <2> QED BY <2>1, NoticeOK
<1> HIDE DEF n
<1>3. /\ \A k \in DOMAIN toPanel' : (k \in DOMAIN toPanel /\ toPanel'[k] = toPanel[k])
                                      \/ toPanel'[k].type = "event"
      /\ \A k \in DOMAIN toPanel : k \in DOMAIN toPanel' /\ toPanel'[k] = toPanel[k]
  BY <1>1, <1>2, Added
<1>4. Own' = Own
  BY <1>1 DEF Own
<1>5. TimesOK'
  <2>1. \A k \in DOMAIN toPanel' : Timed(toPanel'[k])
                                     => k \in DOMAIN toPanel /\ toPanel'[k] = toPanel[k]
    BY <1>3 DEF Timed
  <2>2. basis # None => basis.content \in Nat /\ basis.content <= content'
    BY <1>1 DEF OwnOK, TimesOK, IInv, ClientOK, Stamp
  <2> QED BY <1>1, <2>1, <2>2 DEF OwnOK, TimesOK
<1>6. \A c \in Own' : Announced(c)'
  BY <1>1, <1>3, <1>4 DEF OwnOK, Announced
<1>7. ASSUME NEW i \in DOMAIN toServer', toServer'[i].type = "mutate", toServer'[i].alone
      PROVE  Unrivalled(i)'
  <2>1. Unrivalled(i) /\ toServer[i] \in Request
    BY <1>1, <1>7 DEF OwnOK, IInv, QueuesOK, RequestsOK
  <2>2. toServer[i].based # None => toServer[i].based.content \in Nat
    BY <1>1, <1>7, <2>1 DEF Request, Stamp
  <2> QED BY <1>1, <1>4, <2>1, <2>2 DEF Unrivalled
<1> QED BY <1>5, <1>6, <1>7 DEF OwnOK

\* Answers are added that the basis is not taken from.
LEMMA UntimedOwn ==
  ASSUME IInv, OwnOK, NEW r \in Seq(Answer), \A k \in DOMAIN r : ~Timed(r[k]),
         toPanel' = toPanel \o r, UNCHANGED <<content, foreign, basis>>
  PROVE  TimesOK' /\ \A c \in Own' : Announced(c)'
<1>1. /\ \A k \in DOMAIN toPanel' : (k \in DOMAIN toPanel /\ toPanel'[k] = toPanel[k])
                                      \/ ~Timed(toPanel'[k])
      /\ \A k \in DOMAIN toPanel : k \in DOMAIN toPanel' /\ toPanel'[k] = toPanel[k]
  <2>1. toPanel \in Seq(Answer) BY DEF IInv, QueuesOK, AnswersOK
  <2>2. /\ \A k \in DOMAIN toPanel' : (k \in DOMAIN toPanel /\ toPanel'[k] = toPanel[k])
                                        \/ (\E n \in DOMAIN r : toPanel'[k] = r[n])
        /\ \A k \in DOMAIN toPanel : k \in DOMAIN toPanel' /\ toPanel'[k] = toPanel[k]
    BY <2>1, Added
  <2> QED BY <2>2 DEF Timed
<1>2. TimesOK'
  BY <1>1 DEF OwnOK, TimesOK
<1>3. \A c \in Own' : Announced(c)'
  BY <1>1 DEF OwnOK, Own, Announced
<1> QED BY <1>2, <1>3

\* An answer is added last that the basis may be taken from: it is as new as any can be.
LEMMA TimedOwn ==
  ASSUME IInv, OwnOK, NEW r \in Seq(Answer), \A k \in DOMAIN r : ~Timed(r[k]), NEW a \in Answer,
         Timed(a), a.stamp.content = content', toPanel' = toPanel \o Append(r, a),
         content' \in Nat, content <= content', UNCHANGED basis
  PROVE  /\ TimesOK'
         /\ \A k \in DOMAIN toPanel : k \in DOMAIN toPanel' /\ toPanel'[k] = toPanel[k]
         /\ \E k \in DOMAIN toPanel' : toPanel'[k] = a
<1>1. toPanel \in Seq(Answer) /\ content \in Nat
  BY DEF IInv, QueuesOK, AnswersOK, ServerOK
<1>2. toPanel \o r \in Seq(Answer) /\ toPanel' = Append(toPanel \o r, a)
  BY <1>1
<1> DEFINE q == toPanel \o r
<1>3. /\ \A k \in DOMAIN q : (k \in DOMAIN toPanel /\ q[k] = toPanel[k])
                               \/ (\E n \in DOMAIN r : q[k] = r[n])
      /\ \A k \in DOMAIN toPanel : k \in DOMAIN q /\ q[k] = toPanel[k]
  BY <1>1, Added
<1> HIDE DEF q
<1>4. q \in Seq(Answer) /\ toPanel' = Append(q, a)
  BY <1>2 DEF q
<1>5. /\ \A k \in DOMAIN toPanel' : (k \in DOMAIN q /\ toPanel'[k] = q[k])
                                      \/ (toPanel'[k] = a /\ \A n \in DOMAIN q : n < k)
      /\ \A k \in DOMAIN q : k \in DOMAIN toPanel' /\ toPanel'[k] = q[k]
      /\ \E k \in DOMAIN toPanel' : toPanel'[k] = a
      /\ DOMAIN toPanel' \subseteq Int
  <2>1. Len(q) + 1 \in DOMAIN toPanel' /\ toPanel'[Len(q) + 1] = a
    BY <1>4
  <2> QED BY <1>4, <2>1, Appended
<1>6. \A k \in DOMAIN toPanel' : Timed(toPanel'[k]) =>
        \/ k \in DOMAIN toPanel /\ toPanel'[k] = toPanel[k]
        \/ toPanel'[k] = a /\ \A n \in DOMAIN toPanel : n < k
  BY <1>3, <1>5
<1>7. \A k \in DOMAIN toPanel : Timed(toPanel[k]) => /\ toPanel[k].stamp.content \in Nat
                                                     /\ toPanel[k].stamp.content <= content
  BY <1>1 DEF Timed, Answer, Stamp, IInv, QueuesOK, AnswersOK
<1>8. TimesOK'
  <2>1. ASSUME NEW i \in DOMAIN toPanel', NEW j \in DOMAIN toPanel', i < j,
               Timed(toPanel'[i]), Timed(toPanel'[j])
        PROVE  toPanel'[i].stamp.content <= toPanel'[j].stamp.content
    <3>1. CASE j \in DOMAIN toPanel /\ toPanel'[j] = toPanel[j]
      <4>1. i \in DOMAIN toPanel /\ toPanel'[i] = toPanel[i]
        BY <1>5, <1>6, <2>1, <3>1
      <4> QED BY <2>1, <3>1, <4>1 DEF OwnOK, TimesOK
    <3>2. CASE toPanel'[j] = a
      <4>1. toPanel'[i].stamp.content = content'
              \/ (toPanel'[i].stamp.content \in Nat /\ toPanel'[i].stamp.content <= content)
        BY <1>6, <1>7, <2>1
      <4>2. toPanel'[j].stamp.content = content'
        BY <3>2
      <4>3. \A x, y, z \in Nat : x <= y /\ y <= z => x <= z
        OBVIOUS
      <4>4. toPanel'[i].stamp.content <= content'
        BY <1>1, <4>1, <4>3
      <4> QED BY <4>2, <4>4
    <3> QED BY <1>6, <2>1, <3>1, <3>2
  <2>2. basis # None => basis.content \in Nat /\ basis.content <= content
    BY DEF OwnOK, TimesOK, IInv, ClientOK, Stamp
  <2>3. \A i \in DOMAIN toPanel' : basis # None /\ Timed(toPanel'[i])
                                     => basis.content <= toPanel'[i].stamp.content
    BY <1>1, <1>6, <2>2 DEF OwnOK, TimesOK
  <2>4. basis' # None => basis'.content <= content'
    <3>1. \A x, y, z \in Nat : x <= y /\ y <= z => x <= z
      OBVIOUS
    <3> QED BY <1>1, <2>2, <3>1
  <2> QED BY <2>1, <2>3, <2>4 DEF TimesOK
<1> QED BY <1>3, <1>5, <1>8

\* The server's step.
LEMMA ServeOwn == ASSUME IInv, OwnOK, Serve PROVE OwnOK'
<1>1. PICK m : m = Head(toServer)
  OBVIOUS
<1>2. /\ toServer \in Seq(Request) /\ toServer # <<>> /\ toServer' = Tail(toServer)
      /\ UNCHANGED basis /\ content \in Nat /\ toPanel \in Seq(Answer)
      /\ ServerOK /\ subId \in Nat
      /\ ServeRead(m) \/ ServeMutation(m) \/ ServeSubscribe(m)
  BY <1>1 DEF IInv, QueuesOK, RequestsOK, AnswersOK, ServerOK, PanelOK, Serve
<1>3. /\ m \in Request /\ m = toServer[1] /\ 1 \in DOMAIN toServer
      /\ \A n \in DOMAIN toServer' :
           n \in Nat /\ n + 1 \in DOMAIN toServer /\ 1 < n + 1 /\ toServer'[n] = toServer[n + 1]
  BY <1>1, <1>2, Taken
<1>4. ASSUME NEW i \in DOMAIN toServer', toServer'[i].type = "mutate", toServer'[i].alone
      PROVE  Unrivalled(i + 1) /\ m.type # "mutate"
  BY <1>3, <1>4 DEF OwnOK, Unrivalled
<1>5. ASSUME UNCHANGED <<content, foreign>>,
             NEW i \in DOMAIN toServer', toServer'[i].type = "mutate", toServer'[i].alone
      PROVE  Unrivalled(i)'
  <2>1. Unrivalled(i + 1) /\ toServer'[i] = toServer[i + 1]
    BY <1>3, <1>4, <1>5
  <2>2. \A j \in DOMAIN toServer' : j < i => toServer'[j].type # "mutate"
    BY <1>3, <2>1 DEF Unrivalled
  <2> QED BY <1>5, <2>1, <2>2 DEF Unrivalled, Own
<1>6. CASE ServeRead(m)
  <2>1. PICK ok \in BOOLEAN :
          toPanel' = Append(toPanel, [type |-> "part", gen |-> m.gen, part |-> m.part,
                                      stamp |-> Current, ok |-> ok])
    BY <1>6 DEF ServeRead
  <2> DEFINE a == [type |-> "part", gen |-> m.gen, part |-> m.part, stamp |-> Current, ok |-> ok]
  <2>2. UNCHANGED <<content, foreign>>
    BY <1>6 DEF ServeRead, server
  <2>3. a \in Answer /\ Timed(a) /\ a.stamp.content = content'
    BY <1>2, <1>3, <1>6, <2>2, CurrentOK DEF ServeRead, Request, Answer, Timed
  <2>4. toPanel' = Append(toPanel, a)
    BY <2>1
  <2> HIDE DEF a
  <2>5. /\ toPanel' = toPanel \o Append(<<>>, a) /\ <<>> \in Seq(Answer)
        /\ \A k \in DOMAIN <<>> : ~Timed(<<>>[k])
    BY <1>2, <2>3, <2>4
  <2>6. content' \in Nat /\ content <= content'
    BY <1>2, <2>2
  <2>7. /\ TimesOK'
        /\ \A k \in DOMAIN toPanel : k \in DOMAIN toPanel' /\ toPanel'[k] = toPanel[k]
    BY <1>2, <2>3, <2>5, <2>6, TimedOwn
  <2>8. \A c \in Own' : Announced(c)'
    BY <1>2, <2>2, <2>7 DEF OwnOK, Own, Announced
  <2> QED BY <1>5, <2>2, <2>7, <2>8 DEF OwnOK
<1>7. CASE ServeMutation(m) /\ UNCHANGED content
  <2>1. UNCHANGED <<content, foreign>>
    BY <1>7 DEF ServeMutation
  <2>2. PICK r \in Seq(Answer) : toPanel' = toPanel \o r /\ \A k \in DOMAIN r : ~Timed(r[k])
    <3>1. CASE UNCHANGED toPanel
      <4>1. toPanel' = toPanel \o <<>> /\ <<>> \in Seq(Answer) /\ DOMAIN <<>> = {}
        BY <1>2, <3>1
      <4> QED BY <4>1
    <3>2. CASE toPanel' = Append(toPanel, [type |-> "refusal", stamp |-> Current])
      <4> DEFINE a == [type |-> "refusal", stamp |-> Current]
      <4>1. a \in Answer /\ ~Timed(a)
        BY <1>2, CurrentOK DEF Answer, Timed
      <4>2. toPanel' = Append(toPanel, a)
        BY <3>2
      <4> HIDE DEF a
      <4>3. toPanel' = toPanel \o <<a>> /\ <<a>> \in Seq(Answer)
        BY <1>2, <4>1, <4>2
      <4>4. \A k \in DOMAIN <<a>> : ~Timed(<<a>>[k])
        BY <4>1
      <4> QED BY <4>3, <4>4
    <3>3. UNCHANGED toPanel \/ toPanel' = Append(toPanel, [type |-> "refusal", stamp |-> Current])
      BY <1>2, <1>7 DEF ServeMutation
    <3> QED BY <3>1, <3>2, <3>3
  <2>3. TimesOK' /\ \A c \in Own' : Announced(c)'
    BY <1>2, <2>1, <2>2, UntimedOwn
  <2> QED BY <1>5, <2>1, <2>3 DEF OwnOK
<1>8. CASE ServeMutation(m) /\ content' # content
  <2> DEFINE a == [type |-> "reply", follow |-> m.follow,
                   stamp |-> [content |-> content', revision |-> content' - base]]
             n == Notice(content' - base)
  <2>1. /\ content' = content + 1 /\ toPanel' = toPanel \o Append(n, a) /\ UNCHANGED foreign
        /\ m.type = "mutate"
    BY <1>8 DEF ServeMutation
  <2>2. content' \in Nat /\ content' - base \in Nat /\ content <= content'
    BY <1>2, <2>1 DEF ServerOK
  <2>3. a \in Answer /\ Timed(a) /\ a.stamp.content = content' /\ a.type = "reply"
    BY <1>3, <2>1, <2>2 DEF Request, Answer, Timed, Stamp
  <2>4. n \in Seq(Answer) /\ \A k \in DOMAIN n : n[k].type = "event"
    BY <1>2, <2>2, NoticeOK
  <2> HIDE DEF a, n
  <2>5. \A k \in DOMAIN n : ~Timed(n[k])
    BY <2>4 DEF Timed
  <2>6. /\ TimesOK'
        /\ \A k \in DOMAIN toPanel : k \in DOMAIN toPanel' /\ toPanel'[k] = toPanel[k]
        /\ \E k \in DOMAIN toPanel' : toPanel'[k] = a
    BY <1>2, <2>1, <2>2, <2>3, <2>4, <2>5, TimedOwn
  <2>7. ASSUME NEW c \in Own' PROVE Announced(c)'
    <3>1. c \in Own \/ c = content'
      BY <1>2, <2>1 DEF Own
    <3>2. CASE c \in Own
      BY <1>2, <2>6, <3>2 DEF OwnOK, Announced
    <3>3. CASE c = content'
      BY <2>3, <2>6, <3>3 DEF Announced
    <3> QED BY <3>1, <3>2, <3>3
  <2>8. \A i \in DOMAIN toServer' : ~(toServer'[i].type = "mutate" /\ toServer'[i].alone)
    BY <1>4, <2>1
  <2> QED BY <2>6, <2>7, <2>8 DEF OwnOK
<1>9. CASE ServeSubscribe(m)
  <2>1. PICK ok \in BOOLEAN :
          toPanel' = Append(toPanel, [type |-> "subscribed", sub |-> m.sub, ok |-> ok])
    BY <1>9 DEF ServeSubscribe
  <2> DEFINE a == [type |-> "subscribed", sub |-> m.sub, ok |-> ok]
  <2>2. a \in Answer /\ ~Timed(a)
    BY <1>3, <1>9 DEF ServeSubscribe, Request, Answer, Timed
  <2>3. toPanel' = Append(toPanel, a) /\ UNCHANGED <<content, foreign>>
    BY <1>9, <2>1 DEF ServeSubscribe
  <2> HIDE DEF a
  <2>4. toPanel' = toPanel \o <<a>> /\ <<a>> \in Seq(Answer)
    BY <1>2, <2>2, <2>3
  <2>5. \A k \in DOMAIN <<a>> : ~Timed(<<a>>[k])
    BY <2>2
  <2>6. TimesOK' /\ \A c \in Own' : Announced(c)'
    BY <1>2, <2>3, <2>4, <2>5, UntimedOwn
  <2> QED BY <1>5, <2>3, <2>6 DEF OwnOK
<1> QED BY <1>2, <1>6, <1>7, <1>8, <1>9

\* The client takes an answer, and perhaps its basis from it.
LEMMA ReceiveOwn == ASSUME IInv, OwnOK, Receive PROVE OwnOK'
<1>1. PICK m : m = Head(toPanel)
  OBVIOUS
<1>2. /\ toPanel # <<>> /\ toPanel' = Tail(toPanel) /\ UNCHANGED <<content, foreign>>
      /\ toPanel \in Seq(Answer)
      /\ ReceivePart(m) \/ ReceiveEvent(m) \/ ReceiveReply(m) \/ ReceiveRefusal(m)
           \/ ReceiveSubscribed(m)
  BY <1>1 DEF Receive, server, IInv, QueuesOK, AnswersOK
<1>3. /\ m \in Answer /\ m = toPanel[1] /\ 1 \in DOMAIN toPanel
      /\ \A n \in DOMAIN toPanel' :
           n \in Nat /\ n + 1 \in DOMAIN toPanel /\ 1 < n + 1 /\ toPanel'[n] = toPanel[n + 1]
  BY <1>1, <1>2, Taken
<1>4. \A k \in DOMAIN toPanel : k = 1 \/ (k - 1 \in DOMAIN toPanel' /\ toPanel'[k - 1] = toPanel[k])
  BY <1>2
<1>5. (basis' = basis /\ m.type # "reply") \/ (basis' = m.stamp /\ Timed(m))
  <2>1. CASE ReceivePart(m)
    <3>1. m.type = "part" /\ (basis' = basis \/ basis' = m.stamp)
      BY <2>1 DEF ReceivePart, AcceptRevision
    <3> QED BY <3>1 DEF Timed
  <2>2. CASE ReceiveReply(m)
    BY <2>2 DEF ReceiveReply, AcceptRevision, Timed
  <2>3. CASE ReceiveEvent(m) \/ ReceiveRefusal(m) \/ ReceiveSubscribed(m)
    BY <2>3 DEF ReceiveEvent, ReceiveRefusal, ReceiveSubscribed
  <2> QED BY <1>2, <2>1, <2>2, <2>3
<1>6. Timed(m) => /\ m.stamp \in Stamp /\ m.stamp.content <= content
                  /\ basis # None => basis.content <= m.stamp.content
  BY <1>3 DEF Timed, Answer, IInv, QueuesOK, AnswersOK, OwnOK, TimesOK
<1>7. None \notin Stamp
  BY PanelAssumption DEF Stamp
<1>8. TimesOK'
  <2>1. ASSUME NEW i \in DOMAIN toPanel', NEW j \in DOMAIN toPanel', i < j,
               Timed(toPanel'[i]), Timed(toPanel'[j])
        PROVE  toPanel'[i].stamp.content <= toPanel'[j].stamp.content
    <3>1. /\ i + 1 \in DOMAIN toPanel /\ toPanel'[i] = toPanel[i + 1]
          /\ j + 1 \in DOMAIN toPanel /\ toPanel'[j] = toPanel[j + 1] /\ i + 1 < j + 1
      BY <1>3, <2>1
    <3> QED BY <2>1, <3>1 DEF OwnOK, TimesOK
  <2>2. CASE basis' = basis
    BY <1>2, <1>3, <2>1, <2>2 DEF OwnOK, TimesOK
  <2>3. CASE basis' = m.stamp /\ Timed(m)
    <3>1. \A i \in DOMAIN toPanel' :
            Timed(toPanel'[i]) => m.stamp.content <= toPanel'[i].stamp.content
      BY <1>3, <2>3 DEF OwnOK, TimesOK
    <3> QED BY <1>2, <1>6, <2>1, <2>3, <3>1 DEF TimesOK
  <2> QED BY <1>5, <2>2, <2>3
<1>9. ASSUME NEW c \in Own' PROVE Announced(c)'
  <2>1. Announced(c) /\ c \in Int
    BY <1>2 DEF OwnOK, Own
  <2>2. CASE basis # None /\ c <= basis.content
    <3>1. CASE basis' = basis
      BY <2>2, <3>1 DEF Announced
    <3>2. CASE basis' = m.stamp /\ Timed(m)
      <4>1. /\ basis.content \in Int /\ m.stamp.content \in Int /\ m.stamp # None
            /\ basis.content <= m.stamp.content
        BY <1>6, <1>7, <2>2, <3>2 DEF IInv, ClientOK, Stamp
      <4>2. c <= m.stamp.content
        BY <2>1, <2>2, <4>1
      <4> QED BY <3>2, <4>1, <4>2 DEF Announced
    <3> QED BY <1>5, <3>1, <3>2
  <2>3. ASSUME NEW k \in DOMAIN toPanel, toPanel[k].type = "reply", toPanel[k].stamp.content = c
        PROVE  Announced(c)'
    <3>1. CASE k = 1
      <4>1. basis' = m.stamp /\ m.stamp.content = c /\ m.stamp # None
        BY <1>3, <1>5, <1>6, <1>7, <2>3, <3>1
      <4> QED BY <2>1, <4>1 DEF Announced
    <3>2. CASE k # 1
      BY <1>4, <2>3, <3>2 DEF Announced
    <3> QED BY <3>1, <3>2
  <2> QED BY <2>1, <2>2, <2>3 DEF Announced
<1>10. ASSUME NEW i \in DOMAIN toServer', toServer'[i].type = "mutate", toServer'[i].alone
       PROVE  Unrivalled(i)'
  <2>1. Grows
    BY ReceiveInv
  <2>2. i \in DOMAIN toServer /\ toServer'[i] = toServer[i]
    BY <1>10, <2>1 DEF Grows
  <2>3. Unrivalled(i)
    BY <1>10, <2>2 DEF OwnOK
  <2>4. \A j \in DOMAIN toServer' : j < i => toServer'[j].type # "mutate"
    BY <2>1, <2>3 DEF Unrivalled, Grows
  <2> QED BY <1>2, <2>2, <2>3, <2>4 DEF Unrivalled, Own
<1> QED BY <1>8, <1>9, <1>10 DEF OwnOK

\* Every step preserves it.
LEMMA OwnStep == ASSUME IInv, OwnOK, [Next]_vars PROVE OwnOK'
<1>1. ASSUME UNCHANGED vars PROVE OwnOK'
  BY <1>1, OwnFrame DEF vars, server, Grows
<1>2. CASE PlacesArrive
  <2>1. Grows /\ UNCHANGED <<content, foreign, basis, toPanel>>
    BY <1>2, PlacesArriveInv DEF PlacesArrive, server
  <2> QED BY <2>1, OwnFrame
<1>3. CASE Reload
  BY <1>3, OwnFrame DEF Reload, Grows
<1>4. ASSUME NEW initial \in BOOLEAN, StartLoad(initial) PROVE OwnOK'
  <2>1. Grows /\ UNCHANGED <<content, foreign, basis, toPanel>>
    BY <1>4, StartLoadInv DEF StartLoad, server
  <2> QED BY <2>1, OwnFrame
<1>5. CASE EnsureSubscription \/ Disconnect \/ Connect
  <2>1. Grows /\ UNCHANGED <<content, foreign, basis, toPanel>>
    BY <1>5, LinkInv DEF EnsureSubscription, Disconnect, Connect, server
  <2> QED BY <2>1, OwnFrame
<1>6. CASE Preview
  <2>1. Grows /\ UNCHANGED <<content, foreign, basis, toPanel>>
    BY <1>6, PreviewInv DEF Preview, server
  <2> QED BY <2>1, OwnFrame
<1>7. CASE Mutate
  <2>1. PICK follow \in Follow :
          Send(basis, Writing = {}, follow)
    BY <1>7 DEF Mutate
  <2>2. basis \in Stamp \cup {None} /\ (Writing = {}) \in BOOLEAN
    BY DEF IInv, ClientOK
  <2> DEFINE alone == Writing = {}
  <2>3. Send(basis, alone, follow) /\ (alone => Writing = {}) /\ alone \in BOOLEAN
    BY <2>1
  <2> HIDE DEF alone
  <2> QED BY <2>2, <2>3, SendOwn
<1>8. CASE MutateReviewed
  <2>1. PICK follow \in Follow : Send(reviewed, FALSE, follow)
    BY <1>8 DEF MutateReviewed
  <2>2. reviewed \in Stamp \cup {None} /\ FALSE \in BOOLEAN
    BY DEF IInv, ClientOK
  <2> QED BY <2>1, <2>2, SendOwn
<1>9. CASE FirstHass \/ Retry \/ Refresh \/ ReloadAfterConflict
  BY <1>4, <1>9 DEF FirstHass, Retry, Refresh, ReloadAfterConflict
<1> QED BY <1>1, <1>2, <1>3, <1>5, <1>6, <1>7, <1>8, <1>9, ServeOwn, ReceiveOwn, OtherCommitOwn
        DEF Next, Deliver

\* If the only mutation under way states a revision that is not the manager's, somebody else
\* has committed since its basis, or the manager is another one; a refusal of a current
\* revision, by the registry, is no part of this (bindhome-api.js, mutate and acceptRevision).
THEOREM NoOwnConflict == Spec => []NoSelfConflict
<1>1. Init => OwnOK
  BY DEF Init, OwnOK, TimesOK, Own
<1>2. IInv /\ OwnOK => NoSelfConflict
  <2>1. SUFFICES ASSUME IInv, OwnOK, NEW i \in DOMAIN toServer, Arriving(toServer[i]),
                        toServer[i].alone, ~Accepts(toServer[i]),
                        toServer[i].based.content - toServer[i].based.revision = base
                 PROVE  \E c \in foreign : toServer[i].based.content < c
    BY DEF NoSelfConflict
  <2> DEFINE m == toServer[1]
  <2>2. /\ toServer \in Seq(Request) /\ toServer # <<>>
        /\ content \in Nat /\ base \in 0..content /\ foreign \subseteq 1..content
    BY <2>1 DEF IInv, QueuesOK, RequestsOK, Arriving, ServerOK
  <2>3. m = toServer[i] /\ m.type = "mutate" /\ 1 \in DOMAIN toServer /\ m \in Request
    BY <2>1, <2>2 DEF Arriving
  <2>4. Unrivalled(1) /\ m.based # None /\ m.based.revision # content - base
        /\ m.based.content - m.based.revision = base
    BY <2>1, <2>3 DEF OwnOK, Accepts
  <2>5. m.based \in Stamp
    BY <2>3, <2>4 DEF Request
  <2>6. m.based.content < content
    BY <2>2, <2>4, <2>5 DEF Stamp, Unrivalled
  <2>7. content \notin Own
    BY <2>2, <2>4, <2>5, <2>6 DEF Stamp, Unrivalled
  <2>8. content \in foreign
    BY <2>2, <2>5, <2>6, <2>7 DEF Own, Stamp
  <2> QED BY <2>3, <2>6, <2>8
<1>3. IInv /\ OwnOK /\ [Next]_vars => OwnOK'
  BY OwnStep
<1> QED BY <1>1, <1>2, <1>3, Invariant, PTL DEF Spec

-----------------------------------------------------------------------------
(***************************************************************************)
(* The list of assets, and withdrawn conflicts.  The list has a path of    *)
(* its own past the generations, and a conflict is withdrawn by a load     *)
(* that may have begun before the refusal: what saves both is the order    *)
(* of the answers and the notices between them.  Refreshes take turns on   *)
(* the socket (Turns); a part that a commit has outdated is followed by a  *)
(* notice of that commit (Notices), which begins a refresh that supersedes *)
(* the one the part belongs to before anything newer arrives.              *)
(*                                                                         *)
(* First, queues of requests and answers: what stays of their order when   *)
(* one is added or taken.                                                  *)
(***************************************************************************)

\* A queue, longer by others at its end.
LEMMA Pushed ==
  ASSUME NEW S, NEW q \in Seq(S), NEW s \in Seq(S)
  PROVE  /\ Len(q) \in Nat /\ Len(s) \in Nat /\ DOMAIN q = 1..Len(q) /\ DOMAIN s = 1..Len(s)
         /\ q \o s \in Seq(S) /\ DOMAIN (q \o s) = 1..(Len(q) + Len(s))
         /\ \A n \in 1..Len(q) : (q \o s)[n] = q[n]
         /\ \A n \in 1..(Len(q) + Len(s)) : n > Len(q) => (q \o s)[n] = s[n - Len(q)]
OBVIOUS

\* A queue, shorter by the first.
LEMMA Popped ==
  ASSUME NEW S, NEW q \in Seq(S), q # <<>>
  PROVE  /\ Len(q) \in Nat /\ Len(q) >= 1 /\ DOMAIN q = 1..Len(q)
         /\ Head(q) = q[1] /\ q[1] \in S
         /\ Tail(q) \in Seq(S) /\ DOMAIN Tail(q) = 1..(Len(q) - 1)
         /\ \A n \in 1..(Len(q) - 1) : Tail(q)[n] = q[n + 1]
OBVIOUS

\* The answer m has part p of refresh g.
Brings(m, g, p) == m.type = "part" /\ m.gen = g /\ m.part = p

\* Of requests q and answers r, the next after the nth answer that is no notice has the
\* statuses of refresh g.
StatusesNext(q, r, n, g) ==
  \/ \E j \in DOMAIN r :
       /\ n < j /\ Brings(r[j], g, "statuses")
       /\ \A k \in DOMAIN r : n < k /\ k < j => r[k].type = "event"
  \/ /\ \A k \in DOMAIN r : n < k => r[k].type = "event"
     /\ q # <<>> /\ q[1] = Read(g, "statuses")

\* The two reads of a refresh by notice are together: nothing but notices comes between.
Paired(q, r, e) ==
  /\ \A i \in DOMAIN q : q[i] = Read(e.gen, "registry") =>
       i + 1 \in DOMAIN q /\ q[i + 1] = Read(e.gen, "statuses")
  /\ \A i \in DOMAIN r : Brings(r[i], e.gen, "registry") => StatusesNext(q, r, i, e.gen)
  /\ "registry" \in DOMAIN e.got => StatusesNext(q, r, 0, e.gen)
  /\ "registry" \notin DOMAIN e.got =>
       \/ \E i \in DOMAIN q : q[i] = Read(e.gen, "registry")
       \/ \E i \in DOMAIN r : Brings(r[i], e.gen, "registry")

LEMMA ReadIsRead ==
  ASSUME NEW g, NEW p
  PROVE  Read(g, p).type = "read" /\ Read(g, p).gen = g /\ Read(g, p).part = p
BY DEF Read

\* Notices may be added.
LEMMA PairedNotice ==
  ASSUME NEW q \in Seq(Request), NEW r \in Seq(Answer), NEW e, Paired(q, r, e),
         NEW s \in Seq(Answer), \A k \in DOMAIN s : s[k].type = "event"
  PROVE  Paired(q, r \o s, e)
<1> DEFINE t == r \o s
<1>1. /\ Len(r) \in Nat /\ Len(s) \in Nat /\ DOMAIN r = 1..Len(r) /\ DOMAIN s = 1..Len(s)
      /\ DOMAIN t = 1..(Len(r) + Len(s))
      /\ \A n \in 1..Len(r) : t[n] = r[n]
      /\ \A n \in 1..(Len(r) + Len(s)) : n > Len(r) => t[n] = s[n - Len(r)]
  BY Pushed
<1> HIDE DEF t
<1>2. \A n \in DOMAIN t : n \notin DOMAIN r => t[n].type = "event"
  <2> SUFFICES ASSUME NEW n \in DOMAIN t, n \notin DOMAIN r PROVE t[n].type = "event"
    OBVIOUS
  <2>1. n > Len(r) /\ n - Len(r) \in DOMAIN s
    BY <1>1
  <2> QED BY <1>1, <2>1
<1>3. \A n \in Nat : \A g : StatusesNext(q, r, n, g) => StatusesNext(q, t, n, g)
  <2> SUFFICES ASSUME NEW n \in Nat, NEW g, StatusesNext(q, r, n, g) PROVE StatusesNext(q, t, n, g)
    OBVIOUS
  <2>1. CASE \E j \in DOMAIN r :
               /\ n < j /\ Brings(r[j], g, "statuses")
               /\ \A k \in DOMAIN r : n < k /\ k < j => r[k].type = "event"
    BY <1>1, <2>1 DEF StatusesNext
  <2>2. CASE /\ \A k \in DOMAIN r : n < k => r[k].type = "event"
             /\ q # <<>> /\ q[1] = Read(g, "statuses")
    BY <1>1, <1>2, <2>2 DEF StatusesNext
  <2> QED BY <2>1, <2>2 DEF StatusesNext
<1>4. \A i \in DOMAIN t : Brings(t[i], e.gen, "registry")
                            => i \in DOMAIN r /\ i \in Nat /\ Brings(r[i], e.gen, "registry")
  BY <1>1, <1>2 DEF Brings
<1>5. \A i \in DOMAIN r : Brings(r[i], e.gen, "registry")
                            => i \in DOMAIN t /\ Brings(t[i], e.gen, "registry")
  BY <1>1
<1>6. Paired(q, t, e)
  BY <1>3, <1>4, <1>5 DEF Paired
<1> QED BY <1>6 DEF t

\* A read is answered.
LEMMA PairedRead ==
  ASSUME NEW q \in Seq(Request), NEW r \in Seq(Answer), NEW e, Paired(q, r, e),
         q # <<>>, Head(q).type = "read",
         NEW m \in Answer, m.type = "part", m.gen = Head(q).gen, m.part = Head(q).part
  PROVE  Paired(Tail(q), Append(r, m), e)
<1> DEFINE t == Append(r, m)
           p == Tail(q)
<1>1. /\ Len(r) \in Nat /\ DOMAIN r = 1..Len(r) /\ DOMAIN t = 1..(Len(r) + 1)
      /\ t[Len(r) + 1] = m /\ \A n \in 1..Len(r) : t[n] = r[n]
  OBVIOUS
<1>2. /\ Len(q) \in Nat /\ Len(q) >= 1 /\ DOMAIN q = 1..Len(q) /\ q[1] \in Request
      /\ Head(q) = q[1] /\ DOMAIN p = 1..(Len(q) - 1) /\ \A n \in 1..(Len(q) - 1) : p[n] = q[n + 1]
      /\ p \in Seq(Request)
  BY Popped
<1> HIDE DEF t, p
<1>3. \A g, x : q[1] = Read(g, x) => Brings(m, g, x)
  BY <1>2, ReadIsRead DEF Brings
<1>4. ASSUME NEW x, Brings(m, e.gen, x) PROVE q[1] = Read(e.gen, x)
  <2>1. q[1].type = "read" /\ q[1] \in Request BY <1>2
  <2>2. q[1].gen = e.gen /\ q[1].part = x BY <1>2, <1>4 DEF Brings
  <2>3. q[1] = [type |-> "read", gen |-> q[1].gen, part |-> q[1].part]
    BY <2>1 DEF Request
  <2> QED BY <2>2, <2>3 DEF Read
<1>5. \A n \in Nat : StatusesNext(q, r, n, e.gen) /\ n <= Len(r) => StatusesNext(p, t, n, e.gen)
  <2> SUFFICES ASSUME NEW n \in Nat, n <= Len(r), StatusesNext(q, r, n, e.gen)
               PROVE  StatusesNext(p, t, n, e.gen)
    OBVIOUS
  <2>1. CASE \E j \in DOMAIN r :
               /\ n < j /\ Brings(r[j], e.gen, "statuses")
               /\ \A k \in DOMAIN r : n < k /\ k < j => r[k].type = "event"
    <3>1. PICK j \in DOMAIN r :
               /\ n < j /\ Brings(r[j], e.gen, "statuses")
               /\ \A k \in DOMAIN r : n < k /\ k < j => r[k].type = "event"
      BY <2>1
    <3>2. j \in DOMAIN t /\ t[j] = r[j] BY <1>1
    <3>3. \A k \in DOMAIN t : n < k /\ k < j => t[k].type = "event" BY <1>1, <3>1
    <3> QED BY <3>1, <3>2, <3>3 DEF StatusesNext
  <2>2. CASE /\ \A k \in DOMAIN r : n < k => r[k].type = "event"
             /\ q # <<>> /\ q[1] = Read(e.gen, "statuses")
    <3>1. Brings(t[Len(r) + 1], e.gen, "statuses") BY <1>1, <1>3, <2>2
    <3>2. \A k \in DOMAIN t : n < k /\ k < Len(r) + 1 => t[k].type = "event" BY <1>1, <2>2
    <3>3. n < Len(r) + 1 /\ Len(r) + 1 \in DOMAIN t BY <1>1
    <3> QED BY <3>1, <3>2, <3>3 DEF StatusesNext
  <2> QED BY <2>1, <2>2 DEF StatusesNext
<1>6. ASSUME NEW i \in DOMAIN p, p[i] = Read(e.gen, "registry")
      PROVE  i + 1 \in DOMAIN p /\ p[i + 1] = Read(e.gen, "statuses")
  <2>1. i \in Nat /\ i + 1 \in DOMAIN q /\ q[i + 1] = Read(e.gen, "registry") BY <1>2, <1>6
  <2>2. i + 2 \in DOMAIN q /\ q[i + 2] = Read(e.gen, "statuses")
    <3>1. (i + 1) + 1 \in DOMAIN q /\ q[(i + 1) + 1] = Read(e.gen, "statuses")
      BY <2>1 DEF Paired
    <3> QED BY <2>1, <3>1
  <2> QED BY <1>2, <2>1, <2>2
<1>7. ASSUME NEW i \in DOMAIN t, Brings(t[i], e.gen, "registry")
      PROVE  StatusesNext(p, t, i, e.gen)
  <2>1. CASE i \in DOMAIN r
    <3>1. Brings(r[i], e.gen, "registry") BY <1>1, <1>7, <2>1
    <3>2. StatusesNext(q, r, i, e.gen) BY <2>1, <3>1 DEF Paired
    <3> QED BY <1>1, <1>5, <2>1, <3>2
  <2>2. CASE i \notin DOMAIN r
    <3>1. i = Len(r) + 1 /\ t[i] = m BY <1>1, <2>2
    <3>2. q[1] = Read(e.gen, "registry") BY <1>4, <1>7, <3>1
    <3>3. 1 \in DOMAIN q /\ 1 + 1 \in DOMAIN q /\ q[1 + 1] = Read(e.gen, "statuses")
      <4>1. 1 \in DOMAIN q BY <1>2
      <4> QED BY <3>2, <4>1 DEF Paired
    <3>4. 1 \in DOMAIN p /\ p[1] = Read(e.gen, "statuses") BY <1>2, <3>3
    <3>5. p # <<>> BY <3>4
    <3>6. \A k \in DOMAIN t : ~(i < k) BY <1>1, <3>1
    <3> QED BY <3>4, <3>5, <3>6 DEF StatusesNext
  <2> QED BY <2>1, <2>2
<1>8. "registry" \in DOMAIN e.got => StatusesNext(p, t, 0, e.gen)
  BY <1>1, <1>5 DEF Paired
<1>9. ASSUME "registry" \notin DOMAIN e.got
      PROVE  \/ \E i \in DOMAIN p : p[i] = Read(e.gen, "registry")
             \/ \E i \in DOMAIN t : Brings(t[i], e.gen, "registry")
  <2>1. CASE \E i \in DOMAIN q : q[i] = Read(e.gen, "registry")
    <3>1. PICK i \in DOMAIN q : q[i] = Read(e.gen, "registry") BY <2>1
    <3>2. CASE i = 1
      BY <1>1, <1>3, <3>1, <3>2
    <3>3. CASE i # 1
      <4>1. i - 1 \in DOMAIN p /\ p[i - 1] = q[i] BY <1>2, <3>3
      <4> QED BY <3>1, <4>1
    <3> QED BY <3>2, <3>3
  <2>2. CASE \E i \in DOMAIN r : Brings(r[i], e.gen, "registry")
    BY <1>1, <2>2
  <2> QED BY <1>9, <2>1, <2>2 DEF Paired
<1>10. Paired(p, t, e)
  BY <1>6, <1>7, <1>8, <1>9 DEF Paired
<1> QED BY <1>10 DEF p, t

\* Another request is answered, with no part.
LEMMA PairedOther ==
  ASSUME NEW q \in Seq(Request), NEW r \in Seq(Answer), NEW e, Paired(q, r, e),
         q # <<>>, Head(q).type # "read",
         NEW s \in Seq(Answer), \A k \in DOMAIN s : s[k].type # "part"
  PROVE  Paired(Tail(q), r \o s, e)
<1> DEFINE t == r \o s
           p == Tail(q)
<1>1. /\ Len(r) \in Nat /\ Len(s) \in Nat /\ DOMAIN r = 1..Len(r) /\ DOMAIN s = 1..Len(s)
      /\ DOMAIN t = 1..(Len(r) + Len(s))
      /\ \A n \in 1..Len(r) : t[n] = r[n]
      /\ \A n \in 1..(Len(r) + Len(s)) : n > Len(r) => t[n] = s[n - Len(r)]
  BY Pushed
<1>2. /\ Len(q) \in Nat /\ Len(q) >= 1 /\ DOMAIN q = 1..Len(q) /\ q[1] \in Request
      /\ Head(q) = q[1] /\ DOMAIN p = 1..(Len(q) - 1) /\ \A n \in 1..(Len(q) - 1) : p[n] = q[n + 1]
  BY Popped
<1> HIDE DEF t, p
<1>3. \A x : q[1] # Read(e.gen, x)
  BY <1>2, ReadIsRead
<1>4. \A n \in DOMAIN t : t[n].type = "part" => n \in DOMAIN r
  <2> SUFFICES ASSUME NEW n \in DOMAIN t, n \notin DOMAIN r PROVE t[n].type # "part"
    OBVIOUS
  <2>1. n > Len(r) /\ n - Len(r) \in DOMAIN s
    BY <1>1
  <2> QED BY <1>1, <2>1
<1>5. \A n \in Nat : StatusesNext(q, r, n, e.gen) => StatusesNext(p, t, n, e.gen)
  <2> SUFFICES ASSUME NEW n \in Nat, StatusesNext(q, r, n, e.gen)
               PROVE  StatusesNext(p, t, n, e.gen)
    OBVIOUS
  <2>1. PICK j \in DOMAIN r :
               /\ n < j /\ Brings(r[j], e.gen, "statuses")
               /\ \A k \in DOMAIN r : n < k /\ k < j => r[k].type = "event"
    BY <1>3 DEF StatusesNext
  <2>2. j \in DOMAIN t /\ t[j] = r[j] BY <1>1
  <2>3. \A k \in DOMAIN t : n < k /\ k < j => t[k].type = "event" BY <1>1, <2>1
  <2> QED BY <2>1, <2>2, <2>3 DEF StatusesNext
<1>6. ASSUME NEW i \in DOMAIN p, p[i] = Read(e.gen, "registry")
      PROVE  i + 1 \in DOMAIN p /\ p[i + 1] = Read(e.gen, "statuses")
  <2>1. i \in Nat /\ i + 1 \in DOMAIN q /\ q[i + 1] = Read(e.gen, "registry") BY <1>2, <1>6
  <2>2. i + 2 \in DOMAIN q /\ q[i + 2] = Read(e.gen, "statuses")
    <3>1. (i + 1) + 1 \in DOMAIN q /\ q[(i + 1) + 1] = Read(e.gen, "statuses")
      BY <2>1 DEF Paired
    <3> QED BY <2>1, <3>1
  <2> QED BY <1>2, <2>1, <2>2
<1>7. ASSUME NEW i \in DOMAIN t, Brings(t[i], e.gen, "registry")
      PROVE  StatusesNext(p, t, i, e.gen)
  <2>1. i \in DOMAIN r /\ i \in Nat BY <1>1, <1>4, <1>7 DEF Brings
  <2>2. StatusesNext(q, r, i, e.gen) BY <1>1, <1>7, <2>1 DEF Paired
  <2> QED BY <1>5, <2>1, <2>2
<1>8. "registry" \in DOMAIN e.got => StatusesNext(p, t, 0, e.gen)
  BY <1>5 DEF Paired
<1>9. ASSUME "registry" \notin DOMAIN e.got
      PROVE  \/ \E i \in DOMAIN p : p[i] = Read(e.gen, "registry")
             \/ \E i \in DOMAIN t : Brings(t[i], e.gen, "registry")
  <2>1. CASE \E i \in DOMAIN q : q[i] = Read(e.gen, "registry")
    <3>1. PICK i \in DOMAIN q : q[i] = Read(e.gen, "registry") BY <2>1
    <3>2. i # 1 BY <1>3, <3>1
    <3>3. i - 1 \in DOMAIN p /\ p[i - 1] = q[i] BY <1>2, <3>2
    <3> QED BY <3>1, <3>3
  <2>2. CASE \E i \in DOMAIN r : Brings(r[i], e.gen, "registry")
    BY <1>1, <2>2
  <2> QED BY <1>9, <2>1, <2>2 DEF Paired
<1>10. Paired(p, t, e)
  BY <1>6, <1>7, <1>8, <1>9 DEF Paired
<1> QED BY <1>10 DEF p, t

\* Requests are added that are not the refresh's own.
LEMMA PairedAsked ==
  ASSUME NEW q \in Seq(Request), NEW r \in Seq(Answer), NEW e, Paired(q, r, e),
         NEW s \in Seq(Request), \A k \in DOMAIN s : s[k] # Read(e.gen, "registry")
  PROVE  Paired(q \o s, r, e)
<1> DEFINE p == q \o s
<1>1. /\ Len(q) \in Nat /\ Len(s) \in Nat /\ DOMAIN q = 1..Len(q) /\ DOMAIN s = 1..Len(s)
      /\ DOMAIN p = 1..(Len(q) + Len(s)) /\ p \in Seq(Request)
      /\ \A n \in 1..Len(q) : p[n] = q[n]
      /\ \A n \in 1..(Len(q) + Len(s)) : n > Len(q) => p[n] = s[n - Len(q)]
  BY Pushed
<1>2. q # <<>> => p # <<>> /\ p[1] = q[1]
  <2> SUFFICES ASSUME q # <<>> PROVE p # <<>> /\ p[1] = q[1]
    OBVIOUS
  <2>1. 1 \in DOMAIN q BY <1>1
  <2> QED BY <1>1, <2>1
<1> HIDE DEF p
<1>3. \A n \in DOMAIN p : n \notin DOMAIN q => p[n] # Read(e.gen, "registry")
  <2> SUFFICES ASSUME NEW n \in DOMAIN p, n \notin DOMAIN q PROVE p[n] # Read(e.gen, "registry")
    OBVIOUS
  <2>1. n > Len(q) /\ n - Len(q) \in DOMAIN s BY <1>1
  <2> QED BY <1>1, <2>1
<1>4. \A n, g : StatusesNext(q, r, n, g) => StatusesNext(p, r, n, g)
  BY <1>2 DEF StatusesNext
<1>5. ASSUME NEW i \in DOMAIN p, p[i] = Read(e.gen, "registry")
      PROVE  i + 1 \in DOMAIN p /\ p[i + 1] = Read(e.gen, "statuses")
  <2>1. i \in DOMAIN q BY <1>3, <1>5
  <2>2. i + 1 \in DOMAIN q /\ q[i + 1] = Read(e.gen, "statuses") BY <1>1, <1>5, <2>1 DEF Paired
  <2> QED BY <1>1, <2>1, <2>2
<1>6. Paired(p, r, e)
  <2>1. \A i \in DOMAIN q : i \in DOMAIN p /\ p[i] = q[i] BY <1>1
  <2> QED BY <1>4, <1>5, <2>1 DEF Paired
<1> QED BY <1>6 DEF p

\* The reads of a refresh that begins.
LEMMA PairedNew ==
  ASSUME NEW q \in Seq(Request), NEW r \in Seq(Answer), NEW e, DOMAIN e.got = {}, e.gen \in Nat,
         \A i \in DOMAIN q : q[i] # Read(e.gen, "registry"),
         \A i \in DOMAIN r : ~Brings(r[i], e.gen, "registry")
  PROVE  Paired(q \o <<Read(e.gen, "registry"), Read(e.gen, "statuses")>>, r, e)
<1>1. PICK s \in Seq(Request) :
        /\ s = <<Read(e.gen, "registry"), Read(e.gen, "statuses")>>
        /\ Len(s) = 2 /\ s[1] = Read(e.gen, "registry") /\ s[2] = Read(e.gen, "statuses")
  <2>1. /\ Read(e.gen, "registry") \in Request /\ Read(e.gen, "statuses") \in Request
    BY DEF Request, Read, Part
  <2>2. ASSUME NEW a \in Request, NEW b \in Request
        PROVE  <<a, b>> \in Seq(Request) /\ Len(<<a, b>>) = 2 /\ <<a, b>>[1] = a /\ <<a, b>>[2] = b
    OBVIOUS
  <2> DEFINE w == <<Read(e.gen, "registry"), Read(e.gen, "statuses")>>
  <2>3. /\ w \in Seq(Request) /\ Len(w) = 2
        /\ w[1] = Read(e.gen, "registry") /\ w[2] = Read(e.gen, "statuses")
    BY <2>1, <2>2
  <2>4. \E s : s = w
    OBVIOUS
  <2> QED BY <2>3, <2>4, Zenon
<1> DEFINE p == q \o s
<1>2. /\ Len(q) \in Nat /\ DOMAIN q = 1..Len(q) /\ DOMAIN p = 1..(Len(q) + 2)
      /\ \A n \in 1..Len(q) : p[n] = q[n]
      /\ \A n \in 1..(Len(q) + 2) : n > Len(q) => p[n] = s[n - Len(q)]
  <2>1. /\ Len(q) \in Nat /\ DOMAIN q = 1..Len(q) /\ DOMAIN p = 1..(Len(q) + Len(s))
        /\ \A n \in 1..Len(q) : p[n] = q[n]
        /\ \A n \in 1..(Len(q) + Len(s)) : n > Len(q) => p[n] = s[n - Len(q)]
    BY Pushed
  <2> QED BY <1>1, <2>1
<1> HIDE DEF p
<1>3. /\ Len(q) + 1 \in DOMAIN p /\ p[Len(q) + 1] = Read(e.gen, "registry")
      /\ Len(q) + 2 \in DOMAIN p /\ p[Len(q) + 2] = Read(e.gen, "statuses")
  <2>1. Len(q) + 1 > Len(q) /\ Len(q) + 2 > Len(q) /\ Len(q) + 1 - Len(q) = 1 /\ Len(q) + 2 - Len(q) = 2
        /\ Len(q) + 1 \in 1..(Len(q) + 2) /\ Len(q) + 2 \in 1..(Len(q) + 2)
    BY <1>2
  <2> QED BY <1>1, <1>2, <2>1
<1>4. Read(e.gen, "statuses") # Read(e.gen, "registry")
  BY DEF Read
<1>5. ASSUME NEW i \in DOMAIN p, p[i] = Read(e.gen, "registry") PROVE i = Len(q) + 1
  <2>1. i \notin DOMAIN q BY <1>2, <1>5
  <2>2. i # Len(q) + 2 BY <1>3, <1>4, <1>5
  <2>3. i \in 1..(Len(q) + 2) /\ i \notin 1..Len(q) /\ Len(q) \in Nat BY <1>2, <2>1
  <2> QED BY <2>2, <2>3
<1>6. Len(q) + 1 + 1 = Len(q) + 2
  BY <1>2
<1>7. Paired(p, r, e)
  BY <1>3, <1>5, <1>6 DEF Paired
<1> QED BY <1>1, <1>7 DEF p

\* An answer is taken that is not the refresh's own.
LEMMA PairedTaken ==
  ASSUME NEW q \in Seq(Request), NEW r \in Seq(Answer), NEW e, Paired(q, r, e),
         r # <<>>, ~(Head(r).type = "part" /\ Head(r).gen = e.gen)
  PROVE  Paired(q, Tail(r), e)
<1> DEFINE t == Tail(r)
<1>1. /\ Len(r) \in Nat /\ Len(r) >= 1 /\ DOMAIN r = 1..Len(r)
      /\ Head(r) = r[1] /\ DOMAIN t = 1..(Len(r) - 1) /\ \A n \in 1..(Len(r) - 1) : t[n] = r[n + 1]
  BY Popped
<1> HIDE DEF t
<1>2. \A x : ~Brings(r[1], e.gen, x)
  BY <1>1 DEF Brings
<1>3. ASSUME NEW n \in Nat, \/ StatusesNext(q, r, n + 1, e.gen)
                            \/ n = 0 /\ StatusesNext(q, r, 0, e.gen)
      PROVE  StatusesNext(q, t, n, e.gen)
  <2> DEFINE from == IF StatusesNext(q, r, n + 1, e.gen) THEN n + 1 ELSE 0
  <2>1. StatusesNext(q, r, from, e.gen) /\ from \in {n, n + 1} BY <1>3
  <2> HIDE DEF from
  <2>2. ASSUME NEW j \in DOMAIN r, from < j, Brings(r[j], e.gen, "statuses"),
               \A k \in DOMAIN r : from < k /\ k < j => r[k].type = "event"
        PROVE  StatusesNext(q, t, n, e.gen)
    <3>1. j # 1 BY <1>2, <2>2
    <3>2. j - 1 \in DOMAIN t /\ t[j - 1] = r[j] BY <1>1, <3>1
    <3>3. n < j - 1
      <4>1. CASE from = n + 1 BY <1>1, <2>2, <4>1
      <4>2. CASE from # n + 1
        BY <1>1, <1>3, <2>1, <2>2, <3>1, <4>2 DEF from
      <4> QED BY <4>1, <4>2
    <3>4. ASSUME NEW k \in DOMAIN t, n < k, k < j - 1 PROVE t[k].type = "event"
      <4>1. k + 1 \in DOMAIN r /\ t[k] = r[k + 1] /\ from < k + 1 /\ k + 1 < j
        BY <1>1, <2>1, <3>4
      <4> QED BY <2>2, <4>1
    <3> QED BY <2>2, <3>2, <3>3, <3>4 DEF StatusesNext
  <2>3. CASE /\ \A k \in DOMAIN r : from < k => r[k].type = "event"
             /\ q # <<>> /\ q[1] = Read(e.gen, "statuses")
    <3>1. \A k \in DOMAIN t : n < k => t[k].type = "event"
      <4> SUFFICES ASSUME NEW k \in DOMAIN t, n < k PROVE t[k].type = "event"
        OBVIOUS
      <4>1. k + 1 \in DOMAIN r /\ t[k] = r[k + 1] /\ from < k + 1
        BY <1>1, <2>1
      <4> QED BY <2>3, <4>1
    <3> QED BY <2>3, <3>1 DEF StatusesNext
  <2> QED BY <2>1, <2>2, <2>3 DEF StatusesNext
<1>4. ASSUME NEW i \in DOMAIN t, Brings(t[i], e.gen, "registry")
      PROVE  StatusesNext(q, t, i, e.gen)
  <2>1. i \in Nat /\ i + 1 \in DOMAIN r /\ Brings(r[i + 1], e.gen, "registry") BY <1>1, <1>4
  <2>2. StatusesNext(q, r, i + 1, e.gen) BY <2>1 DEF Paired
  <2> QED BY <1>3, <2>1, <2>2
<1>5. "registry" \in DOMAIN e.got => StatusesNext(q, t, 0, e.gen)
  BY <1>3 DEF Paired
<1>6. (\E i \in DOMAIN r : Brings(r[i], e.gen, "registry"))
        => \E i \in DOMAIN t : Brings(t[i], e.gen, "registry")
  <2> SUFFICES ASSUME NEW i \in DOMAIN r, Brings(r[i], e.gen, "registry")
               PROVE  \E k \in DOMAIN t : Brings(t[k], e.gen, "registry")
    OBVIOUS
  <2>1. i # 1 BY <1>2
  <2>2. i - 1 \in DOMAIN t /\ t[i - 1] = r[i] BY <1>1, <2>1
  <2> QED BY <2>2
<1>7. Paired(q, t, e)
  BY <1>4, <1>5, <1>6 DEF Paired
<1> QED BY <1>7 DEF t

\* The refresh has a part of its own, and waits for another.
LEMMA PairedGot ==
  ASSUME NEW q \in Seq(Request), NEW r \in Seq(Answer), NEW e, Paired(q, r, e), r # <<>>,
         NEW p \in {"registry", "statuses"}, Brings(Head(r), e.gen, p),
         NEW f, f.gen = e.gen, DOMAIN f.got = DOMAIN e.got \cup {p},
         DOMAIN f.got # {"registry", "statuses"}, DOMAIN e.got \subseteq {"registry", "statuses"}
  PROVE  Paired(q, Tail(r), f)
<1> DEFINE t == Tail(r)
<1>1. /\ Len(r) \in Nat /\ Len(r) >= 1 /\ DOMAIN r = 1..Len(r)
      /\ Head(r) = r[1] /\ DOMAIN t = 1..(Len(r) - 1) /\ \A n \in 1..(Len(r) - 1) : t[n] = r[n + 1]
  BY Popped
<1> HIDE DEF t
<1>2. ASSUME NEW n \in Nat, StatusesNext(q, r, n + 1, e.gen)
      PROVE  StatusesNext(q, t, n, f.gen)
  <2>1. ASSUME NEW j \in DOMAIN r, n + 1 < j, Brings(r[j], e.gen, "statuses"),
               \A k \in DOMAIN r : n + 1 < k /\ k < j => r[k].type = "event"
        PROVE  StatusesNext(q, t, n, f.gen)
    <3>1. j - 1 \in DOMAIN t /\ t[j - 1] = r[j] /\ n < j - 1 BY <1>1, <2>1
    <3>2. ASSUME NEW k \in DOMAIN t, n < k, k < j - 1 PROVE t[k].type = "event"
      <4>1. k + 1 \in DOMAIN r /\ t[k] = r[k + 1] /\ n + 1 < k + 1 /\ k + 1 < j
        BY <1>1, <3>2
      <4> QED BY <2>1, <4>1
    <3> QED BY <2>1, <3>1, <3>2 DEF StatusesNext
  <2>2. CASE /\ \A k \in DOMAIN r : n + 1 < k => r[k].type = "event"
             /\ q # <<>> /\ q[1] = Read(e.gen, "statuses")
    <3>1. \A k \in DOMAIN t : n < k => t[k].type = "event"
      <4> SUFFICES ASSUME NEW k \in DOMAIN t, n < k PROVE t[k].type = "event"
        OBVIOUS
      <4>1. k + 1 \in DOMAIN r /\ t[k] = r[k + 1] /\ n + 1 < k + 1
        BY <1>1
      <4> QED BY <2>2, <4>1
    <3> QED BY <2>2, <3>1 DEF StatusesNext
  <2> QED BY <1>2, <2>1, <2>2 DEF StatusesNext
<1>3. ASSUME NEW i \in DOMAIN t, Brings(t[i], f.gen, "registry")
      PROVE  StatusesNext(q, t, i, f.gen)
  <2>1. i \in Nat /\ i + 1 \in DOMAIN r /\ Brings(r[i + 1], e.gen, "registry") BY <1>1, <1>3
  <2>2. StatusesNext(q, r, i + 1, e.gen) BY <2>1 DEF Paired
  <2> QED BY <1>2, <2>1, <2>2
<1>4. "registry" \in DOMAIN f.got => StatusesNext(q, t, 0, f.gen)
  <2> SUFFICES ASSUME "registry" \in DOMAIN f.got PROVE StatusesNext(q, t, 0, f.gen)
    OBVIOUS
  <2>1. p = "registry" OBVIOUS
  <2>2. 1 \in DOMAIN r /\ Brings(r[1], e.gen, "registry") BY <1>1, <2>1
  <2>3. StatusesNext(q, r, 0 + 1, e.gen) BY <2>2 DEF Paired
  <2> QED BY <1>2, <2>3
<1>5. ASSUME "registry" \notin DOMAIN f.got
      PROVE  \/ \E i \in DOMAIN q : q[i] = Read(f.gen, "registry")
             \/ \E i \in DOMAIN t : Brings(t[i], f.gen, "registry")
  <2>1. p = "statuses" /\ "registry" \notin DOMAIN e.got BY <1>5
  <2>2. CASE \E i \in DOMAIN r : Brings(r[i], e.gen, "registry")
    <3>1. PICK i \in DOMAIN r : Brings(r[i], e.gen, "registry") BY <2>2
    <3>2. i # 1 BY <1>1, <2>1, <3>1 DEF Brings
    <3>3. i - 1 \in DOMAIN t /\ t[i - 1] = r[i] BY <1>1, <3>2
    <3> QED BY <3>1, <3>3
  <2> QED BY <2>1, <2>2 DEF Paired
<1>6. Paired(q, t, f)
  BY <1>3, <1>4, <1>5 DEF Paired
<1> QED BY <1>6 DEF t

LEMMA Together ==
  ASSUME NEW S, NEW q \in Seq(S), NEW r \in Seq(S), NEW s \in Seq(S)
  PROVE  q \o (r \o s) = (q \o r) \o s
OBVIOUS

\* Requests and answers with a refresh are in the order of the refreshes.
InTurn(q, r) ==
  /\ \A i, j \in DOMAIN q : i < j /\ q[i].type = "read" /\ q[j].type = "read" /\ q[j].gen # 0
                              => q[i].gen <= q[j].gen
  /\ \A i, j \in DOMAIN r : i < j /\ r[i].type = "part" /\ r[j].type = "part" /\ r[j].gen # 0
                              => r[i].gen <= r[j].gen
  /\ \A i \in DOMAIN r, j \in DOMAIN q :
       r[i].type = "part" /\ q[j].type = "read" /\ q[j].gen # 0 => r[i].gen <= q[j].gen

\* None is of a refresh before g.
NoneBefore(q, r, g) ==
  /\ \A i \in DOMAIN q : q[i].type = "read" /\ q[i].gen # 0 => g <= q[i].gen
  /\ \A i \in DOMAIN r : r[i].type = "part" /\ r[i].gen # 0 => g <= r[i].gen

LEMMA GenIsNat ==
  /\ \A m \in Request : m.type = "read" => m.gen \in Nat
  /\ \A m \in Answer : m.type = "part" => m.gen \in Nat /\ m.stamp \in Stamp
BY DEF Request, Answer

\* Answers are added that are no parts.
LEMMA TurnTold ==
  ASSUME NEW q \in Seq(Request), NEW r \in Seq(Answer), InTurn(q, r),
         NEW s \in Seq(Answer), \A k \in DOMAIN s : s[k].type # "part"
  PROVE  InTurn(q, r \o s) /\ \A g : NoneBefore(q, r, g) => NoneBefore(q, r \o s, g)
<1> DEFINE t == r \o s
<1>1. /\ Len(r) \in Nat /\ Len(s) \in Nat /\ DOMAIN r = 1..Len(r) /\ DOMAIN s = 1..Len(s)
      /\ DOMAIN t = 1..(Len(r) + Len(s))
      /\ \A n \in 1..Len(r) : t[n] = r[n]
      /\ \A n \in 1..(Len(r) + Len(s)) : n > Len(r) => t[n] = s[n - Len(r)]
  BY Pushed
<1> HIDE DEF t
<1>2. \A n \in DOMAIN t : t[n].type = "part" => n \in DOMAIN r /\ t[n] = r[n]
  <2> SUFFICES ASSUME NEW n \in DOMAIN t, n \notin DOMAIN r PROVE t[n].type # "part"
    BY <1>1
  <2>1. n > Len(r) /\ n - Len(r) \in DOMAIN s
    BY <1>1
  <2> QED BY <1>1, <2>1
<1>3. InTurn(q, t)
  BY <1>2 DEF InTurn
<1>4. \A g : NoneBefore(q, r, g) => NoneBefore(q, t, g)
  BY <1>2 DEF NoneBefore
<1> QED BY <1>3, <1>4 DEF t

\* The first request is taken.
LEMMA TurnServed ==
  ASSUME NEW q \in Seq(Request), NEW r \in Seq(Answer), InTurn(q, r), q # <<>>
  PROVE  InTurn(Tail(q), r) /\ \A g : NoneBefore(q, r, g) => NoneBefore(Tail(q), r, g)
<1> DEFINE p == Tail(q)
<1>1. /\ Len(q) \in Nat /\ DOMAIN q = 1..Len(q) /\ DOMAIN p = 1..(Len(q) - 1)
      /\ \A n \in 1..(Len(q) - 1) : p[n] = q[n + 1]
  BY Popped
<1> HIDE DEF p
<1>2. \A n \in DOMAIN p : n \in Nat /\ n + 1 \in DOMAIN q /\ p[n] = q[n + 1]
  BY <1>1
<1>3. \A i, j \in DOMAIN p : i < j => i + 1 < j + 1
  BY <1>2
<1>4. InTurn(p, r)
  BY <1>2, <1>3 DEF InTurn
<1>5. \A g : NoneBefore(q, r, g) => NoneBefore(p, r, g)
  BY <1>2 DEF NoneBefore
<1> QED BY <1>4, <1>5 DEF p

\* And answered with a part.
LEMMA TurnRead ==
  ASSUME NEW q \in Seq(Request), NEW r \in Seq(Answer), InTurn(q, r), q # <<>>,
         Head(q).type = "read",
         NEW m \in Answer, m.type = "part", m.gen = Head(q).gen
  PROVE  /\ InTurn(Tail(q), Append(r, m))
         /\ \A g : NoneBefore(q, r, g) => NoneBefore(Tail(q), Append(r, m), g)
<1> DEFINE p == Tail(q)
           t == Append(r, m)
<1>1. /\ Len(r) \in Nat /\ DOMAIN r = 1..Len(r) /\ DOMAIN t = 1..(Len(r) + 1)
      /\ t[Len(r) + 1] = m /\ \A n \in 1..Len(r) : t[n] = r[n]
  OBVIOUS
<1>2. /\ Len(q) \in Nat /\ Len(q) >= 1 /\ DOMAIN q = 1..Len(q) /\ Head(q) = q[1]
      /\ DOMAIN p = 1..(Len(q) - 1) /\ \A n \in 1..(Len(q) - 1) : p[n] = q[n + 1]
  BY Popped
<1> HIDE DEF p, t
<1>3. \A n \in DOMAIN p : n \in Nat /\ n + 1 \in DOMAIN q /\ 1 < n + 1 /\ p[n] = q[n + 1]
  BY <1>2
<1>4. /\ \A n \in DOMAIN t : (n \in DOMAIN r /\ t[n] = r[n]) \/ (n = Len(r) + 1 /\ t[n] = m)
      /\ \A n \in DOMAIN r : n < Len(r) + 1
  BY <1>1
<1>5. 1 \in DOMAIN q /\ q[1].type = "read" /\ q[1].gen = m.gen
  BY <1>2
<1>6. InTurn(p, t)
  <2>1. \A i, j \in DOMAIN p : i < j /\ p[i].type = "read" /\ p[j].type = "read" /\ p[j].gen # 0
                                 => p[i].gen <= p[j].gen
    <3>1. \A i, j \in DOMAIN p : i < j => i + 1 < j + 1 BY <1>3
    <3> QED BY <1>3, <3>1 DEF InTurn
  <2>2. ASSUME NEW i \in DOMAIN t, NEW j \in DOMAIN t, i < j,
               t[i].type = "part", t[j].type = "part", t[j].gen # 0
        PROVE  t[i].gen <= t[j].gen
    <3>1. i \in DOMAIN r /\ t[i] = r[i]
      BY <1>1, <2>2
    <3>2. CASE j \in DOMAIN r /\ t[j] = r[j]
      BY <2>2, <3>1, <3>2 DEF InTurn
    <3>3. CASE t[j] = m
      BY <1>5, <2>2, <3>1, <3>3 DEF InTurn
    <3> QED BY <1>4, <3>2, <3>3
  <2>3. ASSUME NEW i \in DOMAIN t, NEW j \in DOMAIN p,
               t[i].type = "part", p[j].type = "read", p[j].gen # 0
        PROVE  t[i].gen <= p[j].gen
    <3>1. j + 1 \in DOMAIN q /\ 1 < j + 1 /\ p[j] = q[j + 1] BY <1>3
    <3>2. CASE i \in DOMAIN r /\ t[i] = r[i]
      BY <2>3, <3>1, <3>2 DEF InTurn
    <3>3. CASE t[i] = m
      BY <1>5, <2>3, <3>1, <3>3 DEF InTurn
    <3> QED BY <1>4, <3>2, <3>3
  <2> QED BY <2>1, <2>2, <2>3 DEF InTurn
<1>7. ASSUME NEW g, NoneBefore(q, r, g) PROVE NoneBefore(p, t, g)
  <2>1. \A i \in DOMAIN p : p[i].type = "read" /\ p[i].gen # 0 => g <= p[i].gen
    BY <1>3, <1>7 DEF NoneBefore
  <2>2. \A i \in DOMAIN t : t[i].type = "part" /\ t[i].gen # 0 => g <= t[i].gen
    BY <1>4, <1>5, <1>7 DEF NoneBefore
  <2> QED BY <2>1, <2>2 DEF NoneBefore
<1> QED BY <1>6, <1>7 DEF p, t

\* The first answer is taken.
LEMMA TurnTaken ==
  ASSUME NEW q \in Seq(Request), NEW r \in Seq(Answer), InTurn(q, r), r # <<>>
  PROVE  /\ InTurn(q, Tail(r))
         /\ \A g : NoneBefore(q, r, g) => NoneBefore(q, Tail(r), g)
         /\ Head(r).type = "part" => NoneBefore(q, Tail(r), Head(r).gen)
<1> DEFINE t == Tail(r)
<1>1. /\ Len(r) \in Nat /\ Len(r) >= 1 /\ DOMAIN r = 1..Len(r) /\ DOMAIN t = 1..(Len(r) - 1)
      /\ Head(r) = r[1] /\ \A n \in 1..(Len(r) - 1) : t[n] = r[n + 1]
  BY Popped
<1> HIDE DEF t
<1>2. \A n \in DOMAIN t : n \in Nat /\ n + 1 \in DOMAIN r /\ 1 < n + 1 /\ t[n] = r[n + 1]
  BY <1>1
<1>3. \A i, j \in DOMAIN t : i < j => i + 1 < j + 1
  BY <1>2
<1>4. InTurn(q, t)
  BY <1>2, <1>3 DEF InTurn
<1>5. \A g : NoneBefore(q, r, g) => NoneBefore(q, t, g)
  BY <1>2 DEF NoneBefore
<1>6. Head(r).type = "part" => NoneBefore(q, t, Head(r).gen)
  <2>1. 1 \in DOMAIN r BY <1>1
  <2> QED BY <1>1, <1>2, <2>1 DEF InTurn, NoneBefore
<1> QED BY <1>4, <1>5, <1>6 DEF t

\* The requests of a refresh, the newest, or of none, are added.
LEMMA TurnAsked ==
  ASSUME NEW q \in Seq(Request), NEW r \in Seq(Answer), InTurn(q, r),
         NEW s \in Seq(Request), NEW h \in Nat,
         \A k \in DOMAIN s : s[k].type = "read" => s[k].gen \in {0, h},
         \A i \in DOMAIN q : q[i].type = "read" => q[i].gen <= h,
         \A i \in DOMAIN r : r[i].type = "part" => r[i].gen <= h
  PROVE  /\ InTurn(q \o s, r)
         /\ \A g \in Nat : NoneBefore(q, r, g) /\ g <= h => NoneBefore(q \o s, r, g)
<1> DEFINE p == q \o s
<1>1. /\ Len(q) \in Nat /\ Len(s) \in Nat /\ DOMAIN q = 1..Len(q) /\ DOMAIN s = 1..Len(s)
      /\ DOMAIN p = 1..(Len(q) + Len(s))
      /\ \A n \in 1..Len(q) : p[n] = q[n]
      /\ \A n \in 1..(Len(q) + Len(s)) : n > Len(q) => p[n] = s[n - Len(q)]
  BY Pushed
<1> HIDE DEF p
<1>2. ASSUME NEW n \in DOMAIN p
      PROVE  \/ n \in DOMAIN q /\ p[n] = q[n]
             \/ n > Len(q) /\ (p[n].type = "read" => p[n].gen \in {0, h})
  <2>1. CASE n > Len(q)
    <3>1. n - Len(q) \in DOMAIN s /\ p[n] = s[n - Len(q)] BY <1>1, <2>1
    <3> QED BY <2>1, <3>1
  <2> QED BY <1>1, <2>1
<1>3. InTurn(p, r)
  <2>1. ASSUME NEW i \in DOMAIN p, NEW j \in DOMAIN p, i < j,
               p[i].type = "read", p[j].type = "read", p[j].gen # 0
        PROVE  p[i].gen <= p[j].gen
    <3>1. CASE j \in DOMAIN q /\ p[j] = q[j]
      <4>1. i \in DOMAIN q /\ p[i] = q[i] BY <1>1, <2>1, <3>1
      <4> QED BY <2>1, <3>1, <4>1 DEF InTurn
    <3>2. CASE p[j].gen = h
      BY <1>2, <2>1, <3>2
    <3> QED BY <1>2, <2>1, <3>1, <3>2
  <2>2. \A i \in DOMAIN r, j \in DOMAIN p :
          r[i].type = "part" /\ p[j].type = "read" /\ p[j].gen # 0 => r[i].gen <= p[j].gen
    BY <1>2 DEF InTurn
  <2> QED BY <2>1, <2>2 DEF InTurn
<1>4. \A g \in Nat : NoneBefore(q, r, g) /\ g <= h => NoneBefore(p, r, g)
  BY <1>2 DEF NoneBefore
<1> QED BY <1>3, <1>4 DEF p

\* Answers that carry a content of the registry and are compared with what is shown.
Stamped(m) == m.type \in {"part", "refusal"}

\* Of answers r and d commits: c is no newer than what is still to come.
Behind(c, r, d) == c <= d /\ \A i \in DOMAIN r : Stamped(r[i]) => c <= r[i].stamp.content

\* A notice of the commit after content c is on its way.
Told(r, c) == \E j \in DOMAIN r : r[j].type = "event" /\ r[j].revision = c + 1

\* Contents grow along the answers, and each notice stands where its commit does.
InStep(r, d) ==
  /\ \A i, j \in DOMAIN r : i < j /\ Stamped(r[i]) /\ Stamped(r[j])
                              => r[i].stamp.content <= r[j].stamp.content
  /\ \A i \in DOMAIN r : /\ Stamped(r[i]) => r[i].stamp.content <= d
                         /\ r[i].type = "event" => r[i].revision <= d
  /\ \A i, j \in DOMAIN r : Stamped(r[i]) /\ r[j].type = "event" =>
       /\ i < j => r[i].stamp.content < r[j].revision
       /\ j < i => r[j].revision <= r[i].stamp.content

\* A part that is out of date already is followed by a notice of that.
AllTold(r, d) == \A i \in DOMAIN r :
  r[i].type = "part" /\ r[i].stamp.content < d => Told(r, r[i].stamp.content)

LEMMA StampIsNat ==
  ASSUME NEW m \in Answer
  PROVE  /\ Stamped(m) => m.stamp \in Stamp /\ m.stamp.content \in Nat
         /\ m.type = "event" => m.revision \in Nat /\ ~Stamped(m)
BY DEF Answer, Stamp, Stamped

\* Answers are added that carry none, and notices of a commit.
LEMMA StepTold ==
  ASSUME NEW r \in Seq(Answer), NEW d \in Nat, InStep(r, d), NEW b \in Nat, d <= b,
         NEW s \in Seq(Answer),
         \A k \in DOMAIN s : ~Stamped(s[k]) /\ (s[k].type = "event" => s[k].revision = b /\ d < b)
  PROVE  /\ InStep(r \o s, b)
         /\ \A c \in Nat : /\ Behind(c, r, d) => Behind(c, r \o s, b)
                           /\ Told(r, c) => Told(r \o s, c)
         /\ (\E k \in DOMAIN s : s[k].type = "event" /\ b = d + 1) => Told(r \o s, d)
         /\ AllTold(r, d) /\ (b = d \/ \E k \in DOMAIN s : s[k].type = "event" /\ b = d + 1)
              => AllTold(r \o s, b)
<1> DEFINE t == r \o s
<1>1. /\ Len(r) \in Nat /\ Len(s) \in Nat /\ DOMAIN r = 1..Len(r) /\ DOMAIN s = 1..Len(s)
      /\ DOMAIN t = 1..(Len(r) + Len(s)) /\ t \in Seq(Answer)
      /\ \A n \in 1..Len(r) : t[n] = r[n]
      /\ \A n \in 1..(Len(r) + Len(s)) : n > Len(r) => t[n] = s[n - Len(r)]
  BY Pushed
<1> HIDE DEF t
<1>2. ASSUME NEW n \in DOMAIN t
      PROVE  \/ n \in DOMAIN r /\ t[n] = r[n]
             \/ /\ \A k \in DOMAIN r : k < n
                /\ ~Stamped(t[n]) /\ (t[n].type = "event" => t[n].revision = b /\ d < b)
  <2>1. CASE n > Len(r)
    <3>1. n - Len(r) \in DOMAIN s /\ t[n] = s[n - Len(r)] BY <1>1, <2>1
    <3>2. \A k \in DOMAIN r : k < n BY <1>1, <2>1
    <3> QED BY <3>1, <3>2
  <2> QED BY <1>1, <2>1
<1>3. \A n \in DOMAIN r : n \in DOMAIN t /\ t[n] = r[n]
  BY <1>1
<1>4. \A n \in DOMAIN t : Stamped(t[n]) => n \in DOMAIN r /\ t[n] = r[n]
  BY <1>2
<1>5. \A n \in DOMAIN r : Stamped(r[n]) => r[n].stamp.content \in Nat /\ r[n].stamp.content <= d
  <2>1. \A n \in DOMAIN r : r[n] \in Answer BY <1>1
  <2> QED BY <2>1, StampIsNat DEF InStep
<1>6. \A n \in DOMAIN r : r[n].type = "event" => r[n].revision \in Nat /\ r[n].revision <= d
  <2>1. \A n \in DOMAIN r : r[n] \in Answer BY <1>1
  <2> QED BY <2>1, StampIsNat DEF InStep
<1>7. InStep(t, b)
  <2>1. \A i, j \in DOMAIN t : i < j /\ Stamped(t[i]) /\ Stamped(t[j])
                                 => t[i].stamp.content <= t[j].stamp.content
    BY <1>4 DEF InStep
  <2>2. \A i \in DOMAIN t : /\ Stamped(t[i]) => t[i].stamp.content <= b
                            /\ t[i].type = "event" => t[i].revision <= b
    BY <1>2, <1>5, <1>6
  <2>3. ASSUME NEW i \in DOMAIN t, NEW j \in DOMAIN t, Stamped(t[i]), t[j].type = "event"
        PROVE  /\ i < j => t[i].stamp.content < t[j].revision
               /\ j < i => t[j].revision <= t[i].stamp.content
    <3>1. i \in DOMAIN r /\ t[i] = r[i] /\ i \in Nat /\ j \in Nat BY <1>1, <1>4, <2>3
    <3>2. CASE j \in DOMAIN r /\ t[j] = r[j]
      BY <2>3, <3>1, <3>2 DEF InStep
    <3>3. CASE (\A k \in DOMAIN r : k < j) /\ t[j].revision = b /\ d < b
      BY <1>5, <2>3, <3>1, <3>3
    <3> QED BY <1>2, <2>3, <3>2, <3>3
  <2> QED BY <2>1, <2>2, <2>3 DEF InStep
<1>8. ASSUME NEW c \in Nat
      PROVE  (Behind(c, r, d) => Behind(c, t, b)) /\ (Told(r, c) => Told(t, c))
  BY <1>3, <1>4 DEF Behind, Told
<1>9. (\E k \in DOMAIN s : s[k].type = "event" /\ b = d + 1) => Told(t, d)
  <2> SUFFICES ASSUME NEW k \in DOMAIN s, s[k].type = "event", b = d + 1 PROVE Told(t, d)
    OBVIOUS
  <2>1. k + Len(r) \in DOMAIN t /\ k + Len(r) > Len(r) /\ (k + Len(r)) - Len(r) = k BY <1>1
  <2>2. t[k + Len(r)] = s[k] BY <1>1, <2>1
  <2> QED BY <2>1, <2>2 DEF Told
<1>10. ASSUME AllTold(r, d), b = d \/ \E k \in DOMAIN s : s[k].type = "event" /\ b = d + 1
       PROVE  AllTold(t, b)
  <2> SUFFICES ASSUME NEW i \in DOMAIN t, t[i].type = "part", t[i].stamp.content < b
               PROVE  Told(t, t[i].stamp.content)
    BY DEF AllTold
  <2>1. i \in DOMAIN r /\ t[i] = r[i] /\ t[i].stamp.content \in Nat /\ t[i].stamp.content <= d
    BY <1>4, <1>5 DEF Stamped
  <2>2. CASE t[i].stamp.content < d
    BY <1>8, <1>10, <2>1, <2>2 DEF AllTold
  <2>3. CASE t[i].stamp.content = d
    BY <1>9, <1>10, <2>3
  <2> QED BY <2>1, <2>2, <2>3
<1> QED BY <1>7, <1>8, <1>9, <1>10 DEF t

\* An answer with the content of now is added.
LEMMA StepStamped ==
  ASSUME NEW r \in Seq(Answer), NEW d \in Nat, InStep(r, d),
         NEW m \in Answer, Stamped(m), m.stamp.content = d
  PROVE  /\ InStep(Append(r, m), d)
         /\ \A c \in Nat : /\ Behind(c, r, d) => Behind(c, Append(r, m), d)
                           /\ Told(r, c) => Told(Append(r, m), c)
         /\ AllTold(r, d) => AllTold(Append(r, m), d)
<1> DEFINE t == Append(r, m)
<1>1. /\ Len(r) \in Nat /\ DOMAIN r = 1..Len(r) /\ DOMAIN t = 1..(Len(r) + 1)
      /\ t[Len(r) + 1] = m /\ \A n \in 1..Len(r) : t[n] = r[n]
  OBVIOUS
<1> HIDE DEF t
<1>2. /\ \A n \in DOMAIN t : (n \in DOMAIN r /\ t[n] = r[n]) \/ (n = Len(r) + 1 /\ t[n] = m)
      /\ \A n \in DOMAIN r : n < Len(r) + 1 /\ n \in DOMAIN t /\ t[n] = r[n] /\ n \in Nat
  BY <1>1
<1>3. m.type # "event"
  BY DEF Stamped
<1>4. InStep(t, d)
  <2>1. ASSUME NEW i \in DOMAIN t, NEW j \in DOMAIN t, i < j, Stamped(t[i]), Stamped(t[j])
        PROVE  t[i].stamp.content <= t[j].stamp.content
    <3>1. i \in DOMAIN r /\ t[i] = r[i] BY <1>1, <2>1
    <3>2. CASE j \in DOMAIN r /\ t[j] = r[j] BY <2>1, <3>1, <3>2 DEF InStep
    <3>3. CASE t[j] = m BY <2>1, <3>1, <3>3 DEF InStep
    <3> QED BY <1>2, <3>2, <3>3
  <2>2. \A i \in DOMAIN t : /\ Stamped(t[i]) => t[i].stamp.content <= d
                            /\ t[i].type = "event" => t[i].revision <= d
    BY <1>2, <1>3 DEF InStep
  <2>3. ASSUME NEW i \in DOMAIN t, NEW j \in DOMAIN t, Stamped(t[i]), t[j].type = "event"
        PROVE  /\ i < j => t[i].stamp.content < t[j].revision
               /\ j < i => t[j].revision <= t[i].stamp.content
    <3>1. j \in DOMAIN r /\ t[j] = r[j] BY <1>2, <1>3, <2>3
    <3>2. CASE i \in DOMAIN r /\ t[i] = r[i] BY <2>3, <3>1, <3>2 DEF InStep
    <3>3. CASE i = Len(r) + 1 /\ t[i] = m
      <4>1. ~(i < j) BY <1>1, <1>2, <3>1, <3>3
      <4> QED BY <2>3, <3>1, <3>3, <4>1 DEF InStep
    <3> QED BY <1>2, <3>2, <3>3
  <2> QED BY <2>1, <2>2, <2>3 DEF InStep
<1>5. ASSUME NEW c \in Nat
      PROVE  (Behind(c, r, d) => Behind(c, t, d)) /\ (Told(r, c) => Told(t, c))
  BY <1>2 DEF Behind, Told
<1>6. AllTold(r, d) => AllTold(t, d)
  <2> SUFFICES ASSUME AllTold(r, d), NEW i \in DOMAIN t, t[i].type = "part", t[i].stamp.content < d
               PROVE  Told(t, t[i].stamp.content)
    BY DEF AllTold
  <2>1. i \in DOMAIN r /\ t[i] = r[i] BY <1>2
  <2>2. r[i] \in Answer /\ r[i].stamp.content \in Nat
    BY <1>1, <2>1, StampIsNat DEF Stamped
  <2> QED BY <1>5, <2>1, <2>2 DEF AllTold
<1> QED BY <1>4, <1>5, <1>6 DEF t

\* The first answer is taken: no notice, that is, that comes later is of an older commit.
LEMMA StepTaken ==
  ASSUME NEW r \in Seq(Answer), NEW d \in Nat, InStep(r, d), r # <<>>
  PROVE  /\ InStep(Tail(r), d)
         /\ \A c \in Nat : Behind(c, r, d) => Behind(c, Tail(r), d)
         /\ Stamped(Head(r)) => Behind(Head(r).stamp.content, Tail(r), d)
         /\ \A c \in Nat : Told(r, c) =>
              /\ Told(Tail(r), c) \/ (Head(r).type = "event" /\ Head(r).revision = c + 1)
              /\ Stamped(Head(r)) => Head(r).stamp.content <= c
         /\ AllTold(r, d) => AllTold(Tail(r), d)
         /\ AllTold(r, d) /\ Head(r).type = "part" /\ Head(r).stamp.content < d
              => Told(Tail(r), Head(r).stamp.content)
<1> DEFINE t == Tail(r)
<1>1. /\ Len(r) \in Nat /\ Len(r) >= 1 /\ DOMAIN r = 1..Len(r) /\ DOMAIN t = 1..(Len(r) - 1)
      /\ Head(r) = r[1] /\ \A n \in 1..(Len(r) - 1) : t[n] = r[n + 1]
      /\ r[1] \in Answer
  BY Popped
<1> HIDE DEF t
<1>2. \A n \in DOMAIN t : n \in Nat /\ n + 1 \in DOMAIN r /\ 1 < n + 1 /\ t[n] = r[n + 1]
  BY <1>1
<1>3. \A i, j \in DOMAIN t : i < j => i + 1 < j + 1
  BY <1>2
<1>4. 1 \in DOMAIN r /\ \A n \in DOMAIN r : n \in Nat /\ r[n] \in Answer /\ (n # 1 => n - 1 \in DOMAIN t /\ t[n - 1] = r[n] /\ 1 < n)
  <2>1. \A n \in DOMAIN r : n # 1 => n - 1 \in 1..(Len(r) - 1) /\ (n - 1) + 1 = n BY <1>1
  <2> QED BY <1>1, <2>1
<1>5. InStep(t, d)
  BY <1>2, <1>3 DEF InStep
<1>6. \A c \in Nat : Behind(c, r, d) => Behind(c, t, d)
  BY <1>2 DEF Behind
<1>7. Stamped(r[1]) => Behind(r[1].stamp.content, t, d)
  BY <1>2, <1>4 DEF InStep, Behind
<1>8. ASSUME NEW c \in Nat, Told(r, c)
      PROVE  /\ Told(t, c) \/ (r[1].type = "event" /\ r[1].revision = c + 1)
             /\ Stamped(r[1]) => r[1].stamp.content <= c
  <2>1. PICK j \in DOMAIN r : r[j].type = "event" /\ r[j].revision = c + 1
    BY <1>8 DEF Told
  <2>2. CASE j = 1
    BY <1>1, <2>1, <2>2, StampIsNat
  <2>3. CASE j # 1
    <3>1. Told(t, c) BY <1>4, <2>1, <2>3 DEF Told
    <3>2. Stamped(r[1]) => r[1].stamp.content < r[j].revision
      BY <1>4, <2>1, <2>3 DEF InStep
    <3>3. Stamped(r[1]) => r[1].stamp.content \in Nat BY <1>1, StampIsNat
    <3> QED BY <2>1, <3>1, <3>2, <3>3
  <2> QED BY <2>2, <2>3
<1>9. ASSUME AllTold(r, d), NEW i \in DOMAIN r, r[i].type = "part", r[i].stamp.content < d
      PROVE  Told(t, r[i].stamp.content)
  <2>1. r[i] \in Answer /\ r[i].stamp.content \in Nat /\ Stamped(r[i])
    BY <1>4, <1>9, StampIsNat DEF Stamped
  <2>2. Told(r, r[i].stamp.content) BY <1>9 DEF AllTold
  <2>3. CASE r[1].type = "event" /\ r[1].revision = r[i].stamp.content + 1
    <3>1. i # 1 BY <1>9, <2>3
    <3>2. r[1].revision <= r[i].stamp.content
      BY <1>4, <2>1, <2>3, <3>1 DEF InStep
    <3> QED BY <2>1, <2>3, <3>2
  <2> QED BY <1>8, <2>1, <2>2, <2>3
<1>10. AllTold(r, d) => AllTold(t, d)
  BY <1>2, <1>9 DEF AllTold
<1>11. AllTold(r, d) /\ r[1].type = "part" /\ r[1].stamp.content < d
         => Told(t, r[1].stamp.content)
  BY <1>4, <1>9
<1>12. Head(r) = r[1] BY <1>1
<1> HIDE DEF InStep, Behind, Told, AllTold, Stamped
<1> QED BY <1>5, <1>6, <1>7, <1>8, <1>10, <1>11, <1>12 DEF t

-----------------------------------------------------------------------------
(***************************************************************************)
(* Refreshes take turns, as long as the panel lives.                       *)
(***************************************************************************)

\* What refresh o has got of the registry.
Held(o) == DOMAIN o.got \ {"places"}

\* Of the refreshes O: the two reads of one by notice are together, and one that has got
\* anything comes before all that is still under way.
TurnsOf(q, r, O) ==
  /\ \A e \in O : e.kind = "event" => Paired(q, r, e)
  /\ InTurn(q, r)
  /\ \A o \in O : Held(o) # {} => NoneBefore(q, r, o.gen)

\* Notices are added.
LEMMA TurnsNoticed ==
  ASSUME NEW q \in Seq(Request), NEW r \in Seq(Answer), NEW O, TurnsOf(q, r, O),
         NEW s \in Seq(Answer), \A k \in DOMAIN s : s[k].type = "event"
  PROVE  TurnsOf(q, r \o s, O)
<1>1. \A k \in DOMAIN s : s[k].type # "part"
  OBVIOUS
<1>2. InTurn(q, r \o s) /\ \A g : NoneBefore(q, r, g) => NoneBefore(q, r \o s, g)
  BY <1>1, TurnTold DEF TurnsOf
<1>3. \A e \in O : e.kind = "event" => Paired(q, r \o s, e)
  BY PairedNotice DEF TurnsOf
<1> QED BY <1>2, <1>3 DEF TurnsOf

\* A read is answered.
LEMMA TurnsRead ==
  ASSUME NEW q \in Seq(Request), NEW r \in Seq(Answer), NEW O, TurnsOf(q, r, O),
         q # <<>>, Head(q).type = "read",
         NEW m \in Answer, m.type = "part", m.gen = Head(q).gen, m.part = Head(q).part
  PROVE  TurnsOf(Tail(q), Append(r, m), O)
<1>1. /\ InTurn(Tail(q), Append(r, m))
      /\ \A g : NoneBefore(q, r, g) => NoneBefore(Tail(q), Append(r, m), g)
  BY TurnRead DEF TurnsOf
<1>2. \A e \in O : e.kind = "event" => Paired(Tail(q), Append(r, m), e)
  BY PairedRead DEF TurnsOf
<1> QED BY <1>1, <1>2 DEF TurnsOf

\* Another request is answered.
LEMMA TurnsOther ==
  ASSUME NEW q \in Seq(Request), NEW r \in Seq(Answer), NEW O, TurnsOf(q, r, O),
         q # <<>>, Head(q).type # "read",
         NEW s \in Seq(Answer), \A k \in DOMAIN s : s[k].type # "part"
  PROVE  TurnsOf(Tail(q), r \o s, O)
<1>1. Tail(q) \in Seq(Request)
  BY Popped
<1>2. InTurn(Tail(q), r) /\ \A g : NoneBefore(q, r, g) => NoneBefore(Tail(q), r, g)
  BY TurnServed DEF TurnsOf
<1>3. /\ InTurn(Tail(q), r \o s)
      /\ \A g : NoneBefore(Tail(q), r, g) => NoneBefore(Tail(q), r \o s, g)
  BY <1>1, <1>2, TurnTold
<1>4. \A e \in O : e.kind = "event" => Paired(Tail(q), r \o s, e)
  BY PairedOther DEF TurnsOf
<1> QED BY <1>2, <1>3, <1>4 DEF TurnsOf

\* An answer is taken that no refresh by notice of O waits for.
LEMMA TurnsTaken ==
  ASSUME NEW q \in Seq(Request), NEW r \in Seq(Answer), NEW O, TurnsOf(q, r, O), r # <<>>,
         \A e \in O : e.kind = "event" => ~(Head(r).type = "part" /\ Head(r).gen = e.gen)
  PROVE  TurnsOf(q, Tail(r), O)
<1>1. InTurn(q, Tail(r)) /\ \A g : NoneBefore(q, r, g) => NoneBefore(q, Tail(r), g)
  BY TurnTaken DEF TurnsOf
<1>2. \A e \in O : e.kind = "event" => Paired(q, Tail(r), e)
  BY PairedTaken DEF TurnsOf
<1> QED BY <1>1, <1>2 DEF TurnsOf

\* Requests are added, of a refresh no older than any under way and not of O, or of none.
LEMMA TurnsAsked ==
  ASSUME NEW q \in Seq(Request), NEW r \in Seq(Answer), NEW O \in SUBSET Op, TurnsOf(q, r, O),
         NEW s \in Seq(Request), NEW h \in Nat,
         \A k \in DOMAIN s : s[k].type = "read" => s[k].gen \in {0, h},
         \A i \in DOMAIN q : q[i].type = "read" => q[i].gen <= h,
         \A i \in DOMAIN r : r[i].type = "part" => r[i].gen <= h,
         \A o \in O : 0 < o.gen /\ o.gen < h
  PROVE  TurnsOf(q \o s, r, O)
<1>1. /\ InTurn(q \o s, r)
      /\ \A g \in Nat : NoneBefore(q, r, g) /\ g <= h => NoneBefore(q \o s, r, g)
  BY TurnAsked DEF TurnsOf
<1>2. \A o \in O : o.gen \in Nat
  BY DEF Op
<1>3. ASSUME NEW e \in O, e.kind = "event"
      PROVE  Paired(q \o s, r, e)
  <2>1. \A k \in DOMAIN s : s[k] # Read(e.gen, "registry")
    BY <1>2, ReadIsRead
  <2>2. Paired(q, r, e)
    BY <1>3 DEF TurnsOf
  <2> QED BY <2>1, <2>2, PairedAsked
<1>4. \A o \in O : Held(o) # {} => NoneBefore(q \o s, r, o.gen)
  BY <1>1, <1>2 DEF TurnsOf
<1> QED BY <1>1, <1>3, <1>4 DEF TurnsOf

\* A refresh begins, newer than all under way.
LEMMA TurnsBegun ==
  ASSUME NEW q \in Seq(Request), NEW r \in Seq(Answer), NEW O \in SUBSET Op, TurnsOf(q, r, O),
         NEW o \in Op, DOMAIN o.got = {},
         \A i \in DOMAIN q : q[i].type = "read" => q[i].gen < o.gen,
         \A i \in DOMAIN r : r[i].type = "part" => r[i].gen < o.gen,
         \A p \in O : 0 < p.gen /\ p.gen < o.gen
  PROVE  TurnsOf(q \o Reads(o.gen, o.kind), r, O \cup {o})
<1>1. PICK s \in Seq(Request) :
        /\ s = Reads(o.gen, o.kind)
        /\ \A k \in DOMAIN s : s[k].type = "read" /\ s[k].gen = o.gen
  BY ReadsFit DEF Op
<1>2. o.gen \in Nat /\ \A k \in DOMAIN s : s[k].type = "read" => s[k].gen \in {0, o.gen}
  BY <1>1 DEF Op
<1>3. /\ \A i \in DOMAIN q : q[i].type = "read" => q[i].gen <= o.gen
      /\ \A i \in DOMAIN r : r[i].type = "part" => r[i].gen <= o.gen
  <2>1. /\ \A i \in DOMAIN q : q[i] \in Request
        /\ \A i \in DOMAIN r : r[i] \in Answer
    OBVIOUS
  <2> QED BY <1>2, <2>1, GenIsNat
<1>4. TurnsOf(q \o s, r, O)
  BY <1>2, <1>3, TurnsAsked
<1>5. ASSUME o.kind = "event" PROVE Paired(q \o s, r, o)
  <2>1. Requests("event") = <<"registry", "statuses">>
    BY DEF Requests
  <2>2. Reads(o.gen, "event") = <<Read(o.gen, "registry"), Read(o.gen, "statuses")>>
    BY <2>1 DEF Reads
  <2>3. /\ \A i \in DOMAIN q : q[i] # Read(o.gen, "registry")
        /\ \A i \in DOMAIN r : ~Brings(r[i], o.gen, "registry")
    BY <1>2, ReadIsRead DEF Brings
  <2> QED BY <1>1, <1>2, <1>5, <2>2, <2>3, PairedNew
<1>6. Held(o) = {}
  BY DEF Held
<1> QED BY <1>1, <1>4, <1>5, <1>6 DEF TurnsOf

\* Refreshes end.
LEMMA TurnsEnded ==
  ASSUME NEW q, NEW r, NEW O, NEW N \in SUBSET O, TurnsOf(q, r, O)
  PROVE  TurnsOf(q, r, N)
BY DEF TurnsOf

\* A refresh gets a part, and waits for more.
LEMMA TurnsGot ==
  ASSUME NEW q \in Seq(Request), NEW r \in Seq(Answer), NEW O \in SUBSET Op, TurnsOf(q, r, O),
         \A a, b \in O : a.gen = b.gen => a = b,
         r # <<>>, Head(r).type = "part", NEW o \in O, Head(r).gen = o.gen,
         Head(r).part \in Parts(o.kind), DOMAIN o.got \subseteq Parts(o.kind),
         NEW f \in Op, f.gen = o.gen, f.kind = o.kind, DOMAIN f.got = DOMAIN o.got \cup {Head(r).part},
         DOMAIN f.got # Parts(o.kind)
  PROVE  TurnsOf(q, Tail(r), (O \ {o}) \cup {f})
<1>1. /\ InTurn(q, Tail(r)) /\ \A g : NoneBefore(q, r, g) => NoneBefore(q, Tail(r), g)
      /\ NoneBefore(q, Tail(r), f.gen)
  BY TurnTaken DEF TurnsOf
<1>2. ASSUME NEW e \in O, e # o, e.kind = "event" PROVE Paired(q, Tail(r), e)
  <2>1. Paired(q, r, e) /\ ~(Head(r).type = "part" /\ Head(r).gen = e.gen)
    BY <1>2 DEF TurnsOf
  <2> QED BY <2>1, PairedTaken
<1>3. ASSUME f.kind = "event" PROVE Paired(q, Tail(r), f)
  <2>1. Paired(q, r, o) /\ Parts(o.kind) = {"registry", "statuses"}
    BY <1>3 DEF TurnsOf, Parts
  <2>2. PICK p \in {"registry", "statuses"} : p = Head(r).part
    BY <2>1
  <2>3. Brings(Head(r), o.gen, p) /\ DOMAIN f.got = DOMAIN o.got \cup {p}
    BY <2>2 DEF Brings
  <2> QED BY <2>1, <2>2, <2>3, PairedGot
<1> QED BY <1>1, <1>2, <1>3 DEF TurnsOf

\* A refresh gets what does not come from the registry.
LEMMA TurnsSame ==
  ASSUME NEW q, NEW r, NEW O, TurnsOf(q, r, O), NEW o \in O,
         NEW f, f.gen = o.gen, f.kind = o.kind, f.kind # "event", Held(f) = Held(o)
  PROVE  TurnsOf(q, r, (O \ {o}) \cup {f})
BY DEF TurnsOf

Turns == TurnsOf(toServer, toPanel, ops)

\* No answer in r is of a refresh that has not begun.
Begun(r) == r \in Seq(Answer) /\ \A i \in DOMAIN r : r[i].type = "part" => r[i].gen <= generation

LEMMA BegunLeft ==
  ASSUME AnswersOK
  PROVE  Begun(toPanel) /\ (toPanel # <<>> => Begun(Tail(toPanel)))
<1>1. Begun(toPanel)
  BY DEF Begun, AnswersOK, Fits
<1>2. toPanel # <<>> => Begun(Tail(toPanel))
  BY <1>1, Taken DEF Begun
<1> QED BY <1>1, <1>2

\* Requests that no refresh waits for are added.
LEMMA AskTurns ==
  ASSUME RequestsOK, OpsOK, NEW r, Begun(r), NEW O \in SUBSET Op,
         \A o \in O : o.gen \in 1..generation, TurnsOf(toServer, r, O),
         NEW m \in Request, m.type = "read" => m.gen = 0
  PROVE  TurnsOf(Append(toServer, m), r, O)
<1> DEFINE s == <<m>>
<1>1. s \in Seq(Request) /\ \A k \in DOMAIN s : s[k] = m
  OBVIOUS
<1>2. Append(toServer, m) = toServer \o s
  BY DEF RequestsOK
<1> HIDE DEF s
<1>3. generation \in Nat /\ generation + 1 \in Nat
  BY DEF OpsOK
<1>4. /\ \A i \in DOMAIN toServer : toServer[i].type = "read" => toServer[i].gen <= generation + 1
      /\ \A i \in DOMAIN r : r[i].type = "part" => r[i].gen <= generation + 1
  <2>1. \A i \in DOMAIN r : r[i].type = "part" => r[i].gen \in Nat
    BY GenIsNat DEF Begun
  <2> QED BY <1>3, <2>1 DEF RequestsOK, Fits, Begun
<1>5. \A o \in O : 0 < o.gen /\ o.gen < generation + 1
  BY <1>3
<1>6. toServer \in Seq(Request) /\ r \in Seq(Answer)
  BY DEF RequestsOK, Begun
<1>7. \A k \in DOMAIN s : s[k].type = "read" => s[k].gen \in {0, generation + 1}
  BY <1>1
<1>8. TurnsOf(toServer \o s, r, O)
  BY <1>1, <1>3, <1>4, <1>5, <1>6, <1>7, TurnsAsked
<1> QED BY <1>2, <1>8

LEMMA SubscribeTurns ==
  ASSUME RequestsOK, OpsOK, NEW r, Begun(r), NEW O \in SUBSET Op,
         \A o \in O : o.gen \in 1..generation, TurnsOf(toServer, r, O), subId \in Nat, Subscribe
  PROVE  TurnsOf(toServer', r, O)
<1>1. CASE sub = "none"
  <2> DEFINE m == [type |-> "subscribe", sub |-> subId + 1]
  <2>1. m \in Request /\ m.type = "subscribe"
    BY DEF Request
  <2>2. toServer' = Append(toServer, m)
    BY <1>1 DEF Subscribe
  <2> HIDE DEF m
  <2> QED BY <2>1, <2>2, AskTurns
<1>2. CASE sub # "none"
  BY <1>2 DEF Subscribe
<1> QED BY <1>1, <1>2

\* Requests q, answers r and refreshes O are in turn, up to refresh g.
InTurnUpTo(q, r, O, g) ==
  /\ q \in Seq(Request) /\ r \in Seq(Answer) /\ O \in SUBSET Op
  /\ TurnsOf(q, r, O)
  /\ \A i \in DOMAIN q : q[i].type = "read" => q[i].gen <= g
  /\ \A i \in DOMAIN r : r[i].type = "part" => r[i].gen <= g
  /\ \A o \in O : 0 < o.gen /\ o.gen <= g

LEMMA UpToNow ==
  ASSUME RequestsOK, OpsOK, NEW r, Begun(r), TurnsOf(toServer, r, ops)
  PROVE  InTurnUpTo(toServer, r, ops, generation)
BY DEF RequestsOK, OpsOK, Fits, Begun, InTurnUpTo

\* A refresh begins.
LEMMA BeginTurns ==
  ASSUME NEW q, NEW r, NEW O, NEW g \in Nat, InTurnUpTo(q, r, O, g), NEW kind \in Kind
  PROVE  InTurnUpTo(q \o Reads(g + 1, kind), r,
                    O \cup {[gen |-> g + 1, kind |-> kind, got |-> <<>>]}, g + 1)
<1> DEFINE o == [gen |-> g + 1, kind |-> kind, got |-> <<>>]
           p == q \o Reads(g + 1, kind)
<1>1. o \in Op /\ DOMAIN o.got = {} /\ o.gen = g + 1 /\ o.kind = kind /\ g + 1 \in Nat
  BY NothingGot DEF Op
<1> HIDE DEF o
<1>2. PICK s \in Seq(Request) :
        s = Reads(g + 1, kind) /\ \A k \in DOMAIN s : s[k].type = "read" /\ s[k].gen = g + 1
  BY <1>1, ReadsFit
<1>3. /\ \A i \in DOMAIN q : q[i].type = "read" => q[i].gen \in Nat
      /\ \A i \in DOMAIN r : r[i].type = "part" => r[i].gen \in Nat
      /\ \A a \in O : a.gen \in Nat
  <2>1. /\ \A i \in DOMAIN q : q[i] \in Request
        /\ \A i \in DOMAIN r : r[i] \in Answer
    BY DEF InTurnUpTo
  <2> QED BY <2>1, GenIsNat DEF Op, InTurnUpTo
<1>4. /\ \A i \in DOMAIN q : q[i].type = "read" => q[i].gen < o.gen /\ q[i].gen <= g + 1
      /\ \A i \in DOMAIN r : r[i].type = "part" => r[i].gen < o.gen /\ r[i].gen <= g + 1
      /\ \A a \in O : 0 < a.gen /\ a.gen < o.gen /\ a.gen <= g + 1
  BY <1>1, <1>3 DEF InTurnUpTo
<1>5. TurnsOf(p, r, O \cup {o})
  <2>1. TurnsOf(q \o Reads(o.gen, o.kind), r, O \cup {o})
    BY <1>1, <1>4, TurnsBegun DEF InTurnUpTo
  <2> QED BY <1>1, <2>1
<1>6. /\ p \in Seq(Request)
      /\ \A n \in DOMAIN p : (n \in DOMAIN q /\ p[n] = q[n]) \/ (\E k \in DOMAIN s : p[n] = s[k])
  BY <1>2, Added DEF InTurnUpTo
<1> HIDE DEF p
<1>7. \A i \in DOMAIN p : p[i].type = "read" => p[i].gen <= g + 1
  BY <1>1, <1>2, <1>4, <1>6
<1>8. InTurnUpTo(p, r, O \cup {o}, g + 1)
  BY <1>1, <1>4, <1>5, <1>6, <1>7 DEF InTurnUpTo
<1> QED BY <1>8 DEF p, o

LEMMA StartTurns ==
  ASSUME RequestsOK, OpsOK, NEW r, Begun(r), TurnsOf(toServer, r, ops),
         NEW kind \in Kind, Start(kind)
  PROVE  TurnsOf(toServer', r, ops')
<1>1. generation \in Nat /\ InTurnUpTo(toServer, r, ops, generation)
  BY UpToNow DEF OpsOK
<1>2. InTurnUpTo(toServer', r, ops', generation + 1)
  BY <1>1, BeginTurns DEF Start
<1> QED BY <1>2 DEF InTurnUpTo

LEMMA StartAllTurns ==
  ASSUME RequestsOK, OpsOK, NEW r, Begun(r), TurnsOf(toServer, r, ops),
         NEW kinds \in Follow, kinds # <<"list">>, StartAll(kinds)
  PROVE  TurnsOf(toServer', r, ops')
<1>1. /\ generation \in Nat /\ toServer \in Seq(Request)
      /\ InTurnUpTo(toServer, r, ops, generation)
  BY UpToNow DEF OpsOK, RequestsOK
<1>2. CASE Len(kinds) = 1
  <2>1. kinds[1] \in Kind /\ DOMAIN kinds = {1}
    BY <1>2, PanelAssumption DEF Kind
  <2>2. Start(kinds[1])
    BY <1>1, <1>2, <2>1 DEF Start, StartAll
  <2> QED BY <2>1, <2>2, StartTurns
<1>3. CASE kinds = <<"bindings", "topology", "assets">>
  <2> DEFINE a == Reads(generation + 1, "bindings")
             b == Reads(generation + 2, "topology")
             c == Reads(generation + 3, "assets")
             x == [gen |-> generation + 1, kind |-> "bindings", got |-> <<>>]
             y == [gen |-> generation + 2, kind |-> "topology", got |-> <<>>]
             z == [gen |-> generation + 3, kind |-> "assets", got |-> <<>>]
  <2>1. /\ generation + 1 \in Nat /\ generation + 2 \in Nat /\ generation + 3 \in Nat
        /\ generation + 1 + 1 = generation + 2 /\ generation + 2 + 1 = generation + 3
        /\ "bindings" \in Kind /\ "topology" \in Kind /\ "assets" \in Kind
    BY <1>1 DEF Kind
  <2>2. ops' = ops \cup {x} \cup {y} \cup {z} /\ toServer' = toServer \o (a \o b \o c)
    <3>1. Len(kinds) = 3 /\ DOMAIN kinds = {1, 2, 3}
          /\ kinds[1] = "bindings" /\ kinds[2] = "topology" /\ kinds[3] = "assets"
      BY <1>3
    <3>2. {[gen |-> generation + i, kind |-> kinds[i], got |-> <<>>] : i \in DOMAIN kinds}
            = {x, y, z}
      BY <3>1
    <3> QED BY <3>1, <3>2 DEF StartAll
  <2>3. a \in Seq(Request) /\ b \in Seq(Request) /\ c \in Seq(Request)
    BY <2>1, ReadsFit
  <2>4. InTurnUpTo(toServer \o a, r, ops \cup {x}, generation + 1)
    BY <1>1, <2>1, BeginTurns
  <2>5. InTurnUpTo((toServer \o a) \o b, r, (ops \cup {x}) \cup {y}, generation + 2)
    <3>1. PICK g \in Nat : g = generation + 1 BY <2>1
    <3>2. PICK q, O : q = toServer \o a /\ O = ops \cup {x} OBVIOUS
    <3>3. InTurnUpTo(q, r, O, g) BY <2>4, <3>1, <3>2
    <3>4. InTurnUpTo(q \o Reads(g + 1, "topology"), r,
                     O \cup {[gen |-> g + 1, kind |-> "topology", got |-> <<>>]}, g + 1)
      BY <2>1, <3>3, BeginTurns
    <3> QED BY <2>1, <3>1, <3>2, <3>4
  <2>6. InTurnUpTo(((toServer \o a) \o b) \o c, r, ((ops \cup {x}) \cup {y}) \cup {z}, generation + 3)
    <3>1. PICK g \in Nat : g = generation + 2 BY <2>1
    <3>2. PICK q, O : q = (toServer \o a) \o b /\ O = (ops \cup {x}) \cup {y} OBVIOUS
    <3>3. InTurnUpTo(q, r, O, g) BY <2>5, <3>1, <3>2
    <3>4. InTurnUpTo(q \o Reads(g + 1, "assets"), r,
                     O \cup {[gen |-> g + 1, kind |-> "assets", got |-> <<>>]}, g + 1)
      BY <2>1, <3>3, BeginTurns
    <3> QED BY <2>1, <3>1, <3>2, <3>4
  <2> HIDE DEF a, b, c, x, y, z
  <2>7. toServer' = ((toServer \o a) \o b) \o c
    <3>1. a \o b \in Seq(Request) BY <2>3
    <3>2. toServer \o ((a \o b) \o c) = (toServer \o (a \o b)) \o c
      BY <1>1, <2>3, <3>1, Together
    <3>3. toServer \o (a \o b) = (toServer \o a) \o b
      BY <1>1, <2>3, Together
    <3> QED BY <2>2, <3>2, <3>3
  <2> QED BY <2>2, <2>6, <2>7 DEF InTurnUpTo
<1> QED BY <1>2, <1>3, PanelAssumption

\* The ways in which the server answers the first request: with a part, with a notice and
\* a reply, with a refusal, not at all, and with a subscription.
ReadServed(a) ==
  /\ Head(toServer).type = "read" /\ a \in Answer /\ a.type = "part"
  /\ a.gen = Head(toServer).gen /\ a.part = Head(toServer).part /\ a.stamp = Current
  /\ a.ok \/ failures' # 0
  /\ toPanel' = Append(toPanel, a) /\ UNCHANGED server

Noticed(s) ==
  /\ s \in Seq(Answer) /\ \A k \in DOMAIN s : s[k].type \in {"event", "reply"}
  /\ \A k \in DOMAIN s : s[k].type = "event" =>
       feed # None /\ s[k].sub = feed.sub /\ (feed.revision = Live => s[k].revision = content' - base)
  /\ feed # None => \E k \in DOMAIN s : s[k].type = "event"
  /\ content' = content + 1 /\ toPanel' = toPanel \o s /\ UNCHANGED <<base, feed, failures>>

Refused(a) ==
  /\ Head(toServer).type = "mutate" /\ a \in Answer /\ a.type = "refusal" /\ a.stamp = Current
  /\ toPanel' = Append(toPanel, a) /\ UNCHANGED <<content, base, feed, failures>>

Dropped ==
  /\ Head(toServer).type = "mutate" /\ UNCHANGED <<toPanel, content, base, feed, failures>>

Subscribed(a) ==
  /\ Head(toServer).type = "subscribe" /\ a \in Answer /\ a.type = "subscribed"
  /\ a.sub = Head(toServer).sub
  /\ a.ok \/ failures' # 0
  /\ a.ok => feed' = [sub |-> a.sub, revision |-> Live]
  /\ toPanel' = Append(toPanel, a) /\ UNCHANGED <<content, base>>

\* A notice is sent to whoever has subscribed.
LEMMA NoticeShape ==
  ASSUME ServerOK, subId \in Nat, content \in Nat, content' = content + 1,
         UNCHANGED <<base, feed, failures>>,
         NEW s \in Seq(Answer), s = Notice(content' - base), toPanel' = toPanel \o s
  PROVE  Noticed(s)
<1>1. \A k \in DOMAIN s : s[k].type = "event"
  <2>1. content' - base \in Nat BY DEF ServerOK
  <2> QED BY <2>1, NoticeOK
<1>2. CASE feed = None
  <2>1. s = <<>> /\ DOMAIN s = {} BY <1>2 DEF Notice
  <2> QED BY <1>1, <1>2, <2>1 DEF Noticed
<1>3. CASE feed # None
  <2> DEFINE m == [type |-> "event", sub |-> feed.sub,
                   revision |-> IF feed.revision = Live THEN content' - base ELSE feed.revision]
  <2>1. s = <<m>> BY <1>3 DEF Notice
  <2>2. /\ m.type = "event" /\ m.sub = feed.sub
        /\ feed.revision = Live => m.revision = content' - base
    OBVIOUS
  <2> HIDE DEF m
  <2>3. DOMAIN s = {1} /\ s[1] = m BY <2>1
  <2> QED BY <1>1, <1>3, <2>2, <2>3 DEF Noticed
<1> QED BY <1>2, <1>3

\* One more answer after the notice.
LEMMA NoticeReply ==
  ASSUME ServerOK, subId \in Nat, content \in Nat, content' = content + 1,
         UNCHANGED <<base, feed, failures>>,
         NEW a \in Answer, a.type = "reply",
         NEW s, s = Append(Notice(content' - base), a), toPanel' = toPanel \o s
  PROVE  Noticed(s)
<1>1. content' - base \in Nat
  BY DEF ServerOK
<1>2. PICK n \in Seq(Answer) : n = Notice(content' - base) /\ \A k \in DOMAIN n : n[k].type = "event"
  BY <1>1, NoticeOK
<1>3. /\ s \in Seq(Answer)
      /\ \A k \in DOMAIN s : (k \in DOMAIN n /\ s[k] = n[k]) \/ s[k] = a
      /\ \A k \in DOMAIN n : k \in DOMAIN s /\ s[k] = n[k]
  <2>1. Append(n, a) \in Seq(Answer)
        /\ \A k \in DOMAIN n : k \in DOMAIN Append(n, a) /\ Append(n, a)[k] = n[k]
    OBVIOUS
  <2> QED BY <1>2, <2>1, Appended
<1>4. CASE feed = None
  <2>1. n = <<>> /\ DOMAIN n = {} BY <1>2, <1>4 DEF Notice
  <2> QED BY <1>3, <1>4, <2>1 DEF Noticed
<1>5. CASE feed # None
  <2> DEFINE m == [type |-> "event", sub |-> feed.sub,
                   revision |-> IF feed.revision = Live THEN content' - base ELSE feed.revision]
  <2>1. n = <<m>> BY <1>2, <1>5 DEF Notice
  <2>2. /\ m.type = "event" /\ m.sub = feed.sub
        /\ feed.revision = Live => m.revision = content' - base
    OBVIOUS
  <2> HIDE DEF m
  <2>3. DOMAIN n = {1} /\ n[1] = m BY <2>1
  <2> QED BY <1>3, <1>5, <2>2, <2>3 DEF Noticed
<1> QED BY <1>4, <1>5

LEMMA ServeShape ==
  ASSUME IInv, Serve
  PROVE  /\ toServer # <<>> /\ toServer' = Tail(toServer)
         /\ UNCHANGED <<basis, ops, generation, shown, shell, conflict, refusedAt, link, reviewed>>
         /\ failures' = 0 => failures = 0
         /\ \/ \E a : ReadServed(a)
            \/ Head(toServer).type = "mutate" /\ \E s : Noticed(s)
            \/ \E a : Refused(a)
            \/ Dropped
            \/ \E a : Subscribed(a)
<1> DEFINE m == Head(toServer)
<1>1. /\ m \in Request /\ (m.type = "subscribe" => m.sub \in 1..subId)
      /\ ServerOK /\ subId \in Nat /\ content \in Nat /\ failures \in Nat
  BY RequestTaken DEF IInv, QueuesOK, Serve, link, ServerOK, PanelOK
<1>2. CASE ServeRead(m)
  <2>1. PICK ok \in BOOLEAN :
          /\ MayFail(ok) /\ UNCHANGED server
          /\ toPanel' = Append(toPanel, [type |-> "part", gen |-> m.gen, part |-> m.part,
                                         stamp |-> Current, ok |-> ok])
    BY <1>2 DEF ServeRead
  <2>2. m.gen \in Nat /\ m.part \in Part /\ m.type = "read" /\ Current \in Stamp
    BY <1>1, <1>2, CurrentOK DEF ServeRead, Request
  <2> DEFINE a == [type |-> "part", gen |-> m.gen, part |-> m.part, stamp |-> Current, ok |-> ok]
  <2>3. /\ a \in Answer /\ a.type = "part" /\ a.gen = m.gen /\ a.part = m.part
        /\ a.stamp = Current /\ a.ok = ok
    BY <2>2 DEF Answer
  <2>4. (ok \/ failures' # 0) /\ (failures' = 0 => failures = 0)
    BY <1>1, <2>1 DEF MayFail
  <2> HIDE DEF a
  <2>5. toPanel' = Append(toPanel, a)
    BY <2>1 DEF a
  <2>6. ReadServed(a)
    BY <2>1, <2>2, <2>3, <2>4, <2>5 DEF ReadServed
  <2> QED BY <2>4, <2>6 DEF Serve
<1>3. CASE ServeMutation(m)
  <2>1. m.type = "mutate" /\ m.follow \in Follow /\ UNCHANGED <<base, feed, failures>>
    BY <1>1, <1>3 DEF ServeMutation, Request
  <2>2. CASE UNCHANGED <<content, toPanel>>
    BY <2>1, <2>2 DEF Dropped, Serve
  <2>3. CASE /\ content' = content + 1
             /\ toPanel' = toPanel \o Append(Notice(content' - base),
                  [type |-> "reply", follow |-> m.follow,
                   stamp |-> [content |-> content', revision |-> content' - base]])
    <3> DEFINE a == [type |-> "reply", follow |-> m.follow,
                     stamp |-> [content |-> content', revision |-> content' - base]]
               s == Append(Notice(content' - base), a)
    <3>1. content' \in Nat /\ content' - base \in Nat
      BY <1>1, <2>3 DEF ServerOK
    <3>2. a \in Answer /\ a.type = "reply"
      BY <2>1, <3>1 DEF Answer, Stamp
    <3>3. toPanel' = toPanel \o s
      BY <2>3
    <3> HIDE DEF a
    <3>4. Noticed(s)
      BY <1>1, <2>1, <2>3, <3>2, <3>3, NoticeReply
    <3> QED BY <2>1, <3>4 DEF Serve
  <2>4. CASE /\ toPanel' = Append(toPanel, [type |-> "refusal", stamp |-> Current])
             /\ UNCHANGED content
    <3> DEFINE a == [type |-> "refusal", stamp |-> Current]
    <3>1. a \in Answer /\ a.type = "refusal" /\ a.stamp = Current
      BY <1>1, CurrentOK DEF Answer
    <3>2. toPanel' = Append(toPanel, a)
      BY <2>4
    <3> HIDE DEF a
    <3>3. Refused(a)
      BY <2>1, <2>4, <3>1, <3>2 DEF Refused
    <3> QED BY <2>1, <3>3 DEF Serve
  <2> QED BY <1>3, <2>2, <2>3, <2>4 DEF ServeMutation
<1>4. CASE ServeSubscribe(m)
  <2>1. PICK ok \in BOOLEAN :
          /\ MayFail(ok)
          /\ feed' = IF ok THEN [sub |-> m.sub, revision |-> Live] ELSE feed
          /\ toPanel' = Append(toPanel, [type |-> "subscribed", sub |-> m.sub, ok |-> ok])
    BY <1>4 DEF ServeSubscribe
  <2>2. m.type = "subscribe" /\ m.sub \in Nat /\ UNCHANGED <<content, base>>
    BY <1>1, <1>4 DEF ServeSubscribe
  <2> DEFINE a == [type |-> "subscribed", sub |-> m.sub, ok |-> ok]
  <2>3. a \in Answer /\ a.type = "subscribed" /\ a.sub = m.sub /\ a.ok = ok
    BY <2>2 DEF Answer
  <2>4. (ok \/ failures' # 0) /\ (failures' = 0 => failures = 0)
    BY <1>1, <2>1 DEF MayFail
  <2> HIDE DEF a
  <2>5. toPanel' = Append(toPanel, a)
    BY <2>1 DEF a
  <2>6. Subscribed(a)
    BY <2>1, <2>2, <2>3, <2>4, <2>5 DEF Subscribed
  <2> QED BY <2>4, <2>6 DEF Serve
<1> QED BY <1>2, <1>3, <1>4 DEF Serve

LEMMA OtherCommitShape ==
  ASSUME IInv, OtherCommit
  PROVE  /\ \E s : Noticed(s) /\ \A k \in DOMAIN s : s[k].type = "event"
         /\ UNCHANGED <<toServer, basis, ops, generation, shown, shell, conflict, refusedAt,
                        link, reviewed>>
<1>1. /\ ServerOK /\ subId \in Nat /\ content \in Nat /\ content' = content + 1
      /\ UNCHANGED <<base, feed, failures>>
  BY DEF IInv, ServerOK, PanelOK, OtherCommit
<1>2. content' - base \in Nat
  BY <1>1 DEF ServerOK
<1>3. PICK s \in Seq(Answer) : s = Notice(content' - base) /\ \A k \in DOMAIN s : s[k].type = "event"
  BY <1>1, <1>2, NoticeOK
<1>4. toPanel' = toPanel \o s
  BY <1>3 DEF OtherCommit
<1>5. Noticed(s)
  BY <1>1, <1>3, <1>4, NoticeShape
<1> QED BY <1>3, <1>5 DEF OtherCommit

LEMMA QueueFacts ==
  ASSUME IInv
  PROVE  /\ toServer \in Seq(Request) /\ toPanel \in Seq(Answer) /\ ops \in SUBSET Op
         /\ \A a, b \in ops : a.gen = b.gen => a = b
         /\ \A o \in ops : o.gen \in 1..generation /\ DOMAIN o.got \subseteq Parts(o.kind)
         /\ RequestsOK /\ AnswersOK /\ OpsOK /\ generation \in Nat /\ subId \in Nat
         /\ content \in Nat /\ base \in Nat
         /\ Begun(toPanel) /\ (toPanel # <<>> => Begun(Tail(toPanel)) /\ Tail(toPanel) \in Seq(Answer))
<1>1. AnswersOK
  BY DEF IInv, QueuesOK
<1>2. toPanel # <<>> => Begun(Tail(toPanel)) /\ Tail(toPanel) \in Seq(Answer)
  BY <1>1, BegunLeft DEF Begun
<1> QED BY <1>1, <1>2, BegunLeft DEF IInv, QueuesOK, RequestsOK, AnswersOK, OpsOK, PanelOK, ServerOK

\* One is added.
LEMMA OneMore ==
  ASSUME NEW S, NEW q \in Seq(S), NEW m \in S
  PROVE  /\ Append(q, m) = q \o <<m>> /\ <<m>> \in Seq(S) /\ DOMAIN <<m>> = {1} /\ <<m>>[1] = m
         /\ \A k \in DOMAIN <<m>> : <<m>>[k] = m
OBVIOUS

LEMMA ServeTurns == ASSUME IInv, Turns, Serve PROVE Turns'
<1>1. /\ toServer # <<>> /\ toServer' = Tail(toServer) /\ ops' = ops
      /\ toServer \in Seq(Request) /\ toPanel \in Seq(Answer)
      /\ TurnsOf(toServer, toPanel, ops)
  BY ServeShape, QueueFacts DEF Turns
<1> SUFFICES TurnsOf(Tail(toServer), toPanel', ops)
  BY <1>1 DEF Turns
<1>2. CASE \E a : ReadServed(a)
  <2>1. PICK a \in Answer : ReadServed(a)
    BY <1>2 DEF ReadServed
  <2>2. TurnsOf(Tail(toServer), Append(toPanel, a), ops)
    BY <1>1, <2>1, TurnsRead DEF ReadServed
  <2> QED BY <2>1, <2>2 DEF ReadServed
<1>3. ASSUME Head(toServer).type # "read", NEW s \in Seq(Answer), toPanel' = toPanel \o s,
             \A k \in DOMAIN s : s[k].type # "part"
      PROVE  TurnsOf(Tail(toServer), toPanel', ops)
  <2>1. TurnsOf(Tail(toServer), toPanel \o s, ops)
    BY <1>1, <1>3, TurnsOther
  <2> QED BY <1>3, <2>1
<1>4. CASE Head(toServer).type = "mutate" /\ \E s : Noticed(s)
  <2>1. PICK s \in Seq(Answer) : Noticed(s)
    BY <1>4 DEF Noticed
  <2>2. toPanel' = toPanel \o s /\ \A k \in DOMAIN s : s[k].type # "part"
    BY <2>1 DEF Noticed
  <2> QED BY <1>3, <1>4, <2>2
<1>5. ASSUME NEW a \in Answer, a.type # "part", toPanel' = Append(toPanel, a),
             Head(toServer).type # "read"
      PROVE  TurnsOf(Tail(toServer), toPanel', ops)
  <2> DEFINE s == <<a>>
  <2>1. s \in Seq(Answer) /\ (\A k \in DOMAIN s : s[k] = a) /\ toPanel' = toPanel \o s
    BY <1>1, <1>5, OneMore
  <2> HIDE DEF s
  <2>2. \A k \in DOMAIN s : s[k].type # "part"
    BY <1>5, <2>1
  <2> QED BY <1>3, <1>5, <2>1, <2>2
<1>6. CASE \E a : Refused(a)
  BY <1>5, <1>6 DEF Refused
<1>7. CASE Dropped
  <2> DEFINE s == <<>>
  <2>1. s \in Seq(Answer) /\ DOMAIN s = {} /\ toPanel' = toPanel \o s
    BY <1>1, <1>7 DEF Dropped
  <2> HIDE DEF s
  <2> QED BY <1>3, <1>7, <2>1 DEF Dropped
<1>8. CASE \E a : Subscribed(a)
  BY <1>5, <1>8 DEF Subscribed
<1> QED BY <1>2, <1>4, <1>6, <1>7, <1>8, ServeShape

LEMMA OtherCommitTurns == ASSUME IInv, Turns, OtherCommit PROVE Turns'
<1>1. PICK s : Noticed(s) /\ \A k \in DOMAIN s : s[k].type = "event"
  BY OtherCommitShape
<1>2. /\ toServer \in Seq(Request) /\ toPanel \in Seq(Answer) /\ s \in Seq(Answer)
      /\ TurnsOf(toServer, toPanel, ops)
  BY <1>1, QueueFacts DEF Turns, Noticed
<1>3. TurnsOf(toServer, toPanel \o s, ops)
  BY <1>1, <1>2, TurnsNoticed
<1> QED BY <1>1, <1>3, OtherCommitShape DEF Turns, Noticed

LEMMA StartLoadTurns ==
  ASSUME IInv, Turns, NEW initial \in BOOLEAN, StartLoad(initial) PROVE Turns'
<1>1. Start("load") /\ toPanel' = toPanel /\ "load" \in Kind
  BY DEF StartLoad, Kind
<1>2. TurnsOf(toServer', toPanel, ops')
  BY <1>1, QueueFacts, StartTurns DEF Turns
<1> QED BY <1>1, <1>2 DEF Turns

\* The other requests of the panel.
LEMMA AskedTurns ==
  ASSUME IInv, Turns,
         \/ EnsureSubscription \/ Disconnect \/ Connect \/ Mutate \/ MutateReviewed \/ Preview
  PROVE  Turns'
<1>1. UNCHANGED <<toPanel, ops>> /\ TurnsOf(toServer, toPanel, ops)
  BY DEF EnsureSubscription, Disconnect, Connect, Mutate, MutateReviewed, Preview, Send, Turns
<1> SUFFICES TurnsOf(toServer', toPanel, ops)
  BY <1>1 DEF Turns
<1>2. CASE Subscribe
  BY <1>1, <1>2, QueueFacts, SubscribeTurns
<1>3. CASE toServer' = toServer
  BY <1>1, <1>3
<1>4. ASSUME NEW m \in Request, m.type = "read" => m.gen = 0, toServer' = Append(toServer, m)
      PROVE  TurnsOf(toServer', toPanel, ops)
  BY <1>1, <1>4, QueueFacts, AskTurns
<1>5. ASSUME NEW based \in Stamp \cup {None}, NEW alone \in BOOLEAN, NEW follow \in Follow,
             Send(based, alone, follow)
      PROVE  TurnsOf(toServer', toPanel, ops)
  <2> DEFINE m == [type |-> "mutate", based |-> based, alone |-> alone, follow |-> follow]
  <2>1. m \in Request /\ m.type = "mutate" /\ toServer' = Append(toServer, m)
    BY <1>5 DEF Request, Send
  <2> HIDE DEF m
  <2> QED BY <1>4, <2>1
<1>6. CASE Mutate
  <2>1. PICK follow \in Follow : Send(basis, Writing = {}, follow)
    BY <1>6 DEF Mutate
  <2>2. basis \in Stamp \cup {None} /\ (Writing = {}) \in BOOLEAN
    BY DEF IInv, ClientOK
  <2> QED BY <1>5, <2>1, <2>2
<1>7. CASE MutateReviewed
  <2>1. PICK follow \in Follow : Send(reviewed, FALSE, follow)
    BY <1>7 DEF MutateReviewed
  <2>2. reviewed \in Stamp \cup {None}
    BY DEF IInv, ClientOK
  <2> QED BY <1>5, <2>1, <2>2
<1>8. CASE Preview
  <2> DEFINE m == Read(0, "preview")
  <2>1. m \in Request /\ m.type = "read" /\ m.gen = 0 /\ toServer' = Append(toServer, m)
    BY <1>8 DEF Request, Preview, Read, Part
  <2> HIDE DEF m
  <2> QED BY <1>4, <2>1
<1> QED BY <1>2, <1>3, <1>6, <1>7, <1>8 DEF EnsureSubscription, Disconnect, Connect

\* f is refresh o with one more part.
WithPart(f, o, part, stamp) ==
  /\ f \in Op /\ f.gen = o.gen /\ f.kind = o.kind /\ DOMAIN f.got = DOMAIN o.got \cup {part}
  /\ \A p \in DOMAIN f.got : f.got[p] \in Stamp /\ f.got[p] = IF p = part THEN stamp ELSE o.got[p]

LEMMA WithPartOK ==
  ASSUME NEW o \in Op, NEW part \in Part, NEW stamp \in Stamp
  PROVE  LET f == [o EXCEPT !.got = More(o, part, stamp)] IN
         WithPart(f, o, part, stamp) /\ DOMAIN f.got = DOMAIN More(o, part, stamp)
<1> DEFINE more == More(o, part, stamp)
           f == [o EXCEPT !.got = more]
<1>1. PICK D \in SUBSET Part : o.got \in [D -> Stamp]
  BY DEF Op, Gots
<1>2. more \in [D \cup {part} -> Stamp] /\ DOMAIN more = DOMAIN o.got \cup {part}
      /\ \A p \in DOMAIN more : more[p] \in Stamp /\ more[p] = IF p = part THEN stamp ELSE o.got[p]
  BY <1>1 DEF More
<1>3. more \in Gots
  BY <1>2 DEF Gots
<1> HIDE DEF more
<1>4. f \in Op /\ f.gen = o.gen /\ f.kind = o.kind /\ f.got = more
  BY <1>3 DEF Op
<1> HIDE DEF f
<1>5. WithPart(f, o, part, stamp) /\ DOMAIN f.got = DOMAIN more
  BY <1>2, <1>4 DEF WithPart
<1> QED BY <1>5 DEF f, more

\* A part fails, or the refresh waits for more, or it is complete.
LEMMA ArriveShape ==
  ASSUME NEW o \in Op, NEW part \in Part, NEW stamp \in Stamp, NEW ok \in BOOLEAN,
         Arrive(o, part, stamp, ok)
  PROVE  \E f : /\ WithPart(f, o, part, stamp)
                /\ \/ ~ok /\ ops' = ops \ {o} /\ Reject(o)
                   \/ /\ ok /\ DOMAIN f.got # Parts(o.kind) /\ ops' = (ops \ {o}) \cup {f}
                      /\ UNCHANGED <<shown, conflict, sub, subId, toServer, shell, generation>>
                   \/ ok /\ DOMAIN f.got = Parts(o.kind) /\ ops' = ops \ {o} /\ Land(f)
<1> DEFINE more == More(o, part, stamp)
           f == [o EXCEPT !.got = more]
           done == ok /\ DOMAIN more = Parts(o.kind)
<1>1. WithPart(f, o, part, stamp) /\ DOMAIN f.got = DOMAIN more
  BY WithPartOK
<1>2. /\ ops' = (ops \ {o}) \cup (IF ok /\ ~done THEN {f} ELSE {})
      /\ IF ~ok THEN Reject(o)
         ELSE IF done THEN Land(f)
         ELSE UNCHANGED <<shown, conflict, sub, subId, toServer, shell, generation>>
  BY DEF Arrive, More
<1> HIDE DEF more, f
<1> QED BY <1>1, <1>2

LEMMA LandAsks == ASSUME NEW o, o.kind \in Kind, Land(o) PROVE toServer' = toServer \/ Subscribe
BY DEF Land, LandLoad, LandStatuses, LandTopology, LandAssets, Kind

LEMMA PartTurns ==
  ASSUME IInv, Turns, toPanel # <<>>, Head(toPanel).type = "part",
         NEW o \in ops, o.gen = Head(toPanel).gen, NEW stamp \in Stamp, NEW ok \in BOOLEAN,
         Arrive(o, Head(toPanel).part, stamp, ok), toPanel' = Tail(toPanel)
  PROVE  Turns'
<1>1. /\ TurnsOf(toServer, toPanel, ops) /\ Head(toPanel) \in Answer
      /\ Head(toPanel).part \in Parts(o.kind) /\ Head(toPanel).part \in Part
      /\ o \in Op /\ o.kind \in Kind
  <2>1. Head(toPanel) \in Answer /\ Head(toPanel) = toPanel[1] /\ 1 \in DOMAIN toPanel
    BY Taken, QueueFacts
  <2> QED BY <2>1, QueueFacts DEF AnswersOK, Fits, Answer, Op, Turns
<1>2. PICK f :
        /\ WithPart(f, o, Head(toPanel).part, stamp)
        /\ \/ ~ok /\ ops' = ops \ {o} /\ Reject(o)
           \/ /\ ok /\ DOMAIN f.got # Parts(o.kind) /\ ops' = (ops \ {o}) \cup {f}
              /\ UNCHANGED <<shown, conflict, sub, subId, toServer, shell, generation>>
           \/ ok /\ DOMAIN f.got = Parts(o.kind) /\ ops' = ops \ {o} /\ Land(f)
  BY <1>1, ArriveShape
<1>3. CASE ops' = (ops \ {o}) \cup {f} /\ DOMAIN f.got # Parts(o.kind) /\ toServer' = toServer
  <2>1. TurnsOf(toServer, Tail(toPanel), (ops \ {o}) \cup {f})
    BY <1>1, <1>2, <1>3, QueueFacts, TurnsGot DEF WithPart
  <2> QED BY <1>3, <2>1 DEF Turns
<1>4. CASE ops' = ops \ {o} /\ (toServer' = toServer \/ Subscribe)
  <2>1. PICK O \in SUBSET Op : O = ops \ {o} /\ O \in SUBSET ops
    BY QueueFacts
  <2>2. TurnsOf(toServer, toPanel, O)
    BY <1>1, <2>1, TurnsEnded
  <2>3. \A e \in O : Head(toPanel).gen # e.gen
    BY <2>1, QueueFacts
  <2>4. TurnsOf(toServer, Tail(toPanel), O)
    BY <2>2, <2>3, QueueFacts, TurnsTaken
  <2>5. /\ RequestsOK /\ OpsOK /\ Begun(Tail(toPanel)) /\ subId \in Nat
        /\ \A a \in O : a.gen \in 1..generation
    BY <2>1, QueueFacts
  <2>6. TurnsOf(toServer', Tail(toPanel), O)
    BY <1>4, <2>4, <2>5, SubscribeTurns
  <2> QED BY <1>4, <2>1, <2>6 DEF Turns
<1>5. Reject(o) => toServer' = toServer
  BY DEF Reject
<1>6. Land(f) => toServer' = toServer \/ Subscribe
  BY <1>1, <1>2, LandAsks DEF WithPart
<1> QED BY <1>2, <1>3, <1>4, <1>5, <1>6

LEMMA PlacesTurns == ASSUME IInv, Turns, PlacesArrive PROVE Turns'
<1>1. PICK o \in ops, ok \in BOOLEAN :
        /\ o.kind = "load" /\ Arrive(o, "places", Current, ok) /\ toPanel' = toPanel
  BY DEF PlacesArrive
<1>2. /\ TurnsOf(toServer, toPanel, ops) /\ o \in Op /\ Current \in Stamp /\ "places" \in Part
      /\ o.kind \in Kind
  BY QueueFacts, CurrentOK DEF IInv, Turns, Part, Op
<1>3. PICK f :
        /\ WithPart(f, o, "places", Current)
        /\ \/ ~ok /\ ops' = ops \ {o} /\ Reject(o)
           \/ /\ ok /\ DOMAIN f.got # Parts(o.kind) /\ ops' = (ops \ {o}) \cup {f}
              /\ UNCHANGED <<shown, conflict, sub, subId, toServer, shell, generation>>
           \/ ok /\ DOMAIN f.got = Parts(o.kind) /\ ops' = ops \ {o} /\ Land(f)
  BY <1>1, <1>2, ArriveShape
<1>4. CASE ops' = (ops \ {o}) \cup {f} /\ toServer' = toServer
  <2>1. Held(f) = Held(o)
    BY <1>3 DEF WithPart, Held
  <2>2. f.gen = o.gen /\ f.kind = o.kind /\ f.kind # "event"
    BY <1>1, <1>3 DEF WithPart
  <2>3. TurnsOf(toServer, toPanel, (ops \ {o}) \cup {f})
    BY <1>2, <2>1, <2>2, TurnsSame
  <2> QED BY <1>1, <1>4, <2>3 DEF Turns
<1>5. CASE ops' = ops \ {o} /\ (toServer' = toServer \/ Subscribe)
  <2>1. PICK O \in SUBSET Op : O = ops \ {o} /\ O \in SUBSET ops
    BY QueueFacts
  <2>2. TurnsOf(toServer, toPanel, O)
    BY <1>2, <2>1, TurnsEnded
  <2>3. /\ RequestsOK /\ OpsOK /\ Begun(toPanel) /\ subId \in Nat
        /\ \A a \in O : a.gen \in 1..generation
    BY <2>1, QueueFacts
  <2>4. TurnsOf(toServer', toPanel, O)
    BY <1>5, <2>2, <2>3, SubscribeTurns
  <2> QED BY <1>1, <1>5, <2>1, <2>4 DEF Turns
<1>6. Reject(o) => toServer' = toServer
  BY DEF Reject
<1>7. Land(f) => toServer' = toServer \/ Subscribe
  BY <1>2, <1>3, LandAsks DEF WithPart
<1> QED BY <1>3, <1>4, <1>5, <1>6, <1>7

LEMMA ReceiveTurns == ASSUME IInv, Turns, Receive PROVE Turns'
<1>1. PICK m : m = Head(toPanel)
  OBVIOUS
<1>2. /\ toPanel # <<>> /\ toPanel' = Tail(toPanel) /\ content' = content
      /\ ReceivePart(m) \/ ReceiveEvent(m) \/ ReceiveReply(m) \/ ReceiveRefusal(m)
           \/ ReceiveSubscribed(m)
  BY <1>1 DEF Receive, server
<1>3. /\ m \in Answer /\ (m.type = "part" => Fits(m)) /\ TurnsOf(toServer, toPanel, ops)
  BY <1>1, <1>2, AnswerTaken DEF Turns
<1>4. ASSUME \A e \in ops : e.kind = "event" => ~(m.type = "part" /\ m.gen = e.gen)
      PROVE  TurnsOf(toServer, Tail(toPanel), ops)
  BY <1>1, <1>2, <1>3, <1>4, QueueFacts, TurnsTaken
<1>5. CASE ReceivePart(m)
  <2>1. m.type = "part" /\ m.stamp \in Stamp /\ m.ok \in BOOLEAN
    BY <1>3, <1>5 DEF ReceivePart, Answer
  <2>2. CASE m.part # "list" /\ \E o \in ops : o.gen = m.gen
    <3>1. PICK o \in ops : o.gen = m.gen /\ Arrive(o, m.part, m.stamp, m.ok)
      BY <1>5, <2>2 DEF ReceivePart
    <3> QED BY <1>1, <1>2, <2>1, <3>1, PartTurns
  <2>3. CASE m.part = "list" \/ ~\E o \in ops : o.gen = m.gen
    <3>1. UNCHANGED <<ops, toServer>>
      BY <1>5, <2>3 DEF ReceivePart
    <3>2. \A e \in ops : e.kind = "event" => ~(m.type = "part" /\ m.gen = e.gen)
      BY <1>3, <2>1, <2>3 DEF Fits, Parts
    <3> QED BY <1>2, <1>4, <3>1, <3>2 DEF Turns
  <2> QED BY <2>2, <2>3
<1>6. CASE ReceiveEvent(m)
  <2>1. TurnsOf(toServer, Tail(toPanel), ops)
    BY <1>4, <1>6 DEF ReceiveEvent
  <2>2. CASE UNCHANGED <<ops, toServer>>
    BY <1>2, <2>1, <2>2 DEF Turns
  <2>3. CASE Start("event")
    <3>1. "event" \in Kind BY DEF Kind
    <3>2. TurnsOf(toServer', Tail(toPanel), ops')
      BY <1>2, <2>1, <2>3, <3>1, QueueFacts, StartTurns
    <3> QED BY <1>2, <3>2 DEF Turns
  <2> QED BY <1>6, <2>2, <2>3 DEF ReceiveEvent
<1>7. CASE ReceiveReply(m)
  <2>1. TurnsOf(toServer, Tail(toPanel), ops) /\ m.follow \in Follow
    BY <1>3, <1>4, <1>7 DEF ReceiveReply, Answer
  <2>2. CASE m.follow = <<"list">>
    <3> DEFINE r == Read(0, "list")
    <3>1. toServer' = Append(toServer, r) /\ UNCHANGED <<ops, generation>>
      BY <1>7, <2>2 DEF ReceiveReply
    <3>2. r \in Request /\ r.type = "read" /\ r.gen = 0
      BY DEF Request, Read, Part
    <3> HIDE DEF r
    <3>3. TurnsOf(Append(toServer, r), Tail(toPanel), ops)
      BY <1>2, <2>1, <3>2, QueueFacts, AskTurns
    <3> QED BY <1>2, <3>1, <3>3 DEF Turns
  <2>3. CASE m.follow # <<"list">>
    <3>1. StartAll(m.follow)
      BY <1>7, <2>3 DEF ReceiveReply
    <3>2. TurnsOf(toServer', Tail(toPanel), ops')
      BY <1>2, <2>1, <2>3, <3>1, QueueFacts, StartAllTurns
    <3> QED BY <1>2, <3>2 DEF Turns
  <2> QED BY <2>2, <2>3
<1>8. CASE ReceiveRefusal(m) \/ ReceiveSubscribed(m)
  <2>1. UNCHANGED <<ops, toServer>> /\ m.type # "part"
    BY <1>8 DEF ReceiveRefusal, ReceiveSubscribed
  <2> QED BY <1>2, <1>4, <2>1 DEF Turns
<1> QED BY <1>2, <1>5, <1>6, <1>7, <1>8

\* Every step keeps the turns.
LEMMA TurnsStep == ASSUME IInv, Turns, [Next]_vars PROVE Turns'
<1>1. CASE FirstHass \/ Retry \/ Refresh \/ ReloadAfterConflict
  <2>1. PICK initial \in BOOLEAN : StartLoad(initial)
    BY <1>1 DEF FirstHass, Retry, Refresh, ReloadAfterConflict
  <2> QED BY <2>1, StartLoadTurns
<1>2. CASE Reload \/ UNCHANGED vars
  BY <1>2 DEF Turns, Reload, vars
<1> QED BY <1>1, <1>2, ServeTurns, OtherCommitTurns, AskedTurns, ReceiveTurns, PlacesTurns
        DEF Next, Deliver

LEMMA TurnsInit == ASSUME Init PROVE Turns
BY DEF Init, Turns, TurnsOf, InTurn

-----------------------------------------------------------------------------
(***************************************************************************)
(* A panel that nothing disturbs: the inductive invariant.                 *)
(***************************************************************************)

\* No read has failed, no other manager has been in charge, and the panel has not left its
\* first subscription.
Undisturbed == failures = 0 /\ base = 0 /\ subId <= 1

\* A stamp's revision counts fewer commits than its content, or as many; while nothing has
\* failed, no answer says so.
Fine ==
  /\ \A i \in DOMAIN toPanel :
       /\ toPanel[i].type = "part" => toPanel[i].stamp.revision <= toPanel[i].stamp.content
       /\ failures = 0 /\ toPanel[i].type \in {"part", "subscribed"} => toPanel[i].ok
  /\ \A o \in ops : \A p \in DOMAIN o.got : o.got[p].revision <= o.got[p].content
  /\ registry # None => registry.revision <= registry.content

Data == {"assets", "registry"}

\* What the first load reads from the registry.
Core == {"assets", "registry", "statuses"}

\* Requests q and answers r are reads and parts, each of another of P.
Awaits(q, r, P) ==
  /\ \A i \in DOMAIN q :
       /\ q[i].type = "read" /\ q[i].part \in P
       /\ \A j \in DOMAIN q : i # j => q[i].part # q[j].part
       /\ \A j \in DOMAIN r : q[i].part # r[j].part
  /\ \A i \in DOMAIN r :
       /\ r[i].type = "part" /\ r[i].part \in P
       /\ \A j \in DOMAIN r : i # j => r[i].part # r[j].part

Awaited == {p \in Core : \E o \in ops : p \notin DOMAIN o.got}

\* Until the first load has landed, there is nothing but that load.
Unread ==
  /\ assets = None /\ feed = None /\ sub = "none" /\ refusedAt = 0 /\ ~conflict /\ ~initialized
  /\ \A o \in ops : o.kind = "load" /\ o.gen = generation
  /\ Awaits(toServer, toPanel, Awaited)

\* Then the panel subscribes at once, and the subscription is the first request.
Linked ==
  /\ subId = 1 /\ assets # None
  /\ \A i \in DOMAIN toServer : toServer[i].type = "subscribe" => i = 1 /\ feed = None
  /\ \A i \in DOMAIN toPanel :
       /\ toPanel[i].type = "subscribed" => i = 1 /\ sub = "pending" /\ toPanel[i].sub = 1
       /\ toPanel[i].type = "event" => toPanel[i].sub = 1
  /\ feed = None => /\ sub = "pending" /\ toPanel = <<>>
                    /\ toServer # <<>> /\ toServer[1].type = "subscribe"
                    /\ \A o \in ops : Held(o) = {}
  /\ feed # None => /\ feed = [sub |-> 1, revision |-> Live]
                    /\ \/ sub = "active"
                       \/ sub = "pending" /\ toPanel # <<>> /\ toPanel[1].type = "subscribed"

\* The contents under way are in order, and what is shown or got is no newer.
InOrder ==
  /\ InStep(toPanel, content)
  /\ assets # None => Behind(assets, toPanel, content)
  /\ Behind(refusedAt, toPanel, content)
  /\ \A o \in ops : \A p \in Data \cap DOMAIN o.got : Behind(o.got[p].content, toPanel, content)

\* What the newest refresh has got is no older than what it will replace, ...
Newest ==
  \A o \in ops : o.gen = generation => \A p \in Data \cap DOMAIN o.got :
    /\ assets # None => assets <= o.got[p].content
    /\ registry # None => registry.content <= o.got[p].content
    /\ o.kind = "load" => refusedAt <= o.got[p].content

\* ... and if it is out of date, a notice is on its way that will supersede the refresh.
Notices ==
  /\ AllTold(toPanel, content)
  /\ \A o \in ops : o.gen = generation /\ o.kind # "event" =>
       \A p \in Data \cap DOMAIN o.got :
         o.got[p].content < content => Told(toPanel, o.got[p].content)

Steady ==
  /\ registry = None => Unread
  /\ registry # None => Linked /\ Notices
  /\ InOrder /\ Newest

Forward ==
  /\ ~Older(assets', assets)
  /\ conflict /\ ~conflict' /\ sub = "active" => registry'.content >= refusedAt

-----------------------------------------------------------------------------
LEMMA AwaitsRead ==
  ASSUME NEW q \in Seq(Request), NEW r \in Seq(Answer), NEW P, Awaits(q, r, P), q # <<>>,
         NEW m \in Answer, m.type = "part", m.part = Head(q).part
  PROVE  Awaits(Tail(q), Append(r, m), P)
<1> DEFINE p == Tail(q)
           t == Append(r, m)
<1>1. /\ Len(r) \in Nat /\ DOMAIN r = 1..Len(r) /\ DOMAIN t = 1..(Len(r) + 1)
      /\ t[Len(r) + 1] = m /\ \A n \in 1..Len(r) : t[n] = r[n]
  OBVIOUS
<1>2. /\ Len(q) \in Nat /\ Len(q) >= 1 /\ DOMAIN q = 1..Len(q)
      /\ Head(q) = q[1] /\ DOMAIN p = 1..(Len(q) - 1) /\ \A n \in 1..(Len(q) - 1) : p[n] = q[n + 1]
  BY Popped
<1> HIDE DEF p, t
<1>3. \A n \in DOMAIN p : n + 1 \in DOMAIN q /\ n + 1 # 1 /\ p[n] = q[n + 1] /\ n \in Nat
  BY <1>2
<1>4. \A n \in DOMAIN t : (n \in DOMAIN r /\ t[n] = r[n]) \/ (n = Len(r) + 1 /\ n \notin DOMAIN r /\ t[n] = m)
  BY <1>1
<1>5. 1 \in DOMAIN q
  BY <1>2
<1>6. ASSUME NEW i \in DOMAIN p
      PROVE  /\ p[i].type = "read" /\ p[i].part \in P
             /\ \A j \in DOMAIN p : i # j => p[i].part # p[j].part
             /\ \A j \in DOMAIN t : p[i].part # t[j].part
  <2>1. \A j \in DOMAIN p : i # j => i + 1 # j + 1
    BY <1>3
  <2>2. p[i].type = "read" /\ p[i].part \in P /\ \A j \in DOMAIN p : i # j => p[i].part # p[j].part
    BY <1>3, <2>1 DEF Awaits
  <2>3. \A j \in DOMAIN r : p[i].part # r[j].part
    BY <1>3 DEF Awaits
  <2>4. p[i].part # m.part
    BY <1>2, <1>3, <1>5 DEF Awaits
  <2> QED BY <1>4, <2>2, <2>3, <2>4
<1>7. ASSUME NEW i \in DOMAIN t
      PROVE  t[i].type = "part" /\ t[i].part \in P /\ \A j \in DOMAIN t : i # j => t[i].part # t[j].part
  <2>1. m.part \in P /\ \A j \in DOMAIN r : m.part # r[j].part
    BY <1>2, <1>5 DEF Awaits
  <2>2. t[i].type = "part" /\ t[i].part \in P
    BY <1>4, <2>1 DEF Awaits
  <2> QED BY <1>4, <2>1, <2>2 DEF Awaits
<1>8. Awaits(p, t, P)
  BY <1>6, <1>7 DEF Awaits
<1> QED BY <1>8 DEF p, t

LEMMA AwaitsTaken ==
  ASSUME NEW q \in Seq(Request), NEW r \in Seq(Answer), NEW P, Awaits(q, r, P), r # <<>>
  PROVE  /\ Awaits(q, Tail(r), P \ {Head(r).part})
         /\ Head(r).type = "part" /\ Head(r).part \in P
<1> DEFINE t == Tail(r)
<1>1. /\ Len(r) \in Nat /\ Len(r) >= 1 /\ DOMAIN r = 1..Len(r)
      /\ Head(r) = r[1] /\ DOMAIN t = 1..(Len(r) - 1) /\ \A n \in 1..(Len(r) - 1) : t[n] = r[n + 1]
  BY Popped
<1> HIDE DEF t
<1>2. \A n \in DOMAIN t : n + 1 \in DOMAIN r /\ n + 1 # 1 /\ t[n] = r[n + 1] /\ n \in Nat
  BY <1>1
<1>3. 1 \in DOMAIN r
  BY <1>1
<1>4. ASSUME NEW i \in DOMAIN t
      PROVE  /\ t[i].type = "part" /\ t[i].part \in P \ {r[1].part}
             /\ \A j \in DOMAIN t : i # j => t[i].part # t[j].part
  <2>1. \A j \in DOMAIN t : i # j => i + 1 # j + 1
    BY <1>2
  <2>2. \A j \in DOMAIN t : i # j => t[i].part # t[j].part
    BY <1>2, <2>1 DEF Awaits
  <2>3. t[i].type = "part" /\ t[i].part \in P /\ t[i].part # r[1].part
    BY <1>2, <1>3 DEF Awaits
  <2> QED BY <2>2, <2>3
<1>5. ASSUME NEW i \in DOMAIN q
      PROVE  /\ q[i].type = "read" /\ q[i].part \in P \ {r[1].part}
             /\ \A j \in DOMAIN q : i # j => q[i].part # q[j].part
             /\ \A j \in DOMAIN t : q[i].part # t[j].part
  BY <1>2, <1>3 DEF Awaits
<1>6. Awaits(q, t, P \ {r[1].part}) /\ r[1].type = "part" /\ r[1].part \in P
  BY <1>3, <1>4, <1>5 DEF Awaits
<1> QED BY <1>1, <1>6 DEF t

LEMMA AwaitsMore ==
  ASSUME NEW q, NEW r, NEW P, NEW Q, P \subseteq Q, Awaits(q, r, P) PROVE Awaits(q, r, Q)
BY DEF Awaits

LEMMA AwaitsNothing ==
  ASSUME NEW q \in Seq(Request), NEW r \in Seq(Answer), Awaits(q, r, {})
  PROVE  q = <<>> /\ r = <<>>
<1>1. DOMAIN q = {} /\ DOMAIN r = {}
  BY DEF Awaits
<1> QED BY <1>1

LEMMA AwaitsLoad ==
  ASSUME NEW g \in Nat, NEW q, q = <<>>, NEW r, r = <<>>
  PROVE  Awaits(q \o Reads(g, "load"), r, Core)
<1>1. Requests("load") = <<"assets", "registry", "statuses">>
  BY DEF Requests
<1> DEFINE s == Reads(g, "load")
<1>2. /\ s = <<Read(g, "assets"), Read(g, "registry"), Read(g, "statuses")>>
  BY <1>1 DEF Reads
<1>3. DOMAIN s = {1, 2, 3} /\ s[1] = Read(g, "assets") /\ s[2] = Read(g, "registry")
        /\ s[3] = Read(g, "statuses") /\ q \o s = s
  BY <1>2
<1> HIDE DEF s
<1>4. Awaits(s, <<>>, Core)
  BY <1>3, ReadIsRead DEF Awaits, Core
<1> QED BY <1>3, <1>4 DEF s

-----------------------------------------------------------------------------
LEMMA UndisturbedBefore ==
  ASSUME IInv, [Next]_vars, Undisturbed' PROVE Undisturbed
<1>1. failures \in Nat /\ base \in Nat /\ subId \in Nat /\ content \in Nat
  BY QueueFacts DEF IInv, ServerOK
<1>2. failures' = 0 => failures = 0
  <2>1. ASSUME NEW ok, MayFail(ok) PROVE failures' = 0 => failures = 0
    BY <1>1, <2>1 DEF MayFail
  <2>2. CASE Serve
    BY <2>2, ServeShape
  <2>3. CASE PlacesArrive
    BY <2>1, <2>3 DEF PlacesArrive
  <2> QED BY <2>2, <2>3 DEF Next, Deliver, Receive, OtherCommit, Reload, FirstHass, Retry, Refresh,
        ReloadAfterConflict, StartLoad, EnsureSubscription, Disconnect, Connect, Mutate,
        MutateReviewed, Preview, Send, vars
<1>3. base' = 0 => base = 0
  <2>1. CASE Serve
    BY <2>1, ServeShape DEF ReadServed, Noticed, Refused, Dropped, Subscribed, server
  <2>2. CASE Reload
    BY <1>1, <2>2 DEF Reload
  <2> QED BY <2>1, <2>2 DEF Next, Deliver, Receive, PlacesArrive, OtherCommit, FirstHass, Retry,
        Refresh, ReloadAfterConflict, StartLoad, EnsureSubscription, Disconnect, Connect, Mutate,
        MutateReviewed, Preview, Send, vars, server
<1>4. subId' = subId \/ subId' = subId + 1
  <2>1. Subscribe => subId' = subId \/ subId' = subId + 1
    BY DEF Subscribe
  <2>2. ASSUME NEW o \in ops, NEW p, NEW s, NEW ok, Arrive(o, p, s, ok)
        PROVE  subId' = subId \/ subId' = subId + 1
    BY <2>1, <2>2, QueueFacts DEF Arrive, Land, LandLoad, LandStatuses, LandTopology, LandAssets,
       Reject, Op, Kind
  <2>3. CASE Receive
    BY <2>2, <2>3 DEF Receive, ReceivePart, ReceiveEvent, ReceiveReply, ReceiveRefusal,
                      ReceiveSubscribed
  <2>4. CASE PlacesArrive
    BY <2>2, <2>4 DEF PlacesArrive
  <2>5. CASE Serve
    BY <2>5, ServeShape DEF link
  <2>6. CASE EnsureSubscription \/ Disconnect \/ Connect
    BY <2>1, <2>6 DEF EnsureSubscription, Disconnect, Connect
  <2>7. CASE OtherCommit \/ Reload \/ FirstHass \/ Retry \/ Refresh \/ ReloadAfterConflict
               \/ Mutate \/ MutateReviewed \/ Preview \/ UNCHANGED vars
    BY <2>7 DEF OtherCommit, Reload, FirstHass, Retry, Refresh, ReloadAfterConflict, StartLoad,
       Mutate, MutateReviewed, Preview, Send, vars, link
  <2> QED BY <2>3, <2>4, <2>5, <2>6, <2>7 DEF Next, Deliver
<1>5. subId' <= 1 => subId <= 1
  BY <1>1, <1>4
<1> QED BY <1>2, <1>3, <1>5 DEF Undisturbed

-----------------------------------------------------------------------------
(***************************************************************************)
(* Revisions count the commits of one manager, and nothing fails.          *)
(***************************************************************************)

FineStamp(s) == s.revision <= s.content
FineAnswer(m) ==
  /\ m.type = "part" => FineStamp(m.stamp)
  /\ failures' = 0 /\ m.type \in {"part", "subscribed"} => m.ok

LEMMA FineKept ==
  ASSUME Fine, failures' = 0 => failures = 0,
         \A i \in DOMAIN toPanel' :
           (\E k \in DOMAIN toPanel : toPanel'[i] = toPanel[k]) \/ FineAnswer(toPanel'[i]),
         \A o \in ops' : o \in ops \/ \A p \in DOMAIN o.got : FineStamp(o.got[p]),
         registry' = registry \/ FineStamp(registry')
  PROVE  Fine'
BY DEF Fine, FineAnswer, FineStamp

LEMMA CurrentFine == ASSUME IInv PROVE FineStamp(Current) /\ Current \in Stamp
BY CurrentOK DEF IInv, ServerOK, Current, FineStamp

LEMMA ServeFine == ASSUME IInv, Fine, Serve PROVE Fine'
<1>1. /\ failures' = 0 => failures = 0
      /\ UNCHANGED <<ops, registry>> /\ toPanel \in Seq(Answer)
  BY ServeShape, QueueFacts DEF shown
<1>2. ASSUME NEW a \in Answer, toPanel' = Append(toPanel, a), FineAnswer(a) PROVE Fine'
  <2>1. \A i \in DOMAIN toPanel' : (i \in DOMAIN toPanel /\ toPanel'[i] = toPanel[i]) \/ toPanel'[i] = a
    BY <1>1, <1>2, Appended
  <2> QED BY <1>1, <1>2, <2>1, FineKept
<1>3. CASE \E a : ReadServed(a)
  <2>1. PICK a \in Answer : ReadServed(a)
    BY <1>3 DEF ReadServed
  <2>2. FineAnswer(a)
    BY <2>1, CurrentFine DEF ReadServed, FineAnswer
  <2> QED BY <1>2, <2>1, <2>2 DEF ReadServed
<1>4. ASSUME NEW s, Noticed(s) PROVE Fine'
  <2>1. \A i \in DOMAIN toPanel' :
          (i \in DOMAIN toPanel /\ toPanel'[i] = toPanel[i]) \/ (\E k \in DOMAIN s : toPanel'[i] = s[k])
    BY <1>1, <1>4, Added DEF Noticed
  <2>2. \A k \in DOMAIN s : FineAnswer(s[k])
    BY <1>4 DEF Noticed, FineAnswer
  <2> QED BY <1>1, <2>1, <2>2, FineKept
<1>5. CASE \E a : Refused(a)
  <2>1. PICK a \in Answer : Refused(a)
    BY <1>5 DEF Refused
  <2>2. FineAnswer(a)
    BY <2>1 DEF Refused, FineAnswer
  <2> QED BY <1>2, <2>1, <2>2 DEF Refused
<1>6. CASE Dropped
  BY <1>1, <1>6, FineKept DEF Dropped
<1>7. CASE \E a : Subscribed(a)
  <2>1. PICK a \in Answer : Subscribed(a)
    BY <1>7 DEF Subscribed
  <2>2. FineAnswer(a)
    BY <2>1 DEF Subscribed, FineAnswer
  <2> QED BY <1>2, <2>1, <2>2 DEF Subscribed
<1> QED BY <1>3, <1>4, <1>5, <1>6, <1>7, ServeShape

LEMMA OtherCommitFine == ASSUME IInv, Fine, OtherCommit PROVE Fine'
<1>1. PICK s : Noticed(s)
  BY OtherCommitShape
<1>2. toPanel \in Seq(Answer) /\ UNCHANGED <<ops, registry, failures>>
  BY QueueFacts, OtherCommitShape DEF OtherCommit, shown
<1>3. \A i \in DOMAIN toPanel' :
        (i \in DOMAIN toPanel /\ toPanel'[i] = toPanel[i]) \/ (\E k \in DOMAIN s : toPanel'[i] = s[k])
  BY <1>1, <1>2, Added DEF Noticed
<1>4. \A k \in DOMAIN s : FineAnswer(s[k])
  BY <1>1 DEF Noticed, FineAnswer
<1> QED BY <1>2, <1>3, <1>4, FineKept

LEMMA LandFine ==
  ASSUME NEW f, f.kind \in Kind, DOMAIN f.got = Parts(f.kind),
         \A p \in DOMAIN f.got : FineStamp(f.got[p]), Land(f)
  PROVE  registry' = registry \/ FineStamp(registry')
<1>1. f.kind # "assets" => "registry" \in DOMAIN f.got
  BY DEF Parts, Kind
<1> QED BY <1>1 DEF Land, LandLoad, LandStatuses, LandTopology, LandAssets, ShowRegistry, shown, Kind

LEMMA ArriveFine ==
  ASSUME IInv, Fine, NEW o \in ops, NEW part \in Part, NEW stamp \in Stamp, FineStamp(stamp),
         NEW ok \in BOOLEAN, Arrive(o, part, stamp, ok)
  PROVE  /\ \A a \in ops' : a \in ops \/ \A p \in DOMAIN a.got : FineStamp(a.got[p])
         /\ registry' = registry \/ FineStamp(registry')
<1>1. o \in Op /\ o.kind \in Kind
  BY QueueFacts DEF Op
<1>2. PICK f :
        /\ WithPart(f, o, part, stamp)
        /\ \/ ~ok /\ ops' = ops \ {o} /\ Reject(o)
           \/ /\ ok /\ DOMAIN f.got # Parts(o.kind) /\ ops' = (ops \ {o}) \cup {f}
              /\ UNCHANGED <<shown, conflict, sub, subId, toServer, shell, generation>>
           \/ ok /\ DOMAIN f.got = Parts(o.kind) /\ ops' = ops \ {o} /\ Land(f)
  BY <1>1, ArriveShape
<1>3. \A p \in DOMAIN f.got : FineStamp(f.got[p])
  BY <1>2 DEF WithPart, Fine, FineStamp
<1>4. f.kind = o.kind BY <1>2 DEF WithPart
<1> QED BY <1>1, <1>2, <1>3, <1>4, LandFine DEF shown, Reject

LEMMA StartNew ==
  ASSUME NEW kind, Start(kind)
  PROVE  /\ generation' = generation + 1
         /\ \A o \in ops' : o \in ops \/ (o.got = <<>> /\ o.gen = generation + 1 /\ o.kind = kind)
BY DEF Start

LEMMA StartAllNew ==
  ASSUME NEW kinds, StartAll(kinds)
  PROVE  \A o \in ops' : o \in ops \/ o.got = <<>>
BY DEF StartAll

LEMMA ReceiveFine == ASSUME IInv, Fine, Receive PROVE Fine'
<1>1. PICK m : m = Head(toPanel)
  OBVIOUS
<1>2. /\ toPanel # <<>> /\ toPanel' = Tail(toPanel) /\ UNCHANGED <<content, failures>>
      /\ ReceivePart(m) \/ ReceiveEvent(m) \/ ReceiveReply(m) \/ ReceiveRefusal(m)
           \/ ReceiveSubscribed(m)
  BY <1>1 DEF Receive, server
<1>3. /\ m \in Answer /\ m = toPanel[1] /\ 1 \in DOMAIN toPanel
      /\ \A i \in DOMAIN toPanel' : \E k \in DOMAIN toPanel : toPanel'[i] = toPanel[k]
  BY <1>1, <1>2, Taken, QueueFacts
<1>4. ASSUME \A o \in ops' : o \in ops \/ \A p \in DOMAIN o.got : FineStamp(o.got[p]),
             registry' = registry \/ FineStamp(registry')
      PROVE  Fine'
  BY <1>2, <1>3, <1>4, FineKept
<1>5. ASSUME \A o \in ops' : o \in ops \/ o.got = <<>>, registry' = registry PROVE Fine'
  BY <1>4, <1>5, NothingGot
<1>6. CASE ReceivePart(m)
  <2>1. m.type = "part" /\ m.stamp \in Stamp /\ m.ok \in BOOLEAN /\ FineStamp(m.stamp) /\ m.part \in Part
    BY <1>3, <1>6 DEF ReceivePart, Answer, Fine, FineStamp
  <2>2. CASE UNCHANGED <<ops, registry>>
    BY <1>4, <2>2
  <2>3. CASE \E o \in ops : o.gen = m.gen /\ Arrive(o, m.part, m.stamp, m.ok)
    BY <1>4, <2>1, <2>3, ArriveFine
  <2> QED BY <1>6, <2>2, <2>3 DEF ReceivePart, shown
<1>7. CASE ReceiveEvent(m)
  <2>1. registry' = registry BY <1>7 DEF ReceiveEvent, shown
  <2>2. \A o \in ops' : o \in ops \/ o.got = <<>>
    BY <1>7, StartNew DEF ReceiveEvent
  <2> QED BY <1>4, <1>5, <2>1, <2>2
<1>8. CASE ReceiveReply(m)
  <2>1. registry' = registry BY <1>8 DEF ReceiveReply, shown
  <2>2. \A o \in ops' : o \in ops \/ o.got = <<>>
    BY <1>8, StartAllNew DEF ReceiveReply
  <2> QED BY <1>4, <1>5, <2>1, <2>2
<1>9. CASE ReceiveRefusal(m) \/ ReceiveSubscribed(m)
  BY <1>4, <1>9 DEF ReceiveRefusal, ReceiveSubscribed, shown
<1> QED BY <1>2, <1>6, <1>7, <1>8, <1>9

LEMMA FineStep == ASSUME IInv, Fine, [Next]_vars PROVE Fine'
<1>1. CASE PlacesArrive
  <2>1. PICK o \in ops, ok \in BOOLEAN :
          /\ Arrive(o, "places", Current, ok) /\ MayFail(ok) /\ toPanel' = toPanel
    BY <1>1 DEF PlacesArrive
  <2>2. failures' = 0 => failures = 0
    BY <2>1, CurrentFine DEF MayFail, IInv, ServerOK
  <2>3. "places" \in Part BY DEF Part
  <2>4. /\ \A a \in ops' : a \in ops \/ \A p \in DOMAIN a.got : FineStamp(a.got[p])
        /\ registry' = registry \/ FineStamp(registry')
    BY <2>1, <2>3, CurrentFine, ArriveFine
  <2> QED BY <2>1, <2>2, <2>4, FineKept
<1>2. CASE FirstHass \/ Retry \/ Refresh \/ ReloadAfterConflict
  <2>1. UNCHANGED <<toPanel, failures, registry>> /\ Start("load")
    BY <1>2 DEF FirstHass, Retry, Refresh, ReloadAfterConflict, StartLoad, shown
  <2>2. \A o \in ops' : o \in ops \/ o.got = <<>>
    BY <2>1, StartNew
  <2> QED BY <2>1, <2>2, FineKept, NothingGot
<1>3. CASE UNCHANGED <<toPanel, failures, registry, ops>>
  BY <1>3, FineKept
<1>4. CASE Reload \/ EnsureSubscription \/ Disconnect \/ Connect \/ Mutate \/ MutateReviewed
             \/ Preview \/ UNCHANGED vars
  BY <1>3, <1>4 DEF Reload, EnsureSubscription, Disconnect, Connect, Mutate, MutateReviewed, Preview,
                    Send, vars, shown
<1> QED BY <1>1, <1>2, <1>4, ServeFine, OtherCommitFine, ReceiveFine DEF Next, Deliver

LEMMA FineInit == ASSUME Init PROVE Fine
BY DEF Init, Fine

-----------------------------------------------------------------------------
(***************************************************************************)
(* The steps of the server, and what the panel asks for.                   *)
(***************************************************************************)

LEMMA ShownFacts ==
  ASSUME IInv
  PROVE  /\ registry \in Stamp \cup {None} /\ assets \in Nat \cup {None}
         /\ refusedAt \in Nat /\ refusedAt <= content /\ None \notin Nat
         /\ registry # None => registry \in Stamp /\ registry.content \in Nat /\ registry.revision \in Nat
         /\ \A o \in ops : \A p \in DOMAIN o.got : o.got[p] \in Stamp /\ o.got[p].content \in Nat
<1>1. \A o \in ops : \A p \in DOMAIN o.got : o.got[p] \in Stamp
  <2>1. \A o \in ops : o.got \in Gots
    BY QueueFacts DEF Op
  <2> QED BY <2>1 DEF Gots
<1>2. \A s \in Stamp : s.content \in Nat /\ s.revision \in Nat
  BY DEF Stamp
<1>3. registry \in Stamp \cup {None} /\ assets \in Nat \cup {None}
  BY DEF IInv, PanelOK
<1>4. refusedAt \in Nat /\ refusedAt <= content
  BY DEF IInv, ClientOK, ServerOK
<1>5. None \notin Nat
  BY PanelAssumption
<1> QED BY <1>1, <1>2, <1>3, <1>4, <1>5

LEMMA InOrderKept ==
  ASSUME IInv, InOrder, InStep(toPanel', content'),
         \A c \in Nat : Behind(c, toPanel, content) => Behind(c, toPanel', content'),
         assets' \in {None, assets} \/ Behind(assets', toPanel', content'),
         refusedAt' = refusedAt \/ Behind(refusedAt', toPanel', content'),
         \A o \in ops' : o \in ops \/ \A p \in Data \cap DOMAIN o.got :
                                        Behind(o.got[p].content, toPanel', content')
  PROVE  InOrder'
<1>1. assets' # None => Behind(assets', toPanel', content')
  BY ShownFacts DEF InOrder
<1>2. Behind(refusedAt', toPanel', content')
  BY ShownFacts DEF InOrder
<1>3. \A o \in ops' : \A p \in Data \cap DOMAIN o.got : Behind(o.got[p].content, toPanel', content')
  BY ShownFacts DEF InOrder
<1> QED BY <1>1, <1>2, <1>3 DEF InOrder

LEMMA NewestKept ==
  ASSUME Newest, UNCHANGED <<assets, registry, refusedAt>>,
         \A o \in ops' : o.gen = generation' /\ Data \cap DOMAIN o.got # {}
                           => o \in ops /\ o.gen = generation
  PROVE  Newest'
BY DEF Newest

LEMMA NoticesKept ==
  ASSUME IInv, Notices, AllTold(toPanel', content'),
         \A c \in Nat : Told(toPanel, c) => Told(toPanel', c),
         content' = content \/ (content' = content + 1 /\ Told(toPanel', content)),
         InOrder,
         \A o \in ops' : o.gen = generation' /\ Data \cap DOMAIN o.got # {}
                           => o \in ops /\ o.gen = generation
  PROVE  Notices'
<1>1. ASSUME NEW o \in ops', o.gen = generation', o.kind # "event", NEW p \in Data \cap DOMAIN o.got,
             o.got[p].content < content'
      PROVE  Told(toPanel', o.got[p].content)
  <2>1. o \in ops /\ o.gen = generation
    BY <1>1
  <2>2. o.got[p].content \in Nat /\ content \in Nat
    BY <2>1, ShownFacts, QueueFacts
  <2>3. CASE o.got[p].content < content
    BY <1>1, <2>1, <2>2, <2>3 DEF Notices
  <2>4. CASE ~(o.got[p].content < content)
    <3>1. o.got[p].content <= content
      BY <2>1 DEF InOrder, Behind
    <3>2. o.got[p].content = content /\ content' # content
      BY <1>1, <2>2, <2>4, <3>1
    <3> QED BY <3>2
  <2> QED BY <2>3, <2>4
<1> QED BY <1>1 DEF Notices

\* toPanel is longer by others.
LEMMA Extended ==
  ASSUME NEW r \in Seq(Answer), NEW s \in Seq(Answer), NEW t, t = r \o s
  PROVE  /\ t \in Seq(Answer)
         /\ \A i \in DOMAIN t : (i \in DOMAIN r /\ t[i] = r[i]) \/ \E k \in DOMAIN s : t[i] = s[k]
         /\ r # <<>> => t # <<>> /\ t[1] = r[1]
OBVIOUS

LEMMA LinkedKept ==
  ASSUME Linked, feed # None, UNCHANGED <<feed, sub, subId>>, assets' # None,
         \A i \in DOMAIN toServer' : toServer'[i].type # "subscribe",
         \A i \in DOMAIN toPanel' :
           \/ i \in DOMAIN toPanel /\ toPanel'[i] = toPanel[i]
           \/ toPanel'[i].type \notin {"subscribed", "event"}
           \/ toPanel'[i].type = "event" /\ toPanel'[i].sub = 1,
         toPanel # <<>> => toPanel' # <<>> /\ toPanel'[1] = toPanel[1]
  PROVE  Linked'
BY DEF Linked

\* The answers of a linked panel after one that carries no content, or that of now.
AnswersKept ==
  /\ InStep(toPanel', content')
  /\ \A c \in Nat : Behind(c, toPanel, content) => Behind(c, toPanel', content')
  /\ registry # None /\ feed # None =>
       /\ AllTold(toPanel', content')
       /\ \A c \in Nat : Told(toPanel, c) => Told(toPanel', c)
       /\ content' = content \/ (content' = content + 1 /\ Told(toPanel', content))

LEMMA StampedAnswer ==
  ASSUME IInv, Steady, NEW a \in Answer, Stamped(a), a.stamp = Current,
         toPanel' = Append(toPanel, a), content' = content
  PROVE  AnswersKept
<1>1. a.stamp.content = content /\ content \in Nat /\ toPanel \in Seq(Answer)
  BY CurrentOK, QueueFacts DEF IInv
<1>2. InStep(toPanel, content) /\ (registry # None => AllTold(toPanel, content))
  BY DEF Steady, InOrder, Notices
<1>3. /\ InStep(Append(toPanel, a), content)
      /\ \A c \in Nat : /\ Behind(c, toPanel, content) => Behind(c, Append(toPanel, a), content)
                        /\ Told(toPanel, c) => Told(Append(toPanel, a), c)
      /\ AllTold(toPanel, content) => AllTold(Append(toPanel, a), content)
  BY <1>1, <1>2, StepStamped
<1> QED BY <1>2, <1>3 DEF AnswersKept

LEMMA PlainAnswer ==
  ASSUME IInv, Steady, NEW a \in Answer, ~Stamped(a), a.type # "event",
         toPanel' = Append(toPanel, a), content' = content
  PROVE  AnswersKept
<1>1. content \in Nat /\ toPanel \in Seq(Answer) /\ content <= content
  BY QueueFacts
<1>2. InStep(toPanel, content) /\ (registry # None => AllTold(toPanel, content))
  BY DEF Steady, InOrder, Notices
<1> DEFINE s == <<a>>
<1>3. s \in Seq(Answer) /\ toPanel' = toPanel \o s /\ \A k \in DOMAIN s : s[k] = a
  BY <1>1, OneMore
<1> HIDE DEF s
<1>4. /\ InStep(toPanel \o s, content)
      /\ \A c \in Nat : /\ Behind(c, toPanel, content) => Behind(c, toPanel \o s, content)
                        /\ Told(toPanel, c) => Told(toPanel \o s, c)
      /\ AllTold(toPanel, content) => AllTold(toPanel \o s, content)
  <2>1. \A k \in DOMAIN s : ~Stamped(s[k]) /\ s[k].type # "event"
    BY <1>3
  <2> QED BY <1>1, <1>2, <1>3, <2>1, StepTold
<1> QED BY <1>2, <1>3, <1>4 DEF AnswersKept

LEMMA NoticedAnswers ==
  ASSUME IInv, Steady, Undisturbed, NEW s, Noticed(s) PROVE AnswersKept
<1>1. /\ content \in Nat /\ content + 1 \in Nat /\ toPanel \in Seq(Answer) /\ s \in Seq(Answer)
      /\ content' = content + 1 /\ content <= content + 1 /\ content < content + 1 /\ base = 0
      /\ toPanel' = toPanel \o s
  BY QueueFacts DEF Noticed, Undisturbed
<1>2. InStep(toPanel, content) /\ (registry # None => AllTold(toPanel, content))
  BY DEF Steady, InOrder, Notices
<1>3. feed # None => feed.revision = Live
  BY DEF Steady, Unread, Linked
<1>4. \A k \in DOMAIN s : ~Stamped(s[k]) /\ (s[k].type = "event" => s[k].revision = content + 1)
  BY <1>1, <1>3 DEF Noticed, Stamped
<1>5. /\ InStep(toPanel \o s, content + 1)
      /\ \A c \in Nat : /\ Behind(c, toPanel, content) => Behind(c, toPanel \o s, content + 1)
                        /\ Told(toPanel, c) => Told(toPanel \o s, c)
      /\ (\E k \in DOMAIN s : s[k].type = "event") =>
            /\ Told(toPanel \o s, content)
            /\ AllTold(toPanel, content) => AllTold(toPanel \o s, content + 1)
  BY <1>1, <1>2, <1>4, StepTold
<1>6. feed # None => \E k \in DOMAIN s : s[k].type = "event"
  BY DEF Noticed
<1> QED BY <1>1, <1>2, <1>5, <1>6 DEF AnswersKept

\* What server's steps leave to the panel.
PanelSame == UNCHANGED <<ops, generation, shown, shell, conflict, refusedAt, sub, subId>>

LEMMA ServedOrder ==
  ASSUME IInv, Steady, AnswersKept, PanelSame
  PROVE  /\ InOrder' /\ Newest' /\ Forward
         /\ registry # None /\ feed # None => Notices'
<1>1. /\ UNCHANGED <<assets, registry, refusedAt, ops, generation, conflict>>
      /\ assets \in Nat \cup {None} /\ None \notin Nat
  BY ShownFacts DEF PanelSame, shown
<1>2. InOrder'
  BY <1>1, InOrderKept DEF AnswersKept, Steady
<1>3. Newest'
  BY <1>1, NewestKept DEF Steady
<1>4. registry # None /\ feed # None => Notices'
  BY <1>1, NoticesKept DEF Steady, AnswersKept
<1>5. Forward
  BY <1>1 DEF Forward, Older
<1> QED BY <1>2, <1>3, <1>4, <1>5

\* As long as the subscription is not served, there is nothing to be told.
LEMMA NoNotices ==
  ASSUME \A i \in DOMAIN toPanel' : toPanel'[i].type # "part", \A o \in ops' : Held(o) = {}
  PROVE  Notices'
<1>1. \A o \in ops' : Data \cap DOMAIN o.got = {}
  BY DEF Held, Data
<1> QED BY <1>1 DEF Notices, AllTold

LEMMA ServeSteady ==
  ASSUME IInv, Steady, Undisturbed, Undisturbed', Serve
  PROVE  Steady' /\ Forward
<1>1. /\ toServer # <<>> /\ toServer' = Tail(toServer)
      /\ UNCHANGED <<ops, generation, shown, shell, conflict, refusedAt, link>>
      /\ toServer \in Seq(Request) /\ toPanel \in Seq(Answer)
  BY ServeShape, QueueFacts
<1>2. PanelSame /\ UNCHANGED <<registry, assets, sub, subId, ops, generation, refusedAt, conflict, initialized>>
  BY <1>1 DEF PanelSame, link, shown, shell
<1>3. /\ 1 \in DOMAIN toServer /\ Head(toServer) = toServer[1]
      /\ \A n \in DOMAIN toServer' : n + 1 \in DOMAIN toServer /\ n + 1 # 1 /\ toServer'[n] = toServer[n + 1]
      /\ (Head(toServer).type = "subscribe" => Head(toServer).sub \in 1..subId)
  <2>1. /\ 1 \in DOMAIN toServer /\ Head(toServer) = toServer[1]
        /\ \A n \in DOMAIN toServer' : n \in Nat /\ n + 1 \in DOMAIN toServer /\ 1 < n + 1
                                        /\ toServer'[n] = toServer[n + 1]
    BY <1>1, Taken
  <2> QED BY <2>1, QueueFacts DEF RequestsOK
<1>4. CASE registry = None
  <2>1. Unread
    BY <1>4 DEF Steady
  <2>2. Head(toServer).type = "read"
    BY <1>3, <2>1 DEF Unread, Awaits
  <2>3. PICK a \in Answer : ReadServed(a)
    BY <2>2, ServeShape DEF ReadServed, Refused, Dropped, Subscribed
  <2>4. a.type = "part" /\ Stamped(a) /\ a.stamp = Current /\ toPanel' = Append(toPanel, a)
        /\ a.part = Head(toServer).part /\ UNCHANGED <<content, feed>>
    BY <2>3 DEF ReadServed, Stamped, server
  <2>5. AnswersKept
    BY <2>4, StampedAnswer
  <2>6. InOrder' /\ Newest' /\ Forward
    BY <1>2, <2>5, ServedOrder
  <2>7. Awaits(Tail(toServer), Append(toPanel, a), Awaited)
    BY <1>1, <2>1, <2>4, AwaitsRead DEF Unread
  <2>8. Awaited' = Awaited
    BY <1>2 DEF Awaited
  <2>9. Unread'
    BY <1>1, <1>2, <2>1, <2>4, <2>7, <2>8 DEF Unread
  <2> QED BY <1>2, <1>4, <2>6, <2>9 DEF Steady
<1>5. CASE registry # None
  <2>1. Linked /\ Notices /\ assets # None
    BY <1>5 DEF Steady, Linked
  <2>2. \A n \in DOMAIN toServer' : toServer'[n].type # "subscribe"
    BY <1>3, <2>1 DEF Linked
  <2>3. CASE feed = None
    <3>1. Head(toServer).type = "subscribe" /\ toPanel = <<>> /\ sub = "pending" /\ subId = 1
          /\ \A o \in ops : Held(o) = {}
      BY <1>3, <2>1, <2>3 DEF Linked
    <3>2. PICK a \in Answer : Subscribed(a)
      BY <3>1, ServeShape DEF ReadServed, Refused, Dropped, Subscribed
    <3>3. a.ok /\ a.sub = 1 /\ feed' = [sub |-> 1, revision |-> Live] /\ toPanel' = Append(toPanel, a)
          /\ a.type = "subscribed" /\ UNCHANGED content
      BY <1>3, <3>1, <3>2 DEF Subscribed, Undisturbed
    <3>4. AnswersKept
      <4>1. ~Stamped(a) /\ a.type # "event" BY <3>3 DEF Stamped
      <4> QED BY <3>3, <4>1, PlainAnswer
    <3>5. InOrder' /\ Newest' /\ Forward
      BY <1>2, <3>4, ServedOrder
    <3>6. DOMAIN toPanel' = {1} /\ toPanel'[1] = a
      BY <3>1, <3>3
    <3>7. Notices'
      BY <1>2, <3>1, <3>3, <3>6, NoNotices
    <3>8. feed' # None
      BY <3>3, PanelAssumption
    <3>9. Linked'
      <4>1. toPanel' # <<>> BY <3>6
      <4>2. subId' = 1 /\ assets' # None /\ sub' = "pending"
        BY <1>2, <2>1, <3>1
      <4> QED BY <2>2, <3>3, <3>6, <3>8, <4>1, <4>2 DEF Linked
    <3> QED BY <1>2, <1>5, <3>5, <3>7, <3>9 DEF Steady
  <2>4. CASE feed # None
    <3>1. Head(toServer).type # "subscribe" /\ feed = [sub |-> 1, revision |-> Live]
      BY <1>3, <2>1, <2>4 DEF Linked
    <3>2. ASSUME AnswersKept, feed' = feed,
                 \A i \in DOMAIN toPanel' :
                   \/ i \in DOMAIN toPanel /\ toPanel'[i] = toPanel[i]
                   \/ toPanel'[i].type \notin {"subscribed", "event"}
                   \/ toPanel'[i].type = "event" /\ toPanel'[i].sub = 1,
                 toPanel # <<>> => toPanel' # <<>> /\ toPanel'[1] = toPanel[1]
          PROVE  Steady' /\ Forward
      <4>1. InOrder' /\ Newest' /\ Forward /\ Notices'
        BY <1>2, <1>5, <2>4, <3>2, ServedOrder
      <4>2. Linked'
        BY <1>2, <2>1, <2>2, <2>4, <3>2, LinkedKept
      <4> QED BY <1>2, <1>5, <4>1, <4>2 DEF Steady
    <3>3. ASSUME NEW a \in Answer, Stamped(a), a.stamp = Current, toPanel' = Append(toPanel, a),
                 content' = content, feed' = feed
          PROVE  Steady' /\ Forward
      <4>1. AnswersKept
        BY <3>3, StampedAnswer
      <4>2. \A i \in DOMAIN toPanel' : (i \in DOMAIN toPanel /\ toPanel'[i] = toPanel[i]) \/ toPanel'[i] = a
        BY <1>1, <3>3, Appended
      <4>3. toPanel # <<>> => toPanel' # <<>> /\ toPanel'[1] = toPanel[1]
        BY <1>1, <3>3
      <4> QED BY <3>2, <3>3, <4>1, <4>2, <4>3 DEF Stamped
    <3>4. CASE \E a : ReadServed(a)
      BY <3>3, <3>4 DEF ReadServed, Stamped, server
    <3>5. CASE \E a : Refused(a)
      BY <3>3, <3>5 DEF Refused, Stamped
    <3>6. CASE \E s : Noticed(s)
      <4>1. PICK s \in Seq(Answer) : Noticed(s)
        BY <3>6 DEF Noticed
      <4>2. AnswersKept /\ toPanel' = toPanel \o s /\ feed' = feed
            /\ \A k \in DOMAIN s : s[k].type \in {"event", "reply"} /\ (s[k].type = "event" => s[k].sub = 1)
        BY <3>1, <4>1, NoticedAnswers DEF Noticed
      <4>3. /\ \A i \in DOMAIN toPanel' :
                 (i \in DOMAIN toPanel /\ toPanel'[i] = toPanel[i]) \/ (\E k \in DOMAIN s : toPanel'[i] = s[k])
            /\ toPanel # <<>> => toPanel' # <<>> /\ toPanel'[1] = toPanel[1]
        BY <1>1, <4>2, Extended
      <4> QED BY <3>2, <4>2, <4>3
    <3>7. CASE Dropped
      <4>1. UNCHANGED <<toPanel, content, feed>>
        BY <3>7 DEF Dropped
      <4>2. AnswersKept
        BY <4>1 DEF AnswersKept, Steady, InOrder, Notices
      <4> QED BY <3>2, <4>1, <4>2
    <3>8. ~\E a : Subscribed(a)
      BY <3>1 DEF Subscribed
    <3> QED BY <3>4, <3>5, <3>6, <3>7, <3>8, ServeShape
  <2> QED BY <2>3, <2>4
<1> QED BY <1>4, <1>5

LEMMA OtherCommitSteady ==
  ASSUME IInv, Steady, Undisturbed, OtherCommit
  PROVE  Steady' /\ Forward
<1>1. PICK s \in Seq(Answer) : Noticed(s) /\ \A k \in DOMAIN s : s[k].type = "event"
  BY OtherCommitShape DEF Noticed
<1>2. PanelSame /\ UNCHANGED <<toServer, registry, assets, sub, subId, ops, generation, refusedAt, conflict, initialized>>
      /\ toPanel \in Seq(Answer)
  BY OtherCommitShape, QueueFacts DEF PanelSame, link, shown, shell
<1>3. AnswersKept /\ toPanel' = toPanel \o s /\ feed' = feed
  BY <1>1, NoticedAnswers DEF Noticed
<1>4. InOrder' /\ Newest' /\ Forward /\ (registry # None /\ feed # None => Notices')
  BY <1>2, <1>3, ServedOrder
<1>5. feed = None => toPanel' = toPanel
  <2>1. feed = None => DOMAIN s = {} BY <1>1 DEF Noticed
  <2> QED BY <1>2, <1>3, <2>1
<1>6. CASE registry = None
  <2>1. Unread /\ Awaited' = Awaited
    BY <1>2, <1>6 DEF Steady, Awaited
  <2>2. toPanel' = toPanel
    BY <1>5, <2>1 DEF Unread
  <2>3. Unread'
    BY <1>2, <1>3, <2>1, <2>2 DEF Unread
  <2> QED BY <1>2, <1>4, <1>6, <2>3 DEF Steady
<1>7. CASE registry # None /\ feed = None
  <2>1. Linked /\ toPanel' = toPanel
    BY <1>5, <1>7 DEF Steady
  <2>2. Linked'
    BY <1>2, <1>3, <2>1 DEF Linked
  <2>3. DOMAIN toPanel' = {} /\ \A o \in ops' : Held(o) = {}
    BY <1>2, <1>7, <2>1 DEF Linked
  <2>4. Notices'
    BY <2>3, NoNotices
  <2> QED BY <1>2, <1>4, <1>7, <2>2, <2>4 DEF Steady
<1>8. CASE registry # None /\ feed # None
  <2>1. Linked /\ assets' # None /\ feed = [sub |-> 1, revision |-> Live]
    BY <1>2, <1>8 DEF Steady, Linked
  <2>2. \A k \in DOMAIN s : s[k].type = "event" /\ s[k].sub = 1
    BY <1>1, <2>1 DEF Noticed
  <2>3. /\ \A i \in DOMAIN toPanel' :
             (i \in DOMAIN toPanel /\ toPanel'[i] = toPanel[i]) \/ (\E k \in DOMAIN s : toPanel'[i] = s[k])
        /\ toPanel # <<>> => toPanel' # <<>> /\ toPanel'[1] = toPanel[1]
    BY <1>2, <1>3, Extended
  <2>4. \A i \in DOMAIN toServer' : toServer'[i].type # "subscribe"
    BY <1>2, <1>8, <2>1 DEF Linked
  <2>5. Linked'
    BY <1>2, <1>3, <1>8, <2>1, <2>2, <2>3, <2>4, LinkedKept
  <2> QED BY <1>2, <1>4, <1>8, <2>5 DEF Steady
<1> QED BY <1>6, <1>7, <1>8

\* Requests are added at the end, and no subscription.
LEMMA LinkedAsked ==
  ASSUME IInv, Linked, NEW r \in Seq(Request), toServer' = toServer \o r,
         \A k \in DOMAIN r : r[k].type # "subscribe",
         UNCHANGED <<feed, sub, subId, toPanel>>, assets' # None,
         \A o \in ops' : o \in ops \/ o.got = <<>>
  PROVE  Linked'
<1>1. /\ \A i \in DOMAIN toServer' :
           (i \in DOMAIN toServer /\ toServer'[i] = toServer[i]) \/ (\E k \in DOMAIN r : toServer'[i] = r[k])
      /\ toServer # <<>> => toServer' # <<>> /\ toServer'[1] = toServer[1]
  <2>1. toServer \in Seq(Request)
    BY QueueFacts
  <2> QED BY <2>1
<1>2. \A o \in ops' : o \in ops \/ Held(o) = {}
  BY NothingGot DEF Held
<1> QED BY <1>1, <1>2 DEF Linked

LEMMA AskedMore ==
  ASSUME IInv, Steady, registry # None, NEW r \in Seq(Request), toServer' = toServer \o r,
         \A k \in DOMAIN r : r[k].type # "subscribe",
         UNCHANGED <<content, feed, sub, subId, toPanel, assets, registry, refusedAt, conflict>>,
         \A o \in ops' : o \in ops \/ o.got = <<>>,
         \A o \in ops' : o.gen = generation' => o.got = <<>> \/ (o \in ops /\ o.gen = generation)
  PROVE  Steady' /\ Forward
<1>1. Linked /\ Notices /\ InOrder /\ Newest /\ assets # None
  BY DEF Steady, Linked
<1>2. Linked'
  BY <1>1, LinkedAsked
<1>3. \A o \in ops' : o.gen = generation' /\ Data \cap DOMAIN o.got # {}
                        => o \in ops /\ o.gen = generation
  BY NothingGot
<1>4. Newest'
  BY <1>1, <1>3, NewestKept
<1>5. AllTold(toPanel', content') /\ InStep(toPanel', content')
  BY <1>1 DEF Notices, InOrder
<1>6. Notices'
  BY <1>1, <1>3, <1>5, NoticesKept
<1>7. InOrder'
  BY <1>1, <1>5, InOrderKept, NothingGot
<1>8. Forward
  BY ShownFacts DEF Forward, Older
<1> QED BY <1>2, <1>4, <1>6, <1>7, <1>8 DEF Steady

LEMMA StartLoadSteady ==
  ASSUME IInv, Steady, NEW initial \in BOOLEAN, StartLoad(initial)
  PROVE  Steady' /\ Forward
<1>1. /\ Start("load") /\ "load" \in Kind /\ ~Loading /\ generation \in Nat /\ generation + 1 \in Nat
      /\ UNCHANGED <<content, feed, sub, subId, toPanel, assets, registry, refusedAt, conflict, initialized>>
  BY QueueFacts DEF StartLoad, Kind, server, shown, link
<1>2. /\ generation' = generation + 1
      /\ \A o \in ops' : o \in ops \/ (o.got = <<>> /\ o.gen = generation + 1 /\ o.kind = "load")
      /\ \A o \in ops : o.gen # generation'
  BY <1>1, StartNew, QueueFacts
<1>3. PICK r \in Seq(Request) :
        /\ r = Reads(generation + 1, "load") /\ toServer' = toServer \o r
        /\ \A k \in DOMAIN r : r[k].type = "read"
  BY <1>1, ReadsFit DEF Start
<1>4. CASE registry # None
  BY <1>1, <1>2, <1>3, <1>4, AskedMore
<1>5. CASE registry = None
  <2>1. Unread /\ ops = {}
    BY <1>1, <1>5 DEF Steady, Unread, Loading
  <2>2. toServer = <<>> /\ toPanel = <<>>
    <3>1. Awaited = {} BY <2>1 DEF Awaited
    <3> QED BY <2>1, <3>1, QueueFacts, AwaitsNothing DEF Unread
  <2>3. Awaits(toServer', toPanel', Core)
    BY <1>1, <1>3, <2>2, AwaitsLoad
  <2>4. Awaited' = Core
    <3> DEFINE o == [gen |-> generation', kind |-> "load", got |-> <<>>]
    <3>1. o \in ops' /\ o.got = <<>>
      BY <1>1 DEF Start
    <3> HIDE DEF o
    <3> QED BY <3>1, NothingGot DEF Awaited
  <2>5. Unread'
    BY <1>1, <1>2, <2>1, <2>3, <2>4 DEF Unread
  <2>6. \A o \in ops' : Data \cap DOMAIN o.got = {}
    BY <1>2, <2>1, NothingGot
  <2>7. InOrder' /\ Newest'
    <3>1. InOrder /\ InStep(toPanel', content')
      BY <1>1 DEF Steady, InOrder
    <3> QED BY <1>1, <2>6, <3>1, InOrderKept DEF Newest
  <2>8. Forward
    BY <1>1, ShownFacts DEF Forward, Older
  <2> QED BY <1>1, <1>5, <2>5, <2>7, <2>8 DEF Steady
<1> QED BY <1>4, <1>5

\* Nothing that counts has changed.
LEMMA SameSteady ==
  ASSUME IInv, Steady,
         UNCHANGED <<content, feed, sub, subId, toPanel, toServer, ops, generation, assets, registry,
                     refusedAt, conflict, initialized>>
  PROVE  Steady' /\ Forward
<1>1. Steady'
  BY DEF Steady, Unread, Awaited, Linked, InOrder, Newest, Notices
<1>2. Forward
  BY ShownFacts DEF Forward, Older
<1> QED BY <1>1, <1>2

LEMMA AskedSteady ==
  ASSUME IInv, Steady, Undisturbed, Undisturbed',
         \/ EnsureSubscription \/ Disconnect \/ Connect \/ Mutate \/ MutateReviewed \/ Preview
  PROVE  Steady' /\ Forward
<1>1. /\ UNCHANGED <<content, feed, toPanel, assets, registry, refusedAt, conflict, initialized,
                     ops, generation>>
      /\ registry # None => sub # "none" /\ subId = 1
      /\ registry = None => sub = "none" /\ ~initialized
  <2>1. UNCHANGED <<content, feed, toPanel, assets, registry, refusedAt, conflict, initialized,
                     ops, generation>>
    BY DEF EnsureSubscription, Disconnect, Connect, Mutate, MutateReviewed, Preview, Send, server,
           shown, shell
  <2> QED BY <2>1 DEF Steady, Linked, Unread
<1>2. ASSUME NEW m \in Request, m.type # "subscribe", toServer' = Append(toServer, m), registry # None,
             UNCHANGED <<sub, subId>>
      PROVE  Steady' /\ Forward
  <2> DEFINE r == <<m>>
  <2>1. r \in Seq(Request) /\ toServer' = toServer \o r /\ \A k \in DOMAIN r : r[k] = m
    BY <1>2, QueueFacts, OneMore
  <2> HIDE DEF r
  <2> QED BY <1>1, <1>2, <2>1, AskedMore
<1>3. ASSUME NEW based \in Stamp \cup {None}, NEW alone \in BOOLEAN, NEW follow \in Follow,
             Send(based, alone, follow)
      PROVE  Steady' /\ Forward
  <2> DEFINE m == [type |-> "mutate", based |-> based, alone |-> alone, follow |-> follow]
  <2>1. m \in Request /\ m.type = "mutate" /\ toServer' = Append(toServer, m) /\ registry # None
        /\ UNCHANGED <<sub, subId>>
    BY <1>3 DEF Request, Send, Usable, link
  <2> HIDE DEF m
  <2> QED BY <1>2, <2>1
<1>4. CASE Mutate
  <2>1. PICK follow \in Follow : Send(basis, Writing = {}, follow)
    BY <1>4 DEF Mutate
  <2>2. basis \in Stamp \cup {None} /\ (Writing = {}) \in BOOLEAN
    BY DEF IInv, ClientOK
  <2> QED BY <1>3, <2>1, <2>2
<1>5. CASE MutateReviewed
  <2>1. PICK follow \in Follow : Send(reviewed, FALSE, follow)
    BY <1>5 DEF MutateReviewed
  <2>2. reviewed \in Stamp \cup {None}
    BY DEF IInv, ClientOK
  <2> QED BY <1>3, <2>1, <2>2
<1>6. CASE Preview
  <2> DEFINE m == Read(0, "preview")
  <2>1. m \in Request /\ m.type = "read" /\ toServer' = Append(toServer, m) /\ registry # None
        /\ UNCHANGED <<sub, subId>>
    BY <1>6 DEF Request, Preview, Read, Part, Usable, link
  <2> HIDE DEF m
  <2> QED BY <1>2, <2>1
<1>7. CASE EnsureSubscription
  BY <1>1, <1>7 DEF EnsureSubscription
<1>8. CASE Disconnect
  <2>1. registry = None /\ sub' = "none" /\ sub = "none" /\ toServer' = toServer
    <3>1. subId' = subId + 1 /\ subId' <= 1
      BY <1>8 DEF Disconnect, Undisturbed
    <3> QED BY <1>1, <1>8, <3>1 DEF Disconnect
  <2>2. Steady'
    BY <1>1, <2>1 DEF Steady, Unread, Awaited, InOrder, Newest
  <2>3. Forward
    BY <1>1, ShownFacts DEF Forward, Older
  <2> QED BY <2>2, <2>3
<1>9. CASE Connect
  <2>1. UNCHANGED <<sub, subId, toServer>>
    BY <1>1, <1>9 DEF Connect, Subscribe
  <2> QED BY <1>1, <2>1, SameSteady
<1> QED BY <1>4, <1>5, <1>6, <1>7, <1>8, <1>9

-----------------------------------------------------------------------------
(***************************************************************************)
(* The answers of a panel that has read the registry.                      *)
(***************************************************************************)

\* Nothing under way carries more than the newest refresh has got already, unless that is
\* told first.
LEMMA HeadNotNewer ==
  ASSUME IInv, Turns, Steady, registry # None, toPanel # <<>>, Stamped(Head(toPanel)),
         NEW o \in ops, o.gen = generation, NEW p \in Data \cap DOMAIN o.got,
         ~(Head(toPanel).type = "part" /\ Head(toPanel).gen = o.gen)
  PROVE  Head(toPanel).stamp.content <= o.got[p].content
<1>1. /\ toPanel \in Seq(Answer) /\ content \in Nat /\ Head(toPanel) \in Answer
      /\ Head(toPanel) = toPanel[1] /\ 1 \in DOMAIN toPanel
      /\ o.got[p].content \in Nat /\ DOMAIN o.got \subseteq Parts(o.kind)
  <2>1. toPanel \in Seq(Answer) BY QueueFacts
  <2> QED BY <2>1, Taken, QueueFacts, ShownFacts
<1>2. InStep(toPanel, content) /\ Notices
  BY DEF Steady, InOrder
<1>3. CASE o.kind = "event"
  <2>1. "registry" \in DOMAIN o.got
    BY <1>1, <1>3 DEF Parts, Data
  <2>2. StatusesNext(toServer, toPanel, 0, o.gen)
    BY <1>3, <2>1 DEF Turns, TurnsOf, Paired
  <2>3. toPanel[1].type # "event" /\ \A x : ~Brings(toPanel[1], o.gen, x)
    BY <1>1 DEF Stamped, Brings
  <2>4. ASSUME NEW j \in DOMAIN toPanel, 0 < j, Brings(toPanel[j], o.gen, "statuses"),
               \A k \in DOMAIN toPanel : 0 < k /\ k < j => toPanel[k].type = "event"
        PROVE  FALSE
    <3>1. j # 1 BY <2>3, <2>4
    <3>2. j \in Nat /\ 0 < 1 /\ 1 < j BY <1>1, <2>4, <3>1
    <3> QED BY <1>1, <2>3, <2>4, <3>2
  <2>5. 0 < 1 OBVIOUS
  <2> QED BY <1>1, <2>2, <2>3, <2>4, <2>5 DEF StatusesNext
<1>4. CASE o.kind # "event"
  <2>1. CASE o.got[p].content < content
    <3>1. Told(toPanel, o.got[p].content)
      BY <1>2, <1>4, <2>1 DEF Notices
    <3> QED BY <1>1, <1>2, <3>1, StepTaken
  <2>2. CASE ~(o.got[p].content < content)
    <3>1. Head(toPanel).stamp.content <= content /\ Head(toPanel).stamp.content \in Nat
      BY <1>1, <1>2, StampIsNat DEF InStep
    <3> QED BY <1>1, <2>2, <3>1
  <2> QED BY <2>1, <2>2
<1> QED BY <1>3, <1>4

\* A notice of the commit that the newest refresh has missed is neither ignored nor joined to
\* another refresh.
LEMMA NoticeSupersedes ==
  ASSUME IInv, Turns, Fine, Steady, registry # None, feed # None, toPanel # <<>>,
         NEW m, m = Head(toPanel), m.type = "event",
         NEW o \in ops, o.gen = generation, o.kind # "event", NEW p \in Data \cap DOMAIN o.got,
         m.revision = o.got[p].content + 1
  PROVE  ~(\/ sub # "active" \/ m.sub # subId
           \/ registry # None /\ m.revision <= registry.revision
           \/ EventRunning)
<1>1. /\ toPanel \in Seq(Answer) /\ toServer \in Seq(Request) /\ content \in Nat
      /\ m = toPanel[1] /\ 1 \in DOMAIN toPanel
      /\ o.got[p].content \in Nat /\ generation \in Nat
  <2>1. toPanel \in Seq(Answer) BY QueueFacts
  <2> QED BY <2>1, Taken, QueueFacts, ShownFacts
<1>2. sub = "active" /\ m.sub = subId
  BY <1>1 DEF Steady, Linked
<1>3. ~(m.revision <= registry.revision)
  <2>1. registry.content <= o.got[p].content
    BY DEF Steady, Newest
  <2>2. registry.revision <= registry.content
    BY DEF Fine
  <2>3. registry.content \in Nat /\ registry.revision \in Nat
    BY ShownFacts
  <2> QED BY <1>1, <2>1, <2>2, <2>3
<1>4. ~EventRunning
  <2> SUFFICES ASSUME NEW e \in ops, e.kind = "event" PROVE FALSE
    BY DEF EventRunning
  <2>1. Held(o) # {}
    BY DEF Held, Data
  <2>2. NoneBefore(toServer, toPanel, o.gen) /\ Paired(toServer, toPanel, e)
    BY <2>1 DEF Turns, TurnsOf
  <2>3. e.gen \in Nat /\ e.gen # 0 /\ ~(o.gen <= e.gen)
    <3>1. e # o BY <2>2
    <3>2. e.gen # o.gen BY <3>1, QueueFacts
    <3>3. e.gen \in 1..generation BY QueueFacts
    <3> QED BY <1>1, <3>2, <3>3
  <2>4. \A i \in DOMAIN toServer : \A x : toServer[i] # Read(e.gen, x)
    BY <2>2, <2>3, ReadIsRead DEF NoneBefore
  <2>5. \A i \in DOMAIN toPanel : \A x : ~Brings(toPanel[i], e.gen, x)
    BY <2>2, <2>3 DEF NoneBefore, Brings
  <2>6. CASE "registry" \in DOMAIN e.got
    <3>1. StatusesNext(toServer, toPanel, 0, e.gen)
      BY <2>2, <2>6 DEF Paired
    <3>2. toServer # <<>> => 1 \in DOMAIN toServer
      BY <1>1
    <3> QED BY <2>4, <2>5, <3>1, <3>2 DEF StatusesNext
  <2>7. CASE "registry" \notin DOMAIN e.got
    BY <2>2, <2>4, <2>5, <2>7 DEF Paired
  <2> QED BY <2>6, <2>7
<1> QED BY <1>2, <1>3, <1>4

-----------------------------------------------------------------------------
\* The answers that a linked panel may find.
LinkedAnswers(r) ==
  /\ \A i \in DOMAIN r :
       /\ r[i].type = "subscribed" => i = 1 /\ sub = "pending" /\ r[i].sub = 1
       /\ r[i].type = "event" => r[i].sub = 1
  /\ feed = None => sub = "pending" /\ r = <<>>
  /\ feed # None => \/ sub = "active"
                    \/ sub = "pending" /\ r # <<>> /\ r[1].type = "subscribed"

LEMMA LinkedMoved ==
  ASSUME Linked, LinkedAnswers(toPanel)', UNCHANGED <<feed, subId, toServer>>, assets' # None,
         feed = None => \A o \in ops' : Held(o) = {}
  PROVE  Linked'
BY DEF Linked, LinkedAnswers

LEMMA LinkedTaken ==
  ASSUME Linked, feed # None, toPanel \in Seq(Answer), toPanel # <<>>, toPanel' = Tail(toPanel),
         feed' = feed,
         IF Head(toPanel).type = "subscribed" THEN sub' = "active" ELSE sub' = sub
  PROVE  LinkedAnswers(toPanel)'
<1>1. /\ 1 \in DOMAIN toPanel /\ Head(toPanel) = toPanel[1]
      /\ \A n \in DOMAIN toPanel' : n \in Nat /\ n + 1 \in DOMAIN toPanel /\ 1 < n + 1 /\ n + 1 # 1
                                      /\ toPanel'[n] = toPanel[n + 1]
  BY Taken
<1>2. \A n \in DOMAIN toPanel' : toPanel'[n].type # "subscribed"
                                   /\ (toPanel'[n].type = "event" => toPanel'[n].sub = 1)
  BY <1>1 DEF Linked
<1>3. sub' = "active"
  BY <1>1 DEF Linked
<1> QED BY <1>2, <1>3 DEF LinkedAnswers

\* An answer is taken that lands nothing.
LEMMA TakenMore ==
  ASSUME IInv, Steady, registry # None, feed # None, toPanel # <<>>, toPanel' = Tail(toPanel),
         UNCHANGED <<content, feed, subId, registry>>,
         IF Head(toPanel).type = "subscribed" THEN sub' = "active" ELSE sub' = sub,
         NEW r \in Seq(Request), toServer' = toServer \o r,
         \A k \in DOMAIN r : r[k].type # "subscribe",
         assets' = assets \/ (assets' \in Nat /\ Behind(assets', toPanel', content')),
         refusedAt' = refusedAt \/ Behind(refusedAt', toPanel', content'),
         \A o \in ops' : o \in ops \/ o.got = <<>>,
         \A o \in ops' : o.gen = generation' => \A p \in Data \cap DOMAIN o.got :
           /\ assets' <= o.got[p].content /\ registry.content <= o.got[p].content
           /\ o.kind = "load" => refusedAt' <= o.got[p].content
           /\ o.kind # "event" /\ o.got[p].content < content => Told(toPanel', o.got[p].content)
  PROVE  Steady'
<1>1. /\ Linked /\ Notices /\ InOrder /\ Newest /\ assets # None
      /\ toPanel \in Seq(Answer) /\ content \in Nat /\ toServer \in Seq(Request)
      /\ InStep(toPanel, content)
  BY QueueFacts DEF Steady, Linked, InOrder
<1>2. /\ InStep(toPanel', content')
      /\ \A c \in Nat : Behind(c, toPanel, content) => Behind(c, toPanel', content')
      /\ AllTold(toPanel', content')
  BY <1>1, StepTaken DEF Notices
<1>3. InOrder'
  BY <1>1, <1>2, InOrderKept, NothingGot
<1>4. Newest' /\ Notices'
  BY <1>2 DEF Newest, Notices
<1>5. assets' # None
  BY <1>1, ShownFacts
<1>6. Linked'
  <2>1. LinkedAnswers(toPanel)'
    BY <1>1, LinkedTaken
  <2>2. \A i \in DOMAIN toServer' :
          (i \in DOMAIN toServer /\ toServer'[i] = toServer[i]) \/ (\E k \in DOMAIN r : toServer'[i] = r[k])
    BY <1>1, Added
  <2>3. \A i \in DOMAIN toServer' : toServer'[i].type # "subscribe"
    BY <1>1, <2>2 DEF Linked
  <2> QED BY <1>1, <1>5, <2>1, <2>3 DEF Linked, LinkedAnswers
<1> QED BY <1>3, <1>4, <1>6 DEF Steady

\* What a complete refresh shows: its own contents, if it is the newest.
LEMMA LandShape ==
  ASSUME NEW f, f.kind \in Kind, DOMAIN f.got = Parts(f.kind), Land(f)
  PROVE  /\ generation' = generation
         /\ f.gen # generation => UNCHANGED <<assets, registry, conflict, toServer, sub, subId>>
         /\ f.gen = generation =>
              /\ \E p \in Data \cap DOMAIN f.got : assets' = f.got[p].content
              /\ registry' = registry \/ ("registry" \in DOMAIN f.got /\ registry' = f.got["registry"])
              /\ IF f.kind = "load"
                 THEN Subscribe /\ ~conflict'
                        /\ "registry" \in DOMAIN f.got /\ registry' = f.got["registry"]
                 ELSE UNCHANGED <<conflict, toServer, sub, subId>>
<1>1. CASE f.kind = "load"
  <2>1. "registry" \in DOMAIN f.got /\ "assets" \in Data \cap DOMAIN f.got /\ LandLoad(f)
    BY <1>1 DEF Parts, Data, Land
  <2> QED BY <1>1, <2>1 DEF LandLoad, Lands, shown
<1>2. CASE f.kind = "event" \/ f.kind = "bindings"
  <2>1. "registry" \in Data \cap DOMAIN f.got /\ LandStatuses(f)
    BY <1>2 DEF Parts, Data, Land
  <2> QED BY <1>2, <2>1 DEF LandStatuses, Lands, ShowRegistry
<1>3. CASE f.kind = "topology"
  <2>1. "registry" \in Data \cap DOMAIN f.got /\ LandTopology(f)
    BY <1>3 DEF Parts, Data, Land
  <2> QED BY <1>3, <2>1 DEF LandTopology, Lands, ShowRegistry
<1>4. CASE f.kind = "assets"
  <2>1. "assets" \in Data \cap DOMAIN f.got /\ LandAssets(f)
    BY <1>4 DEF Parts, Data, Land
  <2> QED BY <1>4, <2>1 DEF LandAssets, Lands
<1> QED BY <1>1, <1>2, <1>3, <1>4 DEF Kind

\* The first load that lands finds nothing else under way, and subscribes.
LEMMA FirstLanding ==
  ASSUME IInv, Unread, Undisturbed', toServer = <<>>, toPanel' = <<>>, ops' = {},
         NEW f \in Op, f.kind = "load", f.gen = generation, DOMAIN f.got = Parts(f.kind), Land(f),
         \A p \in DOMAIN f.got : f.got[p] \in Stamp,
         \A p \in Data \cap DOMAIN f.got : f.got[p].content <= content,
         UNCHANGED <<feed, content, refusedAt>>
  PROVE  Steady' /\ Forward
<1>1. /\ \E p \in Data \cap DOMAIN f.got : assets' = f.got[p].content
      /\ Subscribe /\ ~conflict' /\ "registry" \in DOMAIN f.got /\ registry' = f.got["registry"]
  BY LandShape DEF Kind
<1>2. /\ registry' # None /\ assets' \in Nat /\ assets' # None /\ assets' <= content
      /\ content \in Nat /\ subId \in Nat
  BY <1>1, QueueFacts, PanelAssumption DEF Stamp
<1>3. subId' = 1 /\ sub' = "pending"
  BY <1>1, <1>2 DEF Subscribe, Unread, Undisturbed
<1>4. DOMAIN toServer' = {1} /\ toServer'[1].type = "subscribe" /\ toServer' # <<>>
  <2> DEFINE m == [type |-> "subscribe", sub |-> subId']
  <2>1. m.type = "subscribe" /\ toServer' = Append(<<>>, m)
    BY <1>1 DEF Subscribe, Unread
  <2> HIDE DEF m
  <2> QED BY <2>1
<1>5. DOMAIN toPanel' = {}
  OBVIOUS
<1>6. Linked'
  BY <1>2, <1>3, <1>4, <1>5 DEF Linked, Unread
<1>7. InOrder' /\ Newest' /\ Notices'
  BY <1>2, <1>5 DEF InOrder, InStep, Behind, Newest, Notices, AllTold, Unread
<1>8. Forward
  BY <1>1 DEF Forward, Older, Unread
<1> QED BY <1>2, <1>6, <1>7, <1>8 DEF Steady

\* A part arrives before anything has been read.
LEMMA UnreadArrives ==
  ASSUME IInv, Steady, registry = None, Undisturbed',
         NEW o \in ops, NEW part \in Part, NEW stamp \in Stamp, NEW f, WithPart(f, o, part, stamp),
         \/ /\ DOMAIN f.got # Parts(o.kind) /\ ops' = (ops \ {o}) \cup {f}
            /\ UNCHANGED <<shown, conflict, sub, subId, toServer, shell, generation>>
         \/ DOMAIN f.got = Parts(o.kind) /\ ops' = ops \ {o} /\ Land(f),
         UNCHANGED <<feed, content, refusedAt>>, toPanel' \in Seq(Answer),
         Awaits(toServer, toPanel', Awaited \ {part}),
         InStep(toPanel', content),
         \A c \in Nat : Behind(c, toPanel, content) => Behind(c, toPanel', content),
         part \in Data => Behind(stamp.content, toPanel', content)
  PROVE  Steady' /\ Forward
<1>1. Unread /\ InOrder /\ Newest
  BY DEF Steady
<1>2. /\ o.kind = "load" /\ o.gen = generation /\ ops = {o} /\ toServer \in Seq(Request)
      /\ f \in Op /\ f.kind = "load" /\ f.gen = generation /\ DOMAIN f.got = DOMAIN o.got \cup {part}
      /\ \A p \in DOMAIN f.got : f.got[p] \in Stamp /\ f.got[p].content \in Nat
  BY <1>1, QueueFacts DEF Unread, WithPart, OpsOK, Stamp
<1>3. \A p \in Data \cap DOMAIN f.got : Behind(f.got[p].content, toPanel', content)
  <2>1. ASSUME NEW p \in Data \cap DOMAIN f.got, p # part
        PROVE  Behind(f.got[p].content, toPanel', content)
    <3>1. p \in Data \cap DOMAIN o.got /\ f.got[p] = o.got[p]
      BY <1>2, <2>1 DEF WithPart
    <3> QED BY <1>1, <1>2, <3>1 DEF InOrder
  <2>2. part \in Data => Behind(f.got[part].content, toPanel', content)
    BY <1>2 DEF WithPart
  <2> QED BY <2>1, <2>2
<1>4. CASE /\ DOMAIN f.got # Parts(o.kind) /\ ops' = (ops \ {o}) \cup {f}
           /\ UNCHANGED <<shown, conflict, sub, subId, toServer, shell, generation>>
  <2>1. ops' = {f} /\ UNCHANGED <<registry, assets, initialized>>
    BY <1>2, <1>4 DEF shown, shell
  <2>2. Awaited \ {part} \subseteq Awaited'
    BY <1>2, <2>1 DEF Awaited
  <2>3. Awaits(toServer', toPanel', Awaited')
    BY <1>4, <2>2, AwaitsMore
  <2>4. Unread'
    BY <1>1, <1>2, <1>4, <2>1, <2>3 DEF Unread
  <2>5. InOrder'
    BY <1>1, <1>3, <2>1, InOrderKept
  <2>6. Newest'
    BY <1>1, <1>2, <1>4, <2>1 DEF Newest, Unread
  <2>7. Forward
    BY <1>1, <1>4, <2>1 DEF Forward, Older, Unread
  <2> QED BY <2>1, <2>4, <2>5, <2>6, <2>7 DEF Steady
<1>5. CASE DOMAIN f.got = Parts(o.kind) /\ ops' = ops \ {o} /\ Land(f)
  <2>1. Core \subseteq DOMAIN f.got
    BY <1>2, <1>5 DEF Core, Parts
  <2>2. Awaited \ {part} = {}
    BY <1>2, <2>1 DEF Awaited
  <2>3. toServer = <<>> /\ toPanel' = <<>>
    BY <1>2, <2>2, AwaitsNothing
  <2>4. ops' = {}
    BY <1>2, <1>5
  <2>5. \A p \in Data \cap DOMAIN f.got : f.got[p].content <= content
    BY <1>3 DEF Behind
  <2> QED BY <1>1, <1>2, <1>5, <2>3, <2>4, <2>5, FirstLanding
<1> QED BY <1>4, <1>5

\* A later landing puts nothing older on show, and asks for nothing.
LEMMA LaterLanding ==
  ASSUME IInv, Steady, registry # None,
         NEW f, f.kind \in Kind, DOMAIN f.got = Parts(f.kind), Land(f),
         \A p \in DOMAIN f.got : f.got[p] \in Stamp /\ f.got[p].content \in Nat,
         f.gen = generation => \A p \in Data \cap DOMAIN f.got :
           /\ assets <= f.got[p].content /\ Behind(f.got[p].content, toPanel', content')
           /\ f.kind = "load" => refusedAt <= f.got[p].content
  PROVE  /\ UNCHANGED <<toServer, sub, subId, generation>> /\ registry' # None /\ assets' # None
         /\ f.gen # generation => UNCHANGED <<assets, registry>>
         /\ assets' = assets \/ Behind(assets', toPanel', content')
         /\ Forward
<1>1. /\ Linked /\ assets # None /\ assets \in Nat /\ refusedAt \in Nat
      /\ sub # "none" /\ None \notin Nat /\ None \notin Stamp
  <2>1. assets \in Nat /\ refusedAt \in Nat /\ Linked /\ assets # None
    BY ShownFacts DEF Steady, Linked
  <2>2. None \notin Nat /\ None \notin Stamp
    BY PanelAssumption DEF Stamp
  <2> QED BY <2>1, <2>2 DEF Linked
<1>2. CASE f.gen # generation
  BY <1>1, <1>2, LandShape DEF Forward, Older
<1>3. CASE f.gen = generation
  <2>1. /\ generation' = generation
        /\ \E p \in Data \cap DOMAIN f.got : assets' = f.got[p].content
        /\ registry' = registry \/ ("registry" \in DOMAIN f.got /\ registry' = f.got["registry"])
        /\ IF f.kind = "load"
           THEN Subscribe /\ ~conflict' /\ "registry" \in DOMAIN f.got /\ registry' = f.got["registry"]
           ELSE UNCHANGED <<conflict, toServer, sub, subId>>
    BY <1>3, LandShape
  <2>2. UNCHANGED <<toServer, sub, subId>>
    BY <1>1, <2>1 DEF Subscribe
  <2>3. assets' \in Nat /\ assets <= assets' /\ Behind(assets', toPanel', content')
    BY <1>3, <2>1
  <2>4. registry' # None
    BY <1>1, <2>1
  <2>5. conflict /\ ~conflict' => registry'.content >= refusedAt
    <3>1. "registry" \in Data BY DEF Data
    <3>2. f.kind = "load" => refusedAt <= registry'.content /\ registry'.content \in Nat
      BY <1>3, <2>1, <3>1
    <3>3. f.kind # "load" => conflict' = conflict
      BY <2>1
    <3> QED BY <1>1, <3>2, <3>3
  <2>6. Forward
    BY <1>1, <2>3, <2>5 DEF Forward, Older
  <2> QED BY <1>1, <1>3, <2>1, <2>2, <2>3, <2>4, <2>6
<1> QED BY <1>2, <1>3

\* Content c, once read, is in order with answers to come.
Placed(c) ==
  /\ Behind(c, toPanel', content')
  /\ c < content' => Told(toPanel', c)

\* Content c replaces what is shown by nothing older.
Replaces(c, o) ==
  assets <= c /\ registry.content <= c /\ (o.kind = "load" => refusedAt <= c)

\* A part arrives at a linked panel.
LEMMA LinkedArrives ==
  ASSUME IInv, Steady, registry # None,
         NEW o \in ops, NEW part \in Part, NEW stamp \in Stamp, NEW f, WithPart(f, o, part, stamp),
         \/ /\ DOMAIN f.got # Parts(o.kind) /\ ops' = (ops \ {o}) \cup {f}
            /\ UNCHANGED <<shown, conflict, sub, subId, toServer, shell, generation>>
         \/ DOMAIN f.got = Parts(o.kind) /\ ops' = ops \ {o} /\ Land(f),
         UNCHANGED <<feed, content, refusedAt>>,
         sub' = sub => LinkedAnswers(toPanel)', feed = None => part = "places",
         InStep(toPanel', content'), AllTold(toPanel', content'),
         \A c \in Nat : /\ Behind(c, toPanel, content) => Behind(c, toPanel', content')
                        /\ Told(toPanel, c) => Told(toPanel', c),
         part \in Data => Placed(stamp.content) /\ (o.gen = generation => Replaces(stamp.content, o))
  PROVE  Steady' /\ Forward
<1>1. /\ Linked /\ Notices /\ InOrder /\ Newest
      /\ o \in Op /\ o.kind \in Kind /\ assets # None /\ content \in Nat
      /\ None \notin Nat /\ assets \in Nat /\ registry.content \in Nat /\ refusedAt \in Nat
  BY QueueFacts, ShownFacts DEF Steady, Linked, Op
<1>2. /\ f.kind = o.kind /\ f.gen = o.gen /\ DOMAIN f.got = DOMAIN o.got \cup {part}
      /\ \A p \in DOMAIN f.got : f.got[p] \in Stamp /\ f.got[p].content \in Nat
      /\ \A p \in DOMAIN f.got : p # part => p \in DOMAIN o.got /\ f.got[p] = o.got[p]
      /\ part \in DOMAIN f.got => f.got[part] = stamp
  BY DEF WithPart, Stamp
<1>3. ASSUME NEW p \in Data \cap DOMAIN f.got
      PROVE  /\ Behind(f.got[p].content, toPanel', content')
             /\ o.gen = generation => Replaces(f.got[p].content, o)
             /\ o.gen = generation /\ o.kind # "event" /\ f.got[p].content < content'
                  => Told(toPanel', f.got[p].content)
  <2>1. CASE p = part
    BY <1>2, <2>1 DEF Placed
  <2>2. CASE p # part
    <3>1. p \in Data \cap DOMAIN o.got /\ f.got[p] = o.got[p] /\ f.got[p].content \in Nat
      BY <1>2, <2>2
    <3> QED BY <1>1, <3>1 DEF InOrder, Newest, Notices, Replaces
  <2> QED BY <2>1, <2>2
<1>4. CASE /\ DOMAIN f.got # Parts(o.kind) /\ ops' = (ops \ {o}) \cup {f}
           /\ UNCHANGED <<shown, conflict, sub, subId, toServer, shell, generation>>
  <2>1. UNCHANGED <<registry, assets>>
    BY <1>4 DEF shown
  <2>2. InOrder'
    BY <1>1, <1>3, <1>4, <2>1, InOrderKept
  <2>3. Newest'
    BY <1>1, <1>2, <1>3, <1>4, <2>1 DEF Newest, Replaces
  <2>4. Notices'
    BY <1>1, <1>2, <1>3, <1>4, ShownFacts DEF Notices
  <2>5. feed = None => \A a \in ops' : Held(a) = {}
    BY <1>1, <1>2, <1>4 DEF Linked, Held
  <2>6. Linked'
    BY <1>1, <1>4, <2>1, <2>5, LinkedMoved
  <2>7. Forward
    BY <1>1, <1>4, <2>1 DEF Forward, Older
  <2> QED BY <2>1, <2>2, <2>3, <2>4, <2>6, <2>7 DEF Steady
<1>5. CASE DOMAIN f.got = Parts(o.kind) /\ ops' = ops \ {o} /\ Land(f)
  <2>1. f.gen = generation => \A p \in Data \cap DOMAIN f.got :
           /\ assets <= f.got[p].content /\ Behind(f.got[p].content, toPanel', content')
           /\ f.kind = "load" => refusedAt <= f.got[p].content
    BY <1>2, <1>3 DEF Replaces
  <2>2. /\ UNCHANGED <<toServer, sub, subId, generation>> /\ registry' # None /\ assets' # None
        /\ f.gen # generation => UNCHANGED <<assets, registry>>
        /\ assets' = assets \/ Behind(assets', toPanel', content')
        /\ Forward
    BY <1>1, <1>2, <1>5, <2>1, LaterLanding
  <2>3. InOrder'
    BY <1>1, <1>5, <2>2, InOrderKept
  <2>4. Newest' /\ Notices'
    <3>1. CASE f.gen = generation
      <4>1. \A a \in ops' : a.gen # generation'
        BY <1>2, <1>5, <2>2, <3>1, QueueFacts
      <4> QED BY <4>1 DEF Newest, Notices
    <3>2. CASE f.gen # generation
      BY <1>1, <1>5, <2>2, <3>2, ShownFacts DEF Newest, Notices
    <3> QED BY <3>1, <3>2
  <2>5. feed = None => \A a \in ops' : Held(a) = {}
    BY <1>1, <1>5 DEF Linked
  <2>6. Linked'
    BY <1>1, <2>2, <2>5, LinkedMoved
  <2> QED BY <2>2, <2>3, <2>4, <2>6 DEF Steady
<1> QED BY <1>4, <1>5

\* Floors, areas, presets and texts arrive.
LEMMA PlacesSteady ==
  ASSUME IInv, Steady, Undisturbed, Undisturbed', PlacesArrive
  PROVE  Steady' /\ Forward
<1>1. PICK o \in ops, ok \in BOOLEAN :
        /\ o.kind = "load" /\ Arrive(o, "places", Current, ok) /\ toPanel' = toPanel /\ MayFail(ok)
        /\ UNCHANGED <<feed, content, refusedAt>>
  BY DEF PlacesArrive, server
<1>2. /\ o \in Op /\ Current \in Stamp /\ "places" \in Part /\ "places" \notin Data /\ "places" \notin Core
      /\ toPanel \in Seq(Answer)
  BY QueueFacts, CurrentFine DEF Part, Data, Core
<1>3. ok
  BY <1>1 DEF MayFail, Undisturbed
<1>4. PICK f :
        /\ WithPart(f, o, "places", Current)
        /\ \/ ~ok /\ ops' = ops \ {o} /\ Reject(o)
           \/ /\ ok /\ DOMAIN f.got # Parts(o.kind) /\ ops' = (ops \ {o}) \cup {f}
              /\ UNCHANGED <<shown, conflict, sub, subId, toServer, shell, generation>>
           \/ ok /\ DOMAIN f.got = Parts(o.kind) /\ ops' = ops \ {o} /\ Land(f)
  BY <1>1, <1>2, ArriveShape
<1>5. InOrder /\ InStep(toPanel, content)
  BY DEF Steady, InOrder
<1>6. CASE registry = None
  <2>1. Awaits(toServer, toPanel', Awaited \ {"places"})
    <3>1. Awaited \ {"places"} = Awaited
      BY <1>2 DEF Awaited
    <3> QED BY <1>1, <1>6, <3>1 DEF Steady, Unread
  <2> QED BY <1>1, <1>2, <1>3, <1>4, <1>5, <1>6, <2>1, UnreadArrives
<1>7. CASE registry # None
  <2>1. Linked /\ AllTold(toPanel, content)
    BY <1>7 DEF Steady, Notices
  <2>2. ASSUME sub' = sub PROVE LinkedAnswers(toPanel)'
    BY <1>1, <2>1, <2>2 DEF Linked, LinkedAnswers
  <2> QED BY <1>1, <1>2, <1>3, <1>4, <1>5, <1>7, <2>1, <2>2, LinkedArrives
<1> QED BY <1>6, <1>7

\* Requests r have been sent, and no subscription.
Asks(r) == toServer' = toServer \o r /\ \A k \in DOMAIN r : r[k].type # "subscribe"

LEMMA NothingAsked == ASSUME toServer \in Seq(Request), UNCHANGED toServer PROVE \E r \in Seq(Request) : Asks(r)
<1>1. <<>> \in Seq(Request) /\ toServer \o <<>> = toServer /\ DOMAIN <<>> = {}
  OBVIOUS
<1>2. Asks(<<>>)
  BY <1>1 DEF Asks
<1> QED BY <1>1, <1>2

LEMMA OneAsked ==
  ASSUME toServer \in Seq(Request), NEW a \in Request, a.type # "subscribe", toServer' = Append(toServer, a)
  PROVE  \E r \in Seq(Request) : Asks(r)
<1> DEFINE r == <<a>>
<1>1. r \in Seq(Request) /\ Append(toServer, a) = toServer \o r /\ \A k \in DOMAIN r : r[k] = a
  BY OneMore
<1> HIDE DEF r
<1>2. Asks(r)
  BY <1>1 DEF Asks
<1> QED BY <1>1, <1>2

\* A refresh asks for its parts, and so do several.
LEMMA StartAsks ==
  ASSUME generation \in Nat, NEW kind \in Kind, Start(kind)
  PROVE  /\ generation < generation'
         /\ \E r \in Seq(Request) : Asks(r)
<1>1. generation + 1 \in Nat /\ toServer' = toServer \o Reads(generation + 1, kind)
      /\ generation' = generation + 1
  BY DEF Start
<1>2. PICK r \in Seq(Request) : r = Reads(generation + 1, kind) /\ \A k \in DOMAIN r : r[k].type = "read"
  BY <1>1, ReadsFit
<1>3. Asks(r)
  BY <1>1, <1>2 DEF Asks
<1> QED BY <1>1, <1>3

LEMMA StartAllAsks ==
  ASSUME generation \in Nat, NEW kinds \in Follow, kinds # <<"list">>, StartAll(kinds)
  PROVE  /\ generation < generation'
         /\ \E r \in Seq(Request) : Asks(r)
<1>1. CASE Len(kinds) = 1
  <2>1. kinds[1] \in Kind /\ DOMAIN kinds = {1}
    BY <1>1, PanelAssumption DEF Kind
  <2>2. generation < generation' /\ toServer' = toServer \o Reads(generation + 1, kinds[1])
        /\ generation + 1 \in Nat
    BY <1>1 DEF StartAll
  <2>3. PICK r \in Seq(Request) : r = Reads(generation + 1, kinds[1])
                                    /\ \A k \in DOMAIN r : r[k].type = "read"
    BY <2>1, <2>2, ReadsFit
  <2>4. Asks(r)
    BY <2>2, <2>3 DEF Asks
  <2> QED BY <2>2, <2>4
<1>2. CASE kinds = <<"bindings", "topology", "assets">>
  <2>1. generation + 1 \in Nat /\ generation + 2 \in Nat /\ generation + 3 \in Nat
        /\ "bindings" \in Kind /\ "topology" \in Kind /\ "assets" \in Kind
    BY DEF Kind
  <2>2. PICK a \in Seq(Request) : a = Reads(generation + 1, "bindings")
                                    /\ \A k \in DOMAIN a : a[k].type = "read"
    BY <2>1, ReadsFit
  <2>3. PICK b \in Seq(Request) : b = Reads(generation + 2, "topology")
                                    /\ \A k \in DOMAIN b : b[k].type = "read"
    BY <2>1, ReadsFit
  <2>4. PICK c \in Seq(Request) : c = Reads(generation + 3, "assets")
                                    /\ \A k \in DOMAIN c : c[k].type = "read"
    BY <2>1, ReadsFit
  <2>5. generation' = generation + 3 /\ toServer' = toServer \o (a \o b \o c)
    <3>1. Len(kinds) = 3 /\ kinds[1] = "bindings" /\ kinds[2] = "topology" /\ kinds[3] = "assets"
      BY <1>2
    <3> QED BY <2>2, <2>3, <2>4, <3>1 DEF StartAll
  <2> DEFINE r == a \o b
             s == r \o c
  <2>6. r \in Seq(Request) /\ \A k \in DOMAIN r : r[k].type = "read"
    <3>1. \A k \in DOMAIN r : (k \in DOMAIN a /\ r[k] = a[k]) \/ (\E j \in DOMAIN b : r[k] = b[j])
      BY Added
    <3> QED BY <2>2, <2>3, <3>1
  <2> HIDE DEF r
  <2>7. s \in Seq(Request) /\ \A k \in DOMAIN s : s[k].type = "read"
    <3>1. \A k \in DOMAIN s : (k \in DOMAIN r /\ s[k] = r[k]) \/ (\E j \in DOMAIN c : s[k] = c[j])
      BY <2>6, Added
    <3> QED BY <2>4, <2>6, <3>1
  <2> HIDE DEF s
  <2>8. Asks(s)
    BY <2>5, <2>7 DEF Asks, s, r
  <2> QED BY <2>5, <2>7, <2>8
<1> QED BY <1>1, <1>2, PanelAssumption

\* A refresh that has got something is one of before, and the newest if nothing was begun.
LEMMA GotBefore ==
  ASSUME IInv, \A o \in ops' : o \in ops \/ o.got = <<>>,
         generation < generation' \/ (ops' = ops /\ generation' = generation)
  PROVE  \A o \in ops' : o.gen = generation' /\ Data \cap DOMAIN o.got # {}
           => o \in ops /\ o.gen = generation /\ ops' = ops
<1>1. \A o \in ops : o.gen <= generation /\ o.gen \in Nat /\ generation \in Nat
  BY QueueFacts
<1> QED BY <1>1, NothingGot

\* What a linked panel needs for a notice, a reply and the answer to a subscription.
LEMMA PlainTaken ==
  ASSUME IInv, Steady, registry # None, feed # None, toPanel # <<>>, toPanel' = Tail(toPanel),
         UNCHANGED <<content, feed, subId, registry, assets, refusedAt, conflict>>,
         IF Head(toPanel).type = "subscribed" THEN sub' = "active" ELSE sub' = sub,
         NEW r \in Seq(Request), Asks(r),
         \A o \in ops' : o \in ops \/ o.got = <<>>,
         generation < generation' \/ (ops' = ops /\ generation' = generation),
         ops' = ops => \A o \in ops : o.gen = generation /\ o.kind # "event" =>
           \A p \in Data \cap DOMAIN o.got : o.got[p].content < content =>
             ~(Head(toPanel).type = "event" /\ Head(toPanel).revision = o.got[p].content + 1)
  PROVE  Steady' /\ Forward
<1>1. Notices /\ Newest /\ InOrder /\ Linked /\ InStep(toPanel, content) /\ assets # None
      /\ toPanel \in Seq(Answer) /\ content \in Nat
  BY QueueFacts DEF Steady, InOrder, Linked
<1>2. ASSUME NEW o \in ops', o.gen = generation', NEW p \in Data \cap DOMAIN o.got
      PROVE  /\ assets' <= o.got[p].content /\ registry.content <= o.got[p].content
             /\ o.kind = "load" => refusedAt' <= o.got[p].content
             /\ o.kind # "event" /\ o.got[p].content < content => Told(toPanel', o.got[p].content)
  <2>1. o \in ops /\ o.gen = generation /\ ops' = ops
    BY <1>2, GotBefore
  <2>2. o.got[p].content \in Nat
    BY <2>1, ShownFacts
  <2>3. ASSUME o.kind # "event", o.got[p].content < content PROVE Told(toPanel', o.got[p].content)
    <3>1. Told(toPanel, o.got[p].content)
      BY <1>1, <2>1, <2>3 DEF Notices
    <3>2. ~(Head(toPanel).type = "event" /\ Head(toPanel).revision = o.got[p].content + 1)
      BY <2>1, <2>3
    <3> QED BY <1>1, <2>2, <3>1, <3>2, StepTaken
  <2> QED BY <1>1, <2>1, <2>3 DEF Newest
<1>3. Steady'
  BY <1>2, TakenMore DEF Asks
<1>4. Forward
  BY ShownFacts DEF Forward, Older
<1> QED BY <1>3, <1>4

LEMMA EventSteady ==
  ASSUME IInv, Turns, Fine, Steady, registry # None, feed # None, toPanel # <<>>,
         toPanel' = Tail(toPanel), UNCHANGED <<content, feed>>, ReceiveEvent(Head(toPanel))
  PROVE  Steady' /\ Forward
<1> DEFINE m == Head(toPanel)
<1>1. m.type = "event" /\ UNCHANGED <<subId, sub, registry, assets, refusedAt, conflict>>
      /\ generation \in Nat /\ toServer \in Seq(Request)
  BY QueueFacts DEF ReceiveEvent, shown
<1>2. CASE Start("event")
  <2>1. "event" \in Kind BY DEF Kind
  <2>2. PICK r \in Seq(Request) : Asks(r)
    BY <1>1, <1>2, <2>1, StartAsks
  <2>3. generation < generation' /\ \A o \in ops' : o \in ops \/ o.got = <<>>
    BY <1>1, <1>2, <2>1, StartAsks, StartNew
  <2>4. ops' # ops
    <3> DEFINE e == [gen |-> generation', kind |-> "event", got |-> <<>>]
    <3>1. e \in ops' /\ e.gen = generation' BY <1>2 DEF Start
    <3> HIDE DEF e
    <3> QED BY <1>1, <2>3, <3>1, QueueFacts
  <2> QED BY <1>1, <2>2, <2>3, <2>4, PlainTaken
<1>3. CASE ~Start("event")
  <2>1. /\ UNCHANGED <<ops, generation, toServer>>
        /\ \/ sub # "active" \/ m.sub # subId
           \/ registry # None /\ m.revision <= registry.revision
           \/ EventRunning
    BY <1>3 DEF ReceiveEvent
  <2>2. \A o \in ops : o.gen = generation /\ o.kind # "event" =>
           \A p \in Data \cap DOMAIN o.got : ~(m.type = "event" /\ m.revision = o.got[p].content + 1)
    BY <2>1, NoticeSupersedes
  <2>3. PICK r \in Seq(Request) : Asks(r)
    BY <1>1, <2>1, NothingAsked
  <2> QED BY <1>1, <2>1, <2>2, <2>3, PlainTaken
<1> QED BY <1>2, <1>3

LEMMA ReplySteady ==
  ASSUME IInv, Steady, registry # None, feed # None, toPanel # <<>>,
         toPanel' = Tail(toPanel), UNCHANGED <<content, feed>>, ReceiveReply(Head(toPanel))
  PROVE  Steady' /\ Forward
<1> DEFINE m == Head(toPanel)
<1>1. m.type = "reply" /\ UNCHANGED <<subId, sub, registry, assets, refusedAt, conflict>>
      /\ generation \in Nat /\ toServer \in Seq(Request) /\ m \in Answer /\ m.follow \in Follow
  <2>1. toPanel \in Seq(Answer) /\ m \in Answer
    BY QueueFacts, Taken
  <2>2. m.type = "reply"
    BY DEF ReceiveReply
  <2> QED BY <2>1, <2>2, QueueFacts DEF ReceiveReply, shown, Answer
<1>2. CASE m.follow = <<"list">>
  <2> DEFINE a == Read(0, "list")
  <2>1. a \in Request /\ a.type = "read" /\ toServer' = Append(toServer, a) /\ UNCHANGED <<ops, generation>>
    BY <1>2 DEF ReceiveReply, Request, Read, Part
  <2> HIDE DEF a
  <2>2. PICK r \in Seq(Request) : Asks(r)
    BY <1>1, <2>1, OneAsked
  <2> QED BY <1>1, <2>1, <2>2, PlainTaken
<1>3. CASE m.follow # <<"list">>
  <2>1. StartAll(m.follow)
    BY <1>3 DEF ReceiveReply
  <2>2. PICK r \in Seq(Request) : Asks(r)
    BY <1>1, <1>3, <2>1, StartAllAsks
  <2>3. generation < generation' /\ \A o \in ops' : o \in ops \/ o.got = <<>>
    BY <1>1, <1>3, <2>1, StartAllAsks, StartAllNew
  <2> QED BY <1>1, <2>2, <2>3, PlainTaken
<1> QED BY <1>2, <1>3

LEMMA SubscribedSteady ==
  ASSUME IInv, Fine, Steady, registry # None, feed # None, toPanel # <<>>, failures = 0,
         toPanel' = Tail(toPanel), UNCHANGED <<content, feed>>, ReceiveSubscribed(Head(toPanel))
  PROVE  Steady' /\ Forward
<1> DEFINE m == Head(toPanel)
<1>1. m.type = "subscribed" /\ UNCHANGED <<subId, registry, assets, refusedAt, conflict, toServer, ops, generation>>
      /\ toServer \in Seq(Request) /\ m = toPanel[1] /\ 1 \in DOMAIN toPanel
  <2>1. toPanel \in Seq(Answer) /\ m = toPanel[1] /\ 1 \in DOMAIN toPanel
    BY QueueFacts, Taken
  <2> QED BY <2>1, QueueFacts DEF ReceiveSubscribed, shown
<1>2. m.sub = subId /\ m.ok
  BY <1>1 DEF Steady, Linked, Fine
<1>3. sub' = "active"
  BY <1>2 DEF ReceiveSubscribed
<1>4. PICK r \in Seq(Request) : Asks(r)
  BY <1>1, NothingAsked
<1> QED BY <1>1, <1>3, <1>4, PlainTaken

LEMMA RefusalSteady ==
  ASSUME IInv, Turns, Steady, registry # None, feed # None, toPanel # <<>>,
         toPanel' = Tail(toPanel), UNCHANGED <<content, feed>>, ReceiveRefusal(Head(toPanel))
  PROVE  Steady' /\ Forward
<1> DEFINE m == Head(toPanel)
<1>1. /\ m.type = "refusal" /\ UNCHANGED <<sub, subId, registry, assets, toServer, ops, generation>>
      /\ refusedAt' = m.stamp.content /\ (conflict => conflict')
      /\ toServer \in Seq(Request) /\ toPanel \in Seq(Answer) /\ content \in Nat
  BY QueueFacts DEF ReceiveRefusal, shown
<1>2. /\ Notices /\ Newest /\ InStep(toPanel, content) /\ assets # None
  BY DEF Steady, InOrder, Linked
<1>3. Stamped(m) /\ Behind(refusedAt', toPanel', content')
  BY <1>1, <1>2, StepTaken DEF Stamped
<1>4. ASSUME NEW o \in ops', o.gen = generation', NEW p \in Data \cap DOMAIN o.got
      PROVE  /\ assets' <= o.got[p].content /\ registry.content <= o.got[p].content
             /\ o.kind = "load" => refusedAt' <= o.got[p].content
             /\ o.kind # "event" /\ o.got[p].content < content => Told(toPanel', o.got[p].content)
  <2>1. o \in ops /\ o.gen = generation /\ o.got[p].content \in Nat
    BY <1>1, <1>4, ShownFacts
  <2>2. refusedAt' <= o.got[p].content
    BY <1>1, <1>3, <2>1, HeadNotNewer
  <2>3. o.kind # "event" /\ o.got[p].content < content => Told(toPanel', o.got[p].content)
    BY <1>1, <1>2, <2>1, StepTaken DEF Notices
  <2> QED BY <1>1, <1>2, <2>1, <2>2, <2>3 DEF Newest
<1>5. PICK r \in Seq(Request) : Asks(r)
  BY <1>1, NothingAsked
<1>6. Steady'
  BY <1>1, <1>3, <1>4, <1>5, TakenMore DEF Asks
<1>7. Forward
  BY <1>1, ShownFacts DEF Forward, Older
<1> QED BY <1>6, <1>7

\* A part arrives before anything has been read: one of the first load.
LEMMA UnreadPart ==
  ASSUME IInv, Fine, Steady, registry = None, failures = 0, Undisturbed', toPanel # <<>>,
         toPanel' = Tail(toPanel), UNCHANGED <<content, feed>>, ReceivePart(Head(toPanel))
  PROVE  Steady' /\ Forward
<1> DEFINE m == Head(toPanel)
<1>1. /\ Unread /\ InOrder /\ InStep(toPanel, content)
      /\ toServer \in Seq(Request) /\ toPanel \in Seq(Answer) /\ content \in Nat
      /\ m \in Answer /\ m = toPanel[1] /\ 1 \in DOMAIN toPanel /\ toPanel' \in Seq(Answer)
      /\ m.type = "part" /\ UNCHANGED refusedAt
  <2>1. toPanel \in Seq(Answer) BY QueueFacts
  <2> QED BY <2>1, QueueFacts, Taken DEF Steady, InOrder, ReceivePart
<1>2. m.ok /\ m.stamp \in Stamp /\ Stamped(m) /\ m.part \in Part
  BY <1>1 DEF Fine, Answer, Stamped
<1>3. Awaits(toServer, toPanel', Awaited \ {m.part}) /\ m.part \in Awaited
  BY <1>1, AwaitsTaken DEF Unread
<1>4. /\ InStep(toPanel', content) /\ Behind(m.stamp.content, toPanel', content)
      /\ \A c \in Nat : Behind(c, toPanel, content) => Behind(c, toPanel', content)
  BY <1>1, <1>2, StepTaken
<1>5. m.part # "list"
  BY <1>3 DEF Awaited, Core
<1>6. CASE \E o \in ops : o.gen = m.gen
  <2>1. PICK o \in ops : Arrive(o, m.part, m.stamp, m.ok)
    BY <1>5, <1>6 DEF ReceivePart
  <2>2. o \in Op BY QueueFacts
  <2>3. PICK f :
          /\ WithPart(f, o, m.part, m.stamp)
          /\ \/ ~m.ok /\ ops' = ops \ {o} /\ Reject(o)
             \/ /\ m.ok /\ DOMAIN f.got # Parts(o.kind) /\ ops' = (ops \ {o}) \cup {f}
                /\ UNCHANGED <<shown, conflict, sub, subId, toServer, shell, generation>>
             \/ m.ok /\ DOMAIN f.got = Parts(o.kind) /\ ops' = ops \ {o} /\ Land(f)
    <3>1. m.ok \in BOOLEAN BY <1>1 DEF Answer
    <3> QED BY <1>2, <2>1, <2>2, <3>1, ArriveShape
  <2> QED BY <1>1, <1>2, <1>3, <1>4, <2>3, UnreadArrives
<1>7. CASE ~\E o \in ops : o.gen = m.gen
  <2>1. UNCHANGED <<ops, generation, conflict, sub, subId, toServer, registry, assets, initialized>>
    BY <1>5, <1>7 DEF ReceivePart, shown, shell
  <2>2. Awaits(toServer', toPanel', Awaited')
    BY <1>3, <2>1, AwaitsMore DEF Awaited
  <2>3. Unread'
    BY <1>1, <2>1, <2>2 DEF Unread
  <2>4. InOrder' /\ Newest'
    <3>1. Newest BY DEF Steady
    <3> QED BY <1>1, <1>4, <2>1, <3>1, InOrderKept, NewestKept
  <2>5. Forward
    BY <2>1, ShownFacts DEF Forward, Older
  <2> QED BY <2>1, <2>3, <2>4, <2>5 DEF Steady
<1> QED BY <1>6, <1>7

\* Later: a part of a refresh, of one superseded or failed, of a preview, or a list.
LEMMA LinkedPart ==
  ASSUME IInv, Turns, Fine, Steady, registry # None, feed # None, failures = 0, toPanel # <<>>,
         toPanel' = Tail(toPanel), UNCHANGED <<content, feed>>, ReceivePart(Head(toPanel))
  PROVE  Steady' /\ Forward
<1> DEFINE m == Head(toPanel)
<1>1. /\ Linked /\ Notices /\ Newest /\ InOrder /\ InStep(toPanel, content) /\ AllTold(toPanel, content)
      /\ toServer \in Seq(Request) /\ toPanel \in Seq(Answer) /\ content \in Nat
      /\ m \in Answer /\ m = toPanel[1] /\ 1 \in DOMAIN toPanel
      /\ m.type = "part" /\ UNCHANGED refusedAt /\ assets # None
  <2>1. toPanel \in Seq(Answer) BY QueueFacts
  <2> QED BY <2>1, QueueFacts, Taken DEF Steady, InOrder, Notices, Linked, ReceivePart
<1>2. m.ok /\ m.stamp \in Stamp /\ m.stamp.content \in Nat /\ Stamped(m) /\ m.part \in Part
  BY <1>1 DEF Fine, Answer, Stamped, Stamp
<1>3. Fits(m) /\ registry.content <= m.stamp.content
  BY <1>1, AnswerTaken DEF Fresh, Covers
<1>4. /\ InStep(toPanel', content') /\ Behind(m.stamp.content, toPanel', content')
      /\ AllTold(toPanel', content')
      /\ \A c \in Nat : /\ Behind(c, toPanel, content) => Behind(c, toPanel', content')
                        /\ Told(toPanel, c) => Told(toPanel', c)
      /\ m.stamp.content < content => Told(toPanel', m.stamp.content)
  BY <1>1, <1>2, StepTaken
<1>5. assets <= m.stamp.content /\ refusedAt <= m.stamp.content
  BY <1>1, <1>2 DEF InOrder, Behind
<1>6. ASSUME NEW o \in ops, o.gen = generation, NEW p \in Data \cap DOMAIN o.got
      PROVE  /\ assets <= o.got[p].content /\ registry.content <= o.got[p].content
             /\ o.kind = "load" => refusedAt <= o.got[p].content
             /\ o.kind # "event" /\ o.got[p].content < content => Told(toPanel', o.got[p].content)
  BY <1>1, <1>4, <1>6, ShownFacts DEF Newest, Notices
<1>7. CASE UNCHANGED <<ops, sub, subId, toServer, generation, registry, conflict>>
           /\ (assets' = assets \/ (m.part = "list" /\ assets' = m.stamp.content))
  <2>1. ASSUME NEW o \in ops, o.gen = generation, NEW p \in Data \cap DOMAIN o.got, m.part = "list"
        PROVE  m.stamp.content <= o.got[p].content
    <3>1. m.part \notin Parts(o.kind)
      BY <2>1, QueueFacts DEF Parts, Op, Kind
    <3>2. m.gen # o.gen
      BY <1>3, <3>1 DEF Fits
    <3> QED BY <1>2, <2>1, <3>2, HeadNotNewer
  <2>2. PICK r \in Seq(Request) : Asks(r)
    BY <1>1, <1>7, NothingAsked
  <2>3. ASSUME NEW o \in ops', o.gen = generation', NEW p \in Data \cap DOMAIN o.got
        PROVE  /\ assets' <= o.got[p].content /\ registry.content <= o.got[p].content
               /\ o.kind = "load" => refusedAt' <= o.got[p].content
               /\ o.kind # "event" /\ o.got[p].content < content => Told(toPanel', o.got[p].content)
    BY <1>1, <1>6, <1>7, <2>1, <2>3
  <2>4. Steady'
    BY <1>1, <1>2, <1>4, <1>7, <2>2, <2>3, TakenMore DEF Asks
  <2>5. Forward
    BY <1>1, <1>2, <1>5, <1>7, ShownFacts DEF Forward, Older
  <2> QED BY <2>4, <2>5
<1>8. CASE m.part # "list" /\ \E o \in ops : o.gen = m.gen
  <2>1. PICK o \in ops : o.gen = m.gen /\ Arrive(o, m.part, m.stamp, m.ok)
    BY <1>8 DEF ReceivePart
  <2>2. o \in Op BY QueueFacts
  <2>3. PICK f :
          /\ WithPart(f, o, m.part, m.stamp)
          /\ \/ ~m.ok /\ ops' = ops \ {o} /\ Reject(o)
             \/ /\ m.ok /\ DOMAIN f.got # Parts(o.kind) /\ ops' = (ops \ {o}) \cup {f}
                /\ UNCHANGED <<shown, conflict, sub, subId, toServer, shell, generation>>
             \/ m.ok /\ DOMAIN f.got = Parts(o.kind) /\ ops' = ops \ {o} /\ Land(f)
    <3>1. m.ok \in BOOLEAN BY <1>1 DEF Answer
    <3> QED BY <1>2, <2>1, <2>2, <3>1, ArriveShape
  <2>4. Placed(m.stamp.content) /\ Replaces(m.stamp.content, o)
    BY <1>3, <1>4, <1>5 DEF Placed, Replaces
  <2>5. ASSUME sub' = sub PROVE LinkedAnswers(toPanel)'
    BY <1>1, <2>5, LinkedTaken
  <2> QED BY <1>1, <1>2, <1>4, <2>3, <2>4, <2>5, LinkedArrives
<1>9. CASE m.part = "list" \/ ~\E o \in ops : o.gen = m.gen
  <2>1. UNCHANGED <<ops, sub, subId, toServer, generation, registry, conflict>>
        /\ (assets' = assets \/ (m.part = "list" /\ assets' = m.stamp.content))
    BY <1>9 DEF ReceivePart, shown
  <2> QED BY <1>7, <2>1
<1> QED BY <1>8, <1>9

LEMMA ReceiveSteady ==
  ASSUME IInv, Turns, Fine, Steady, Undisturbed, Undisturbed', Receive
  PROVE  Steady' /\ Forward
<1>1. /\ toPanel # <<>> /\ toPanel' = Tail(toPanel) /\ UNCHANGED <<content, feed>> /\ failures = 0
      /\ \/ ReceivePart(Head(toPanel)) \/ ReceiveEvent(Head(toPanel)) \/ ReceiveReply(Head(toPanel))
         \/ ReceiveRefusal(Head(toPanel)) \/ ReceiveSubscribed(Head(toPanel))
  BY DEF Receive, server, Undisturbed
<1>2. CASE registry = None
  <2>1. Head(toPanel).type = "part"
    BY <1>1, <1>2, QueueFacts, AwaitsTaken DEF Steady, Unread
  <2>2. ReceivePart(Head(toPanel))
    BY <1>1, <2>1 DEF ReceiveEvent, ReceiveReply, ReceiveRefusal, ReceiveSubscribed
  <2> QED BY <1>1, <1>2, <2>2, UnreadPart
<1>3. CASE registry # None
  <2>1. feed # None
    BY <1>1, <1>3 DEF Steady, Linked
  <2> QED BY <1>1, <1>3, <2>1, LinkedPart, EventSteady, ReplySteady, RefusalSteady, SubscribedSteady
<1> QED BY <1>2, <1>3

-----------------------------------------------------------------------------
\* While nothing disturbs the panel, every step is steady.
LEMMA UndisturbedStep ==
  ASSUME IInv, Turns, Fine, Steady, Undisturbed, Undisturbed', [Next]_vars
  PROVE  Steady' /\ Forward
<1>1. CASE FirstHass \/ Retry \/ Refresh \/ ReloadAfterConflict
  <2>1. PICK initial \in BOOLEAN : StartLoad(initial)
    BY <1>1 DEF FirstHass, Retry, Refresh, ReloadAfterConflict
  <2> QED BY <2>1, StartLoadSteady
<1>2. ~Reload
  BY QueueFacts DEF Reload, Undisturbed
<1>3. CASE UNCHANGED vars
  <2>1. UNCHANGED <<content, feed, sub, subId, toPanel, toServer, ops, generation, assets, registry,
                     refusedAt, conflict, initialized>>
    BY <1>3 DEF vars, server, shown, shell, link
  <2> QED BY <2>1, SameSteady
<1> QED BY <1>1, <1>2, <1>3, ServeSteady, OtherCommitSteady, AskedSteady, ReceiveSteady, PlacesSteady
        DEF Next, Deliver

SteadyInv == Turns /\ Fine /\ (Undisturbed => Steady)

LEMMA SteadyStep ==
  ASSUME IInv, SteadyInv, [Next]_vars PROVE SteadyInv' /\ (Undisturbed' => Forward)
<1>1. Undisturbed' => Undisturbed
  BY UndisturbedBefore
<1> QED BY <1>1, TurnsStep, FineStep, UndisturbedStep DEF SteadyInv

LEMMA SteadyInit == ASSUME Init PROVE SteadyInv
<1>1. Steady
  BY DEF Init, Steady, Unread, Awaits, InOrder, InStep, Behind, Newest
<1> QED BY <1>1, TurnsInit, FineInit DEF SteadyInv

\* While no read fails, the first subscription lasts and the feed reports the manager in
\* charge, the list of assets does not go back either, and a conflict is withdrawn by nothing
\* older than the refusal.
THEOREM SteadyWhileUndisturbed == Spec => SteadyFeed
<1>1. IInv /\ SteadyInv /\ [Next]_vars => SteadyInv'
  BY SteadyStep
<1>2. IInv /\ SteadyInv /\ [Next]_vars =>
        [failures' = 0 /\ base' = 0 /\ subId' <= 1 =>
           /\ ~Older(assets', assets)
           /\ conflict /\ ~conflict' /\ sub = "active" => registry'.content >= refusedAt]_vars
  BY SteadyStep DEF Undisturbed, Forward
<1>3. Init => SteadyInv
  BY SteadyInit
<1> QED BY <1>1, <1>2, <1>3, Invariant, PTL DEF Spec, SteadyFeed


-----------------------------------------------------------------------------
(***************************************************************************)
(* Deletion: what the user was shown is what the revision has, or the      *)
(* revision is another.                                                    *)
(***************************************************************************)

CONSTANTS Assets, MaxRevision

VARIABLES
  stored, dependents, revision, requests, answers, known, read, asset, impact, awaited, deleting

De == INSTANCE Deletion WITH
  assets <- stored, toServer <- requests, toPanel <- answers, basis <- read, loading <- awaited

Impacts == [asset : Assets \cup {None}, dependents : SUBSET (SUBSET Assets), revision : Nat]

\* What was listed at the revision of now is what is there now.
Recent(i) ==
  /\ i.revision \in Nat /\ i.revision <= revision
  /\ i.revision = revision => i.dependents = De!ImpactOf(i.asset)

DeleteRequests ==
  [type : {"impact", "read"}, mounted : BOOLEAN, asset : Assets \cup {None}]
    \cup { m \in [type : {"delete"}, mounted : BOOLEAN, asset : Assets \cup {None}, based : Nat,
                  shown : Impacts] : Recent(m.shown) }

DeleteAnswers ==
  { m \in [type : {"impact"}, mounted : BOOLEAN, asset : Assets \cup {None}, ok : BOOLEAN,
           dependents : SUBSET (SUBSET Assets), revision : Nat] : Recent(m) }
    \cup [type : {"deleted"}, mounted : BOOLEAN, asset : Assets \cup {None}, ok : BOOLEAN,
          revision : Nat]
    \cup [type : {"read"}, mounted : BOOLEAN, asset : Assets \cup {None}, ok : BOOLEAN,
          assets : SUBSET Assets, revision : Nat]

DeleteInv ==
  /\ stored \subseteq Assets /\ dependents \subseteq SUBSET Assets
  /\ revision \in Nat /\ read \in Nat /\ known \subseteq Assets /\ asset \in Assets \cup {None}
  /\ impact # None => impact \in Impacts /\ Recent(impact)
  /\ requests \in Seq(DeleteRequests) /\ answers \in Seq(DeleteAnswers)

LEMMA UnmountedSeq ==
  ASSUME NEW S, NEW q \in Seq(S), \A m \in S : [m EXCEPT !.mounted = FALSE] \in S
  PROVE  De!Unmounted(q) \in Seq(S)
<1>1. \A n \in 1..Len(q) : [q[n] EXCEPT !.mounted = FALSE] \in S
  OBVIOUS
<1> QED BY <1>1, IsASeq DEF De!Unmounted

LEMMA DeleteUnmounts ==
  /\ \A m \in DeleteRequests : [m EXCEPT !.mounted = FALSE] \in DeleteRequests
  /\ \A m \in DeleteAnswers : [m EXCEPT !.mounted = FALSE] \in DeleteAnswers
<1>1. ASSUME NEW m \in DeleteRequests PROVE [m EXCEPT !.mounted = FALSE] \in DeleteRequests
  BY DEF DeleteRequests
<1>2. ASSUME NEW m \in DeleteAnswers PROVE [m EXCEPT !.mounted = FALSE] \in DeleteAnswers
  <2>1. CASE m.type = "impact"
    <3>1. /\ [m EXCEPT !.mounted = FALSE] \in
               [type : {"impact"}, mounted : BOOLEAN, asset : Assets \cup {None}, ok : BOOLEAN,
                dependents : SUBSET (SUBSET Assets), revision : Nat]
          /\ [m EXCEPT !.mounted = FALSE].revision = m.revision
          /\ [m EXCEPT !.mounted = FALSE].dependents = m.dependents
          /\ [m EXCEPT !.mounted = FALSE].asset = m.asset
          /\ Recent(m)
      BY <2>1 DEF DeleteAnswers
    <3> QED BY <3>1 DEF DeleteAnswers, Recent
  <2> QED BY <2>1 DEF DeleteAnswers
<1> QED BY <1>1, <1>2

\* Without a commit what was listed stays as recent, and with one it is of the past.
LEMMA StaysRecent ==
  ASSUME revision \in Nat,
         \/ revision' = revision /\ dependents' = dependents
         \/ revision' = revision + 1
  PROVE  /\ \A i : Recent(i) => Recent(i)'
         /\ \A q \in Seq(DeleteRequests) : q \in Seq(DeleteRequests)'
         /\ \A q \in Seq(DeleteAnswers) : q \in Seq(DeleteAnswers)'
<1>1. ASSUME NEW i, Recent(i) PROVE Recent(i)'
  BY <1>1 DEF Recent, De!ImpactOf
<1>2. DeleteRequests \subseteq DeleteRequests'
  BY <1>1 DEF DeleteRequests, Impacts
<1>3. DeleteAnswers \subseteq DeleteAnswers'
  BY <1>1 DEF DeleteAnswers
<1>4. \A S, T : S \subseteq T => Seq(S) \subseteq Seq(T)
  OBVIOUS
<1> QED BY <1>1, <1>2, <1>3, <1>4

LEMMA DeleteServes == ASSUME DeleteInv, De!Serve PROVE DeleteInv'
<1> DEFINE m == Head(requests)
<1>1. /\ m \in DeleteRequests /\ requests' \in Seq(DeleteRequests)
      /\ UNCHANGED <<known, read, asset, impact, awaited, deleting>>
  BY DEF De!Serve, DeleteInv, De!data, De!control
<1>2. m.mounted \in BOOLEAN /\ m.asset \in Assets \cup {None}
  BY <1>1 DEF DeleteRequests
<1>3. CASE De!ServeImpact(m)
  <2> DEFINE a == [type |-> "impact", mounted |-> m.mounted, asset |-> m.asset,
                   ok |-> m.asset \in stored, dependents |-> De!ImpactOf(m.asset), revision |-> revision]
  <2>1. answers' = Append(answers, a) /\ UNCHANGED <<stored, dependents, revision>>
    BY <1>3 DEF De!ServeImpact, De!server
  <2>2. De!ImpactOf(m.asset) \in SUBSET (SUBSET Assets)
    BY DEF De!ImpactOf, DeleteInv
  <2>3. Recent(a)
    BY DEF Recent, DeleteInv
  <2>4. a \in DeleteAnswers
    BY <1>2, <2>2, <2>3 DEF DeleteAnswers, DeleteInv
  <2> HIDE DEF a
  <2>5. Append(answers, a) \in Seq(DeleteAnswers)
    BY <2>4 DEF DeleteInv
  <2> QED BY <1>1, <2>1, <2>5, StaysRecent DEF DeleteInv
<1>4. CASE De!ServeDelete(m)
  <2> DEFINE ok == De!Accepts(m)
             a == [type |-> "deleted", mounted |-> m.mounted, asset |-> m.asset,
                   ok |-> ok, revision |-> revision']
  <2>1. /\ answers' = Append(answers, a)
        /\ \/ UNCHANGED <<stored, dependents, revision>>
           \/ /\ revision' = revision + 1
              /\ stored' \subseteq stored /\ dependents' \subseteq dependents
    BY <1>4 DEF De!ServeDelete, De!server
  <2>2. revision' \in Nat /\ ok \in BOOLEAN
    BY <2>1 DEF DeleteInv, De!Accepts
  <2>3. a \in DeleteAnswers
    BY <1>2, <2>2 DEF DeleteAnswers
  <2> HIDE DEF a
  <2>4. Append(answers, a) \in Seq(DeleteAnswers)
    BY <2>3 DEF DeleteInv
  <2> QED BY <1>1, <2>1, <2>2, <2>4, StaysRecent DEF DeleteInv
<1>5. CASE De!ServeRead(m)
  <2> DEFINE a(ok) == [type |-> "read", mounted |-> m.mounted, asset |-> m.asset, ok |-> ok,
                       assets |-> stored, revision |-> revision]
  <2>1. PICK ok \in BOOLEAN : answers' = Append(answers, a(ok))
    BY <1>5 DEF De!ServeRead
  <2>2. UNCHANGED <<stored, dependents, revision>>
    BY <1>5 DEF De!ServeRead, De!server
  <2>3. a(ok) \in DeleteAnswers
    BY <1>2 DEF DeleteAnswers, DeleteInv
  <2> HIDE DEF a
  <2>4. Append(answers, a(ok)) \in Seq(DeleteAnswers)
    BY <2>3 DEF DeleteInv
  <2> QED BY <1>1, <2>1, <2>2, <2>4, StaysRecent DEF DeleteInv
<1> QED BY <1>3, <1>4, <1>5 DEF De!Serve

LEMMA DeleteReceives == ASSUME DeleteInv, De!Receive PROVE DeleteInv'
<1> DEFINE m == Head(answers)
<1>1. /\ m \in DeleteAnswers /\ Tail(answers) \in Seq(DeleteAnswers)
      /\ UNCHANGED <<stored, dependents, revision>>
  BY DEF De!Receive, DeleteInv, De!server
<1>2. answers' \in Seq(DeleteAnswers)
  BY <1>1, UnmountedSeq, DeleteUnmounts DEF De!Receive
<1>3. CASE De!ReceiveImpact(m)
  <2>1. m.type = "impact" /\ UNCHANGED <<requests, known, read, asset, deleting>>
    BY <1>3 DEF De!ReceiveImpact, De!data
  <2>2. m.asset \in Assets \cup {None} /\ m.dependents \in SUBSET (SUBSET Assets) /\ m.revision \in Nat /\ Recent(m)
    BY <1>1, <2>1 DEF DeleteAnswers
  <2> DEFINE i == [asset |-> m.asset, dependents |-> m.dependents, revision |-> m.revision]
  <2>3. i \in Impacts /\ Recent(i)
    BY <2>2 DEF Impacts, Recent
  <2>4. impact' = impact \/ impact' = i
    BY <1>3 DEF De!ReceiveImpact
  <2> HIDE DEF i
  <2> QED BY <1>1, <1>2, <2>1, <2>3, <2>4, StaysRecent DEF DeleteInv, Impacts
<1>4. CASE De!ReceiveDeleted(m)
  <2> DEFINE r == [type |-> "read", mounted |-> m.mounted, asset |-> m.asset]
  <2>1. /\ m.type = "deleted" /\ UNCHANGED <<known, asset, impact>>
        /\ \/ requests' = requests /\ read' = read
           \/ requests' = Append(requests, r) /\ read' = m.revision
    BY <1>4 DEF De!ReceiveDeleted, De!Send
  <2>2. m.mounted \in BOOLEAN /\ m.asset \in Assets \cup {None} /\ m.revision \in Nat
    BY <1>1, <2>1 DEF DeleteAnswers
  <2>3. r \in DeleteRequests
    BY <2>2 DEF DeleteRequests
  <2> HIDE DEF r
  <2>4. requests' \in Seq(DeleteRequests) /\ read' \in Nat
    BY <2>1, <2>2, <2>3 DEF DeleteInv
  <2> QED BY <1>1, <1>2, <2>1, <2>4, StaysRecent DEF DeleteInv, Impacts
<1>5. CASE De!ReceiveRead(m)
  <2>1. m.assets \in SUBSET Assets /\ m.revision \in Nat
    BY <1>1, <1>5 DEF DeleteAnswers, De!ReceiveRead
  <2>2. known' \subseteq Assets /\ read' \in Nat
    BY <1>5, <2>1 DEF De!ReceiveRead, De!data, DeleteInv
  <2>3. \/ UNCHANGED <<asset, impact, requests>>
        \/ asset' = None /\ impact' = None /\ requests' = De!Unmounted(requests)
    BY <1>5 DEF De!ReceiveRead, De!Close, De!Blank, De!control
  <2>4. requests' \in Seq(DeleteRequests)
    BY <2>3, UnmountedSeq, DeleteUnmounts DEF DeleteInv
  <2> QED BY <1>1, <1>2, <2>2, <2>3, <2>4, StaysRecent DEF DeleteInv, Impacts
<1> QED BY <1>3, <1>4, <1>5 DEF De!Receive

LEMMA DeleteStep == ASSUME De!DeletionAssumption, DeleteInv, [De!Next]_(De!vars) PROVE DeleteInv'
<1> USE DEF De!server, De!socket, De!data, De!control
<1>1. CASE De!OtherCommit
  <2>1. /\ revision' = revision + 1 /\ dependents' \subseteq SUBSET Assets
        /\ UNCHANGED <<stored, requests, answers, known, read, asset, impact>>
    BY <1>1 DEF De!OtherCommit, De!Dependents, DeleteInv
  <2> QED BY <2>1, StaysRecent DEF DeleteInv, Impacts
<1>2. ASSUME NEW a \in Assets, De!Open(a) PROVE DeleteInv'
  BY <1>2, StaysRecent DEF De!Open, De!Blank, DeleteInv
<1>3. CASE De!Back
  <2>1. requests' \in Seq(DeleteRequests) /\ answers' \in Seq(DeleteAnswers)
    BY <1>3, UnmountedSeq, DeleteUnmounts DEF De!Back, De!Close, DeleteInv
  <2> QED BY <1>3, <2>1, StaysRecent DEF De!Back, De!Close, De!Blank, DeleteInv
<1>4. CASE De!Refresh
  <2>1. [type |-> "read", mounted |-> FALSE, asset |-> None] \in DeleteRequests
    BY DEF DeleteRequests
  <2>2. requests' \in Seq(DeleteRequests) /\ UNCHANGED <<stored, dependents, revision, answers, known, read, asset, impact>>
    BY <1>4, <2>1 DEF De!Refresh, De!Send, DeleteInv
  <2> QED BY <2>2, StaysRecent DEF DeleteInv, Impacts
<1>5. CASE De!Prepare
  <2>1. [type |-> "impact", mounted |-> TRUE, asset |-> asset] \in DeleteRequests
    BY DEF DeleteRequests, DeleteInv
  <2>2. requests' \in Seq(DeleteRequests) /\ UNCHANGED <<stored, dependents, revision, answers, known, read, asset, impact>>
    BY <1>5, <2>1 DEF De!Prepare, De!Send, DeleteInv
  <2> QED BY <2>2, StaysRecent DEF DeleteInv, Impacts
<1>6. CASE De!Cancel
  BY <1>6, StaysRecent DEF De!Cancel, DeleteInv
<1>7. CASE De!Delete
  <2> DEFINE r == [type |-> "delete", mounted |-> TRUE, asset |-> asset, based |-> read, shown |-> impact]
  <2>1. impact \in Impacts /\ Recent(impact)
    BY <1>7 DEF De!Delete, DeleteInv
  <2>2. r \in DeleteRequests
    BY <2>1 DEF DeleteRequests, DeleteInv
  <2> HIDE DEF r
  <2>3. requests' = Append(requests, r) /\ UNCHANGED <<stored, dependents, revision, answers, known, read, asset, impact>>
    BY <1>7 DEF De!Delete, De!Send, r
  <2>4. requests' \in Seq(DeleteRequests)
    BY <2>2, <2>3 DEF DeleteInv
  <2> QED BY <2>3, <2>4, StaysRecent DEF DeleteInv, Impacts
<1>8. CASE UNCHANGED De!vars
  BY <1>8, StaysRecent DEF De!vars, DeleteInv, Impacts
<1> QED BY <1>1, <1>2, <1>3, <1>4, <1>5, <1>6, <1>7, <1>8, DeleteServes, DeleteReceives DEF De!Next

\* What is deleted was shown, or the panel has read the registry in between.
LEMMA DeletesShown ==
  ASSUME DeleteInv, [De!Next]_(De!vars), NEW a \in Assets, De!Deletes(a), Head(requests).shown.asset = a
  PROVE  \/ De!ImpactOf(a) = Head(requests).shown.dependents
         \/ Head(requests).based > Head(requests).shown.revision
<1> DEFINE m == Head(requests)
<1>1. De!Serve
  <2> USE DEF De!server, De!Deletes
  <2>1. stored' # stored
    OBVIOUS
  <2> QED BY <2>1 DEF De!Next, De!vars, De!OtherCommit, De!Open, De!Back, De!Refresh, De!Prepare, De!Cancel,
            De!Delete, De!Receive
<1>2. m \in DeleteRequests /\ m.type = "delete"
  BY <1>1 DEF De!Serve, De!Deletes, DeleteInv
<1>3. m.based \in Nat /\ Recent(m.shown)
  BY <1>2 DEF DeleteRequests
<1>4. De!Accepts(m)
  BY <1>1, <1>2 DEF De!Serve, De!ServeImpact, De!ServeRead, De!ServeDelete, De!Deletes, De!server
<1>5. m.based = revision
  BY <1>4 DEF De!Accepts
<1> QED BY <1>3, <1>5 DEF Recent, DeleteInv

\* A deletion that is accepted takes with it what was shown for that asset, unless the panel
\* has read the registry in between (asset-delete-control.js _delete).
THEOREM DeletionAsShown == De!DeletionAssumption => (De!Spec => De!ShownUnlessRead)
<1> SUFFICES ASSUME De!DeletionAssumption PROVE De!Spec => De!ShownUnlessRead
  OBVIOUS
<1>1. De!Init => DeleteInv
  <2> SUFFICES ASSUME De!Init PROVE DeleteInv
    OBVIOUS
  <2>1. <<>> \in Seq(DeleteRequests) /\ <<>> \in Seq(DeleteAnswers)
    OBVIOUS
  <2> QED BY <2>1 DEF De!Init, DeleteInv, De!Dependents
<1>2. DeleteInv /\ [De!Next]_(De!vars) => DeleteInv'
  BY DeleteStep
<1>3. DeleteInv /\ [De!Next]_(De!vars) =>
        [\A a \in Assets : De!Deletes(a) =>
           LET m == Head(requests) IN
             m.shown.asset = a => \/ De!ImpactOf(a) = m.shown.dependents
                                  \/ m.based > m.shown.revision]_(De!vars)
  BY DeletesShown
<1> QED BY <1>1, <1>2, <1>3, PTL DEF De!Spec, De!ShownUnlessRead


-----------------------------------------------------------------------------
(***************************************************************************)
(* Representation: a confirmation of the revision of now says what is      *)
(* there, and one operation at a time is under way.                        *)
(***************************************************************************)

VARIABLES represented, valid, held, heldStatuses, admin, confirmation, busy, needsRefresh

Re == INSTANCE Representation WITH
  toServer <- requests, toPanel <- answers, registry <- held, statuses <- heldStatuses

\* What is confirmed at the revision of now is the opposite of what is there now.
Opposes(c) ==
  /\ c.revision \in Nat /\ c.revision <= revision
  /\ c.revision = revision => c.remove = (c.asset \in represented)

LoadedLights ==
  { g \in [represented : SUBSET Assets, revision : Nat] :
      g.revision <= revision /\ (g.revision = revision => g.represented = represented) }

LightReads == {"notice", "refresh", "follow"}

LightRequests ==
  { m \in [type : {"write"}, own : BOOLEAN, newest : BOOLEAN, asset : Assets, remove : BOOLEAN,
           revision : Nat] : Opposes(m) }
    \cup [type : LightReads, own : BOOLEAN, newest : BOOLEAN]

LightAnswers ==
  [type : {"written"}, own : BOOLEAN, newest : BOOLEAN, ok : BOOLEAN, revision : Nat]
    \cup [type : LightReads, own : BOOLEAN, newest : BOOLEAN, ok : BOOLEAN, valid : SUBSET Assets,
          registry : LoadedLights]

NoOwn(q) == \A n \in DOMAIN q : ~q[n].own
OneOwn(q) == \A i, j \in DOMAIN q : q[i].own /\ q[j].own => i = j

LightTypes ==
  /\ represented \subseteq Assets /\ valid \subseteq Assets /\ revision \in Nat
  /\ held \in LoadedLights /\ heldStatuses \subseteq Assets /\ asset \in Assets /\ busy \in BOOLEAN
  /\ confirmation # None =>
       confirmation \in [asset : Assets, revision : Nat, remove : BOOLEAN] /\ Opposes(confirmation)
  /\ requests \in Seq(LightRequests) /\ answers \in Seq(LightAnswers)

\* An operation of the control is under way in one message, and while it is the control is busy.
OwnInv ==
  /\ ~busy => NoOwn(requests) /\ NoOwn(answers)
  /\ OneOwn(requests) /\ OneOwn(answers)
  /\ NoOwn(requests) \/ NoOwn(answers)

LightInv == LightTypes /\ OwnInv

\* Two sets with one element between them.
LEMMA OneOfTwo ==
  ASSUME NEW R, NEW A, \A i, j \in R : i = j, \A i, j \in A : i = j, R = {} \/ A = {}
  PROVE  Cardinality(R) + Cardinality(A) <= 1
<1>1. ASSUME NEW S, \A i, j \in S : i = j PROVE Cardinality(S) \in {0, 1}
  <2>1. CASE S = {}
    BY <2>1, FS_EmptySet
  <2>2. CASE S # {}
    <3>1. PICK n \in S : TRUE
      BY <2>2
    <3>2. S = {n}
      BY <1>1, <3>1
    <3> QED BY <3>2, FS_Singleton
  <2> QED BY <2>1, <2>2
<1>2. Cardinality(R) \in {0, 1} /\ Cardinality(A) \in {0, 1}
  BY <1>1
<1>3. Cardinality(R) = 0 \/ Cardinality(A) = 0
  BY FS_EmptySet
<1> QED BY <1>2, <1>3

LEMMA OwnAppend ==
  ASSUME NEW S, NEW q \in Seq(S), NEW m
  PROVE  /\ NoOwn(q) => OneOwn(Append(q, m)) /\ (~m.own => NoOwn(Append(q, m)))
         /\ OneOwn(q) /\ ~m.own => OneOwn(Append(q, m))
<1>1. /\ DOMAIN q = 1..Len(q) /\ DOMAIN Append(q, m) = 1..(Len(q) + 1) /\ Len(q) \in Nat
      /\ \A n \in 1..Len(q) : Append(q, m)[n] = q[n]
      /\ Append(q, m)[Len(q) + 1] = m
  OBVIOUS
<1> QED BY <1>1 DEF NoOwn, OneOwn

LEMMA OwnTail ==
  ASSUME NEW S, NEW q \in Seq(S), q # <<>>
  PROVE  /\ NoOwn(q) => NoOwn(Tail(q)) /\ ~Head(q).own
         /\ OneOwn(q) => OneOwn(Tail(q)) /\ (Head(q).own => NoOwn(Tail(q)))
<1>1. /\ DOMAIN q = 1..Len(q) /\ Len(q) \in Nat \ {0} /\ DOMAIN Tail(q) = 1..(Len(q) - 1)
      /\ \A n \in 1..(Len(q) - 1) : Tail(q)[n] = q[n + 1]
      /\ Head(q) = q[1]
  OBVIOUS
<1> QED BY <1>1 DEF NoOwn, OneOwn

LEMMA OwnMarks ==
  ASSUME NEW S, NEW q \in Seq(S),
         \A m \in S : /\ [m EXCEPT !.own = FALSE] \in S
                     /\ [m EXCEPT !.newest = FALSE] \in S
                     /\ [m EXCEPT !.own = FALSE].own = FALSE
                     /\ [m EXCEPT !.newest = FALSE].own = m.own
  PROVE  /\ Re!Disowned(q) \in Seq(S) /\ NoOwn(Re!Disowned(q))
         /\ Re!Superseded(q) \in Seq(S)
         /\ NoOwn(q) => NoOwn(Re!Superseded(q))
         /\ OneOwn(q) => OneOwn(Re!Superseded(q))
<1>1. DOMAIN q = 1..Len(q) /\ Len(q) \in Nat /\ \A n \in 1..Len(q) : q[n] \in S
  OBVIOUS
<1>2. Re!Disowned(q) \in Seq(S) /\ Re!Superseded(q) \in Seq(S)
  <2>1. \A n \in 1..Len(q) : [q[n] EXCEPT !.own = FALSE] \in S
    BY <1>1
  <2>2. Re!Disowned(q) \in Seq(S)
    BY <1>1, <2>1, IsASeq DEF Re!Disowned
  <2>3. \A n \in 1..Len(q) : [q[n] EXCEPT !.newest = FALSE] \in S
    BY <1>1
  <2>4. Re!Superseded(q) \in Seq(S)
    BY <1>1, <2>3, IsASeq DEF Re!Superseded
  <2> QED BY <2>2, <2>4
<1>3. NoOwn(Re!Disowned(q))
  BY <1>1 DEF Re!Disowned, NoOwn
<1>4. DOMAIN Re!Superseded(q) = DOMAIN q /\ \A n \in DOMAIN q : Re!Superseded(q)[n].own = q[n].own
  BY <1>1 DEF Re!Superseded
<1>5. NoOwn(q) => NoOwn(Re!Superseded(q))
  BY <1>4 DEF NoOwn
<1>6. OneOwn(q) => OneOwn(Re!Superseded(q))
  BY <1>4 DEF OneOwn
<1> QED BY <1>2, <1>3, <1>5, <1>6

LEMMA LightMarks ==
  /\ \A m \in LightRequests : /\ [m EXCEPT !.own = FALSE] \in LightRequests
                              /\ [m EXCEPT !.newest = FALSE] \in LightRequests
                              /\ [m EXCEPT !.own = FALSE].own = FALSE
                              /\ [m EXCEPT !.newest = FALSE].own = m.own
  /\ \A m \in LightAnswers : /\ [m EXCEPT !.own = FALSE] \in LightAnswers
                             /\ [m EXCEPT !.newest = FALSE] \in LightAnswers
                             /\ [m EXCEPT !.own = FALSE].own = FALSE
                             /\ [m EXCEPT !.newest = FALSE].own = m.own
<1>1. ASSUME NEW m \in LightRequests
      PROVE  /\ [m EXCEPT !.own = FALSE] \in LightRequests
             /\ [m EXCEPT !.newest = FALSE] \in LightRequests
             /\ [m EXCEPT !.own = FALSE].own = FALSE
             /\ [m EXCEPT !.newest = FALSE].own = m.own
  BY DEF LightRequests, Opposes
<1>2. ASSUME NEW m \in LightAnswers
      PROVE  /\ [m EXCEPT !.own = FALSE] \in LightAnswers
             /\ [m EXCEPT !.newest = FALSE] \in LightAnswers
             /\ [m EXCEPT !.own = FALSE].own = FALSE
             /\ [m EXCEPT !.newest = FALSE].own = m.own
  BY DEF LightAnswers
<1> QED BY <1>1, <1>2

LEMMA StaysFit ==
  ASSUME revision \in Nat,
         \/ revision' = revision /\ represented' = represented
         \/ revision' = revision + 1
  PROVE  /\ \A c : Opposes(c) => Opposes(c)'
         /\ LoadedLights \subseteq LoadedLights'
         /\ \A q \in Seq(LightRequests) : q \in Seq(LightRequests)'
         /\ \A q \in Seq(LightAnswers) : q \in Seq(LightAnswers)'
<1>1. ASSUME NEW c, Opposes(c) PROVE Opposes(c)'
  BY <1>1 DEF Opposes
<1>2. LoadedLights \subseteq LoadedLights'
  BY DEF LoadedLights
<1>3. LightRequests \subseteq LightRequests'
  BY <1>1 DEF LightRequests, LightReads
<1>4. LightAnswers \subseteq LightAnswers'
  BY <1>2 DEF LightAnswers, LightReads
<1>5. \A S, T : S \subseteq T => Seq(S) \subseteq Seq(T)
  OBVIOUS
<1> QED BY <1>1, <1>2, <1>3, <1>4, <1>5

\* A read is begun, when no operation of the control is under way or none is of this read.
LEMMA ReadBegins ==
  ASSUME LightTypes, NEW kind \in LightReads, NEW w \in Seq(LightAnswers), Re!BeginRead(kind, w)
  PROVE  /\ requests' \in Seq(LightRequests) /\ answers' \in Seq(LightAnswers)
         /\ NoOwn(requests) => OneOwn(requests')
         /\ kind = "notice" /\ NoOwn(requests) => NoOwn(requests')
         /\ kind = "notice" /\ OneOwn(requests) => OneOwn(requests')
         /\ NoOwn(w) => NoOwn(answers') /\ OneOwn(answers')
         /\ OneOwn(w) => OneOwn(answers')
<1>1. Re!Read(kind) \in LightRequests /\ (kind = "notice" => ~Re!Read(kind).own)
  BY DEF Re!Read, LightRequests
<1>2. /\ Re!Superseded(requests) \in Seq(LightRequests)
      /\ NoOwn(requests) => NoOwn(Re!Superseded(requests))
      /\ OneOwn(requests) => OneOwn(Re!Superseded(requests))
  <2>1. requests \in Seq(LightRequests)
    BY DEF LightTypes
  <2>2. \A m \in LightRequests : /\ [m EXCEPT !.own = FALSE] \in LightRequests
                                 /\ [m EXCEPT !.newest = FALSE] \in LightRequests
                                 /\ [m EXCEPT !.own = FALSE].own = FALSE
                                 /\ [m EXCEPT !.newest = FALSE].own = m.own
    BY LightMarks
  <2> QED BY <2>1, <2>2, OwnMarks
<1>3. /\ Re!Superseded(w) \in Seq(LightAnswers)
      /\ NoOwn(w) => NoOwn(Re!Superseded(w))
      /\ OneOwn(w) => OneOwn(Re!Superseded(w))
  <2>1. \A m \in LightAnswers : /\ [m EXCEPT !.own = FALSE] \in LightAnswers
                                /\ [m EXCEPT !.newest = FALSE] \in LightAnswers
                                /\ [m EXCEPT !.own = FALSE].own = FALSE
                                /\ [m EXCEPT !.newest = FALSE].own = m.own
    BY LightMarks
  <2> QED BY <2>1, OwnMarks
<1>4. NoOwn(w) => OneOwn(w)
  BY DEF NoOwn, OneOwn
<1>5. requests' = Append(Re!Superseded(requests), Re!Read(kind)) /\ answers' = Re!Superseded(w)
  BY DEF Re!BeginRead
<1>6. requests' \in Seq(LightRequests)
  BY <1>1, <1>2, <1>5
<1> QED BY <1>1, <1>2, <1>3, <1>4, <1>5, <1>6, OwnAppend

\* A message is served: what answers it is the control's own if it was.
LEMMA OwnServed ==
  ASSUME LightTypes, OwnInv, requests # <<>>, requests' = Tail(requests), busy' = busy,
         NEW a, a.own = Head(requests).own, answers' = Append(answers, a)
  PROVE  OwnInv'
<1>1. requests \in Seq(LightRequests) /\ answers \in Seq(LightAnswers)
  BY DEF LightTypes
<1>2. CASE Head(requests).own
  <2>1. ~NoOwn(requests) /\ NoOwn(answers) /\ busy
    BY <1>1, <1>2, OwnTail DEF OwnInv
  <2>2. NoOwn(requests') /\ OneOwn(requests') /\ OneOwn(answers')
    BY <1>1, <1>2, <2>1, OwnTail, OwnAppend DEF OwnInv
  <2> QED BY <2>1, <2>2 DEF OwnInv, NoOwn, OneOwn
<1>3. CASE ~Head(requests).own
  <2>1. /\ NoOwn(requests) => NoOwn(requests')
        /\ OneOwn(requests')
        /\ NoOwn(answers) => NoOwn(answers')
        /\ OneOwn(answers')
    BY <1>1, <1>3, OwnTail, OwnAppend DEF OwnInv
  <2> QED BY <2>1 DEF OwnInv, NoOwn, OneOwn
<1> QED BY <1>2, <1>3

LEMMA LightServes == ASSUME LightInv, Re!Serve PROVE LightInv'
<1> DEFINE m == Head(requests)
<1>1. /\ LightTypes /\ OwnInv /\ requests # <<>> /\ requests' = Tail(requests)
      /\ m \in LightRequests /\ requests' \in Seq(LightRequests)
      /\ UNCHANGED <<held, heldStatuses, admin, asset, confirmation, busy, needsRefresh>>
  BY DEF Re!Serve, LightInv, LightTypes, Re!data, Re!control
<1>2. m.own \in BOOLEAN /\ m.newest \in BOOLEAN
  BY <1>1 DEF LightRequests
<1>3. CASE Re!ServeWrite(m)
  <2> DEFINE a(ok) == [type |-> "written", own |-> m.own, newest |-> FALSE, ok |-> ok, revision |-> revision']
  <2>1. PICK ok \in BOOLEAN :
          /\ represented' = IF ~ok THEN represented
                            ELSE IF m.remove THEN represented \ {m.asset} ELSE represented \cup {m.asset}
          /\ revision' = IF ok THEN revision + 1 ELSE revision
          /\ answers' = Append(answers, a(ok))
    BY <1>3 DEF Re!ServeWrite
  <2>2. m.type = "write" /\ valid' = valid
    BY <1>3 DEF Re!ServeWrite
  <2>3. m.asset \in Assets
    BY <1>1, <2>2 DEF LightRequests, LightReads
  <2>4. represented' \subseteq Assets /\ revision' \in Nat
    BY <1>1, <2>1, <2>3 DEF LightTypes
  <2>5. a(ok) \in LightAnswers /\ a(ok).own = m.own
    BY <1>2, <2>4 DEF LightAnswers
  <2> HIDE DEF a
  <2>6. Append(answers, a(ok)) \in Seq(LightAnswers)
    BY <1>1, <2>5 DEF LightTypes
  <2>7. revision \in Nat /\ ((UNCHANGED <<revision, represented>>) \/ revision' = revision + 1)
    BY <1>1, <2>1 DEF LightTypes
  <2>8. LightTypes'
    BY <1>1, <2>1, <2>2, <2>4, <2>6, <2>7, StaysFit DEF LightTypes
  <2>9. OwnInv'
    BY <1>1, <2>1, <2>5, OwnServed
  <2> QED BY <2>8, <2>9 DEF LightInv
<1>4. CASE Re!ServeRead(m)
  <2> DEFINE a(ok) == [type |-> m.type, own |-> m.own, newest |-> m.newest, ok |-> ok, valid |-> valid,
                       registry |-> [represented |-> represented, revision |-> revision]]
  <2>1. PICK ok \in BOOLEAN : answers' = Append(answers, a(ok))
    BY <1>4 DEF Re!ServeRead
  <2>2. m.type # "write" /\ UNCHANGED <<represented, valid, revision>>
    BY <1>4 DEF Re!ServeRead, Re!server
  <2>3. m.type \in LightReads
    BY <1>1, <2>2 DEF LightRequests, LightReads
  <2>4. [represented |-> represented, revision |-> revision] \in LoadedLights
    BY <1>1 DEF LightTypes, LoadedLights
  <2>5. a(ok) \in LightAnswers /\ a(ok).own = m.own
    BY <1>1, <1>2, <2>3, <2>4 DEF LightAnswers, LightTypes
  <2> HIDE DEF a
  <2>6. Append(answers, a(ok)) \in Seq(LightAnswers)
    BY <1>1, <2>5 DEF LightTypes
  <2>7. LightTypes'
    BY <1>1, <2>1, <2>2, <2>6, StaysFit DEF LightTypes
  <2>8. OwnInv'
    BY <1>1, <2>1, <2>5, OwnServed
  <2> QED BY <2>7, <2>8 DEF LightInv
<1> QED BY <1>3, <1>4 DEF Re!Serve

LEMMA LightReceives == ASSUME LightInv, Re!Receive PROVE LightInv'
<1> DEFINE m == Head(answers)
<1>1. /\ LightTypes /\ OwnInv /\ answers # <<>>
      /\ m \in LightAnswers /\ Tail(answers) \in Seq(LightAnswers)
      /\ requests \in Seq(LightRequests) /\ answers \in Seq(LightAnswers) /\ revision \in Nat
      /\ UNCHANGED <<represented, valid, revision, admin, asset>>
  BY DEF Re!Receive, LightInv, LightTypes, Re!server
<1>2. /\ m.own => NoOwn(Tail(answers)) /\ NoOwn(requests) /\ busy
      /\ OneOwn(Tail(answers)) /\ (NoOwn(answers) => NoOwn(Tail(answers)))
  BY <1>1, OwnTail DEF OwnInv
<1>3. CASE Re!ReceiveWritten(m)
  <2>1. UNCHANGED <<held, heldStatuses>>
    BY <1>3 DEF Re!ReceiveWritten, Re!data
  <2>2. CASE ~m.own
    <3>1. answers' = Tail(answers) /\ UNCHANGED <<confirmation, busy, needsRefresh, requests>>
      BY <1>3, <2>2 DEF Re!ReceiveWritten, Re!control
    <3>2. LightTypes'
      BY <1>1, <2>1, <3>1, StaysFit DEF LightTypes
    <3> QED BY <1>1, <1>2, <3>1, <3>2 DEF LightInv, OwnInv, NoOwn, OneOwn
  <2>3. CASE m.own /\ m.ok
    <3>1. confirmation' = None /\ busy' = busy /\ Re!BeginRead("follow", Tail(answers))
      BY <1>3, <2>3 DEF Re!ReceiveWritten
    <3>2. /\ requests' \in Seq(LightRequests) /\ answers' \in Seq(LightAnswers)
          /\ OneOwn(requests') /\ NoOwn(answers') /\ OneOwn(answers')
      BY <1>1, <1>2, <2>3, <3>1, ReadBegins DEF LightReads
    <3>3. LightTypes'
      BY <1>1, <2>1, <3>1, <3>2, StaysFit DEF LightTypes
    <3> QED BY <1>2, <2>3, <3>1, <3>2, <3>3 DEF LightInv, OwnInv, NoOwn, OneOwn
  <2>4. CASE m.own /\ ~m.ok
    <3>1. confirmation' = None /\ busy' = FALSE /\ answers' = Tail(answers) /\ UNCHANGED requests
      BY <1>3, <2>4 DEF Re!ReceiveWritten, Re!Released
    <3>2. LightTypes'
      BY <1>1, <2>1, <3>1, StaysFit DEF LightTypes
    <3> QED BY <1>1, <1>2, <2>4, <3>1, <3>2 DEF LightInv, OwnInv, NoOwn, OneOwn
  <2> QED BY <2>2, <2>3, <2>4
<1>4. CASE Re!ReceiveRead(m)
  <2>1. m.type \in LightReads /\ answers' = Tail(answers) /\ UNCHANGED <<requests, confirmation>>
    BY <1>1, <1>4 DEF Re!ReceiveRead, LightAnswers
  <2>2. m.registry \in LoadedLights /\ m.valid \subseteq Assets
    BY <1>1, <2>1 DEF LightAnswers, LightReads
  <2>3. held' \in LoadedLights /\ heldStatuses' \subseteq Assets
    BY <1>1, <1>4, <2>2 DEF Re!ReceiveRead, Re!data, LightTypes
  <2>4. busy' = IF m.own THEN FALSE ELSE busy
    BY <1>4 DEF Re!ReceiveRead, Re!Released
  <2>5. LightTypes'
    BY <1>1, <2>1, <2>3, <2>4, StaysFit DEF LightTypes
  <2> QED BY <1>1, <1>2, <2>1, <2>4, <2>5 DEF LightInv, OwnInv, NoOwn, OneOwn
<1> QED BY <1>3, <1>4 DEF Re!Receive

LEMMA LightStep == ASSUME Re!RepresentationAssumption, LightInv, [Re!Next]_(Re!vars) PROVE LightInv'
<1> USE DEF Re!server, Re!socket, Re!data, Re!control
<1>0. LightTypes /\ OwnInv /\ revision \in Nat
  BY DEF LightInv, LightTypes
<1>1. CASE Re!OtherCommit
  <2>1. /\ revision' = revision + 1 /\ represented' \subseteq Assets /\ valid' \subseteq Assets
        /\ UNCHANGED <<requests, answers, held, heldStatuses, asset, busy, confirmation>>
    BY <1>0, <1>1 DEF Re!OtherCommit, Re!Toggled, LightTypes
  <2>2. LightTypes'
    BY <1>0, <2>1, StaysFit DEF LightTypes
  <2> QED BY <1>0, <2>1, <2>2 DEF LightInv, OwnInv, NoOwn, OneOwn
<1>2. CASE Re!TargetLost
  <2>1. /\ valid' \subseteq Assets
        /\ UNCHANGED <<represented, revision, requests, answers, held, heldStatuses, asset, busy, confirmation>>
    BY <1>0, <1>2 DEF Re!TargetLost, LightTypes
  <2>2. LightTypes'
    BY <1>0, <2>1, StaysFit DEF LightTypes
  <2> QED BY <1>0, <2>1, <2>2 DEF LightInv, OwnInv, NoOwn, OneOwn
<1>3. CASE Re!Notice
  <2>1. /\ Re!BeginRead("notice", answers)
        /\ UNCHANGED <<represented, valid, revision, held, heldStatuses, asset, busy, confirmation>>
    BY <1>3 DEF Re!Notice
  <2>2. answers \in Seq(LightAnswers)
    BY <1>0 DEF LightTypes
  <2>3. /\ requests' \in Seq(LightRequests) /\ answers' \in Seq(LightAnswers)
        /\ NoOwn(requests) => NoOwn(requests')
        /\ OneOwn(requests) => OneOwn(requests')
        /\ NoOwn(answers) => NoOwn(answers')
        /\ OneOwn(answers) => OneOwn(answers')
    BY <1>0, <2>1, <2>2, ReadBegins DEF LightReads
  <2>4. LightTypes'
    BY <1>0, <2>1, <2>3, StaysFit DEF LightTypes
  <2> QED BY <1>0, <2>1, <2>3, <2>4 DEF LightInv, OwnInv, NoOwn, OneOwn
<1>4. ASSUME NEW a \in Assets, Re!Show(a) PROVE LightInv'
  <2>1. /\ asset' = a /\ confirmation' = None /\ busy' = FALSE
        /\ requests' = Re!Disowned(requests) /\ answers' = Re!Disowned(answers)
        /\ UNCHANGED <<represented, valid, revision, held, heldStatuses>>
    BY <1>4 DEF Re!Show
  <2>2. /\ requests' \in Seq(LightRequests) /\ answers' \in Seq(LightAnswers)
        /\ NoOwn(requests') /\ NoOwn(answers')
    BY <1>0, <2>1, OwnMarks, LightMarks DEF LightTypes
  <2>3. LightTypes'
    BY <1>0, <2>1, <2>2, StaysFit DEF LightTypes
  <2> QED BY <2>1, <2>2, <2>3 DEF LightInv, OwnInv, NoOwn, OneOwn
<1>5. CASE Re!ChangeRights
  <2>1. /\ confirmation' = None
        /\ UNCHANGED <<represented, valid, revision, requests, answers, held, heldStatuses, asset, busy>>
    BY <1>5 DEF Re!ChangeRights
  <2>2. LightTypes'
    BY <1>0, <2>1, StaysFit DEF LightTypes
  <2> QED BY <1>0, <2>1, <2>2 DEF LightInv, OwnInv, NoOwn, OneOwn
<1>6. CASE Re!Prepare \/ Re!Cancel
  <2> DEFINE c == [asset |-> asset, revision |-> held.revision, remove |-> Re!Represented]
  <2>1. /\ confirmation' = None \/ confirmation' = c
        /\ UNCHANGED <<represented, valid, revision, requests, answers, held, heldStatuses, asset, busy>>
    BY <1>6 DEF Re!Prepare, Re!Cancel
  <2>2. c \in [asset : Assets, revision : Nat, remove : BOOLEAN] /\ Opposes(c)
    BY <1>0 DEF LightTypes, LoadedLights, Opposes, Re!Represented
  <2> HIDE DEF c
  <2>3. LightTypes'
    BY <1>0, <2>1, <2>2, StaysFit DEF LightTypes
  <2> QED BY <1>0, <2>1, <2>3 DEF LightInv, OwnInv, NoOwn, OneOwn
<1>7. CASE Re!Commit
  <2> DEFINE r == [type |-> "write", own |-> TRUE, newest |-> FALSE, asset |-> confirmation.asset,
                   remove |-> confirmation.remove, revision |-> confirmation.revision]
  <2>1. /\ ~busy /\ busy' = TRUE /\ confirmation # None /\ requests' = Append(requests, r)
        /\ UNCHANGED <<represented, valid, revision, answers, held, heldStatuses, asset, confirmation>>
    BY <1>7 DEF Re!Commit, Re!Basis
  <2>2. confirmation \in [asset : Assets, revision : Nat, remove : BOOLEAN] /\ Opposes(confirmation)
    BY <1>0, <2>1 DEF LightTypes
  <2>3. r \in LightRequests
    BY <2>2 DEF LightRequests, Opposes
  <2> HIDE DEF r
  <2>4. requests' \in Seq(LightRequests)
    BY <1>0, <2>1, <2>3 DEF LightTypes
  <2>5. OneOwn(requests') /\ NoOwn(answers)
    BY <1>0, <2>1, OwnAppend DEF LightTypes, OwnInv
  <2>6. LightTypes'
    BY <1>0, <2>1, <2>4, StaysFit DEF LightTypes
  <2> QED BY <1>0, <2>1, <2>5, <2>6 DEF LightInv, OwnInv, NoOwn, OneOwn
<1>8. CASE Re!Refresh
  <2>1. /\ ~busy /\ busy' = TRUE /\ confirmation' = None /\ Re!BeginRead("refresh", answers)
        /\ UNCHANGED <<represented, valid, revision, held, heldStatuses, asset>>
    BY <1>8 DEF Re!Refresh, Re!Idle
  <2>2. answers \in Seq(LightAnswers) /\ NoOwn(answers) /\ NoOwn(requests)
    BY <1>0, <2>1 DEF LightTypes, OwnInv
  <2>3. /\ requests' \in Seq(LightRequests) /\ answers' \in Seq(LightAnswers)
        /\ OneOwn(requests') /\ NoOwn(answers') /\ OneOwn(answers')
    BY <1>0, <2>1, <2>2, ReadBegins DEF LightReads
  <2>4. LightTypes'
    BY <1>0, <2>1, <2>3, StaysFit DEF LightTypes
  <2> QED BY <2>1, <2>3, <2>4 DEF LightInv, OwnInv, NoOwn, OneOwn
<1>9. CASE UNCHANGED Re!vars
  <2>1. UNCHANGED <<represented, valid, revision, requests, answers, held, heldStatuses, asset, confirmation, busy>>
    BY <1>9 DEF Re!vars
  <2>2. LightTypes'
    BY <1>0, <2>1, StaysFit DEF LightTypes
  <2> QED BY <1>0, <2>1, <2>2 DEF LightInv, OwnInv, NoOwn, OneOwn
<1> QED BY <1>1, <1>2, <1>3, <1>4, <1>5, <1>6, <1>7, <1>8, <1>9, LightServes, LightReceives DEF Re!Next

LEMMA LightInvariance == Re!RepresentationAssumption => (Re!Spec => []LightInv)
<1> SUFFICES ASSUME Re!RepresentationAssumption PROVE Re!Spec => []LightInv
  OBVIOUS
<1>1. Re!Init => LightInv
  <2> SUFFICES ASSUME Re!Init PROVE LightInv
    OBVIOUS
  <2>1. <<>> \in Seq(LightRequests) /\ <<>> \in Seq(LightAnswers) /\ DOMAIN <<>> = {}
    OBVIOUS
  <2>2. held \in LoadedLights
    BY DEF Re!Init, LoadedLights
  <2> QED BY <2>1, <2>2 DEF Re!Init, LightInv, LightTypes, OwnInv, NoOwn, OneOwn
<1>2. LightInv /\ [Re!Next]_(Re!vars) => LightInv'
  BY LightStep
<1> QED BY <1>1, <1>2, PTL DEF Re!Spec

\* A confirmed write makes what was not there, or removes what was
\* (representation-control.js _prepare, _commit).
THEOREM LightAsReviewed == Re!RepresentationAssumption => (Re!Spec => Re!WritesAsReviewed)
<1> SUFFICES ASSUME Re!RepresentationAssumption PROVE Re!Spec => Re!WritesAsReviewed
  OBVIOUS
<1>1. LightInv /\ [Re!Next]_(Re!vars) =>
        [Re!Serve /\ Head(requests).type = "write" /\ revision' # revision
           => Head(requests).remove = (Head(requests).asset \in represented)]_(Re!vars)
  <2> SUFFICES ASSUME LightInv, Re!Serve, Head(requests).type = "write", revision' # revision
               PROVE  Head(requests).remove = (Head(requests).asset \in represented)
    OBVIOUS
  <2> DEFINE m == Head(requests)
  <2>1. m \in LightRequests
    BY DEF Re!Serve, LightInv, LightTypes
  <2>2. Opposes(m)
    BY <2>1 DEF LightRequests, LightReads
  <2>3. m.revision = revision
    BY DEF Re!Serve, Re!ServeRead, Re!ServeWrite, Re!Applies, Re!server
  <2> QED BY <2>2, <2>3 DEF Opposes
<1> QED BY <1>1, LightInvariance, PTL DEF Re!Spec, Re!WritesAsReviewed

\* One operation at most is under way for the light on show (representation-control.js
\* _commit, _refresh).
THEOREM OneLightOperation == Re!RepresentationAssumption => (Re!Spec => []Re!OneOperation)
<1> SUFFICES ASSUME Re!RepresentationAssumption PROVE Re!Spec => []Re!OneOperation
  OBVIOUS
<1>1. LightInv => Re!OneOperation
  <2> SUFFICES ASSUME LightInv PROVE Re!OneOperation
    OBVIOUS
  <2> DEFINE R == {n \in DOMAIN requests : requests[n].own}
             A == {n \in DOMAIN answers : answers[n].own}
  <2>1. (\A i, j \in R : i = j) /\ (\A i, j \in A : i = j) /\ (R = {} \/ A = {})
    BY DEF LightInv, OwnInv, OneOwn, NoOwn
  <2> HIDE DEF R, A
  <2>3. Cardinality(R) + Cardinality(A) <= 1
    BY <2>1, OneOfTwo
  <2>4. \A S : Re!Cardinality(S) = Cardinality(S)
    BY DEF Re!Cardinality, Cardinality
  <2> QED BY <2>3, <2>4 DEF Re!OneOperation, R, A
<1> QED BY <1>1, LightInvariance, PTL


-----------------------------------------------------------------------------
(***************************************************************************)
(* ElementDetail: a form has one write under way, or none once it was      *)
(* accepted.                                                               *)
(***************************************************************************)

CONSTANTS Values, Actions

VARIABLES relations, action, editingAsset, sync, target, draft, saving, committed, refused

El == INSTANCE ElementDetail WITH toServer <- requests, toPanel <- answers

Forms == {"relate", "update"}

Pairs == (Assets \cup {None}) \X (Assets \cup {None})

Edits == UNION { [D -> Values] : D \in SUBSET El!Fields }

FormRequests ==
  [type : Forms, mounted : BOOLEAN, asset : Assets, changes : Edits \cup {<<>>},
   relation : Pairs \cup {<<>>}]
    \cup [type : {"refresh"}, of : Forms, mounted : BOOLEAN, asset : Assets]

FormAnswers ==
  [type : {"done"}, of : Forms, mounted : BOOLEAN, asset : Assets, data : El!Data]
    \cup [type : {"refused"}, of : Forms, mounted : BOOLEAN, asset : Assets]
    \cup [type : {"refreshed"}, of : Forms, mounted : BOOLEAN, asset : Assets, ok : BOOLEAN,
          assets : [Assets -> El!Data]]
    \cup [type : {"followed"}, mounted : BOOLEAN, asset : Assets, assets : [Assets -> El!Data]]

NoWriting(q) == \A n \in DOMAIN q : ~El!Writing(q[n])
OneWriting(q) == \A i, j \in DOMAIN q : El!Writing(q[i]) /\ El!Writing(q[j]) => i = j

FormTypes ==
  /\ stored \in [Assets -> El!Data] /\ known \in [Assets -> El!Data]
  /\ asset \in Assets /\ target \in Assets \cup {None} /\ draft \in El!Data
  /\ {editingAsset, saving, committed} \subseteq BOOLEAN
  /\ requests \in Seq(FormRequests) /\ answers \in Seq(FormAnswers)

\* A write is under way for a form that is there, and waits for it.
WritingInv ==
  /\ ~saving \/ committed \/ (action = None /\ ~editingAsset) => NoWriting(requests) /\ NoWriting(answers)
  /\ OneWriting(requests) /\ OneWriting(answers)
  /\ NoWriting(requests) \/ NoWriting(answers)

FormInv == FormTypes /\ WritingInv

LEMMA WritingAppend ==
  ASSUME NEW S, NEW q \in Seq(S), NEW m
  PROVE  /\ NoWriting(q) => OneWriting(Append(q, m))
         /\ NoWriting(q) /\ ~El!Writing(m) => NoWriting(Append(q, m))
         /\ OneWriting(q) /\ ~El!Writing(m) => OneWriting(Append(q, m))
<1>1. /\ DOMAIN q = 1..Len(q) /\ DOMAIN Append(q, m) = 1..(Len(q) + 1) /\ Len(q) \in Nat
      /\ \A n \in 1..Len(q) : Append(q, m)[n] = q[n]
      /\ Append(q, m)[Len(q) + 1] = m
  OBVIOUS
<1> QED BY <1>1 DEF NoWriting, OneWriting

LEMMA WritingTail ==
  ASSUME NEW S, NEW q \in Seq(S), q # <<>>
  PROVE  /\ NoWriting(q) => NoWriting(Tail(q)) /\ ~El!Writing(Head(q))
         /\ OneWriting(q) => OneWriting(Tail(q)) /\ (El!Writing(Head(q)) => NoWriting(Tail(q)))
<1>1. /\ DOMAIN q = 1..Len(q) /\ Len(q) \in Nat \ {0} /\ DOMAIN Tail(q) = 1..(Len(q) - 1)
      /\ \A n \in 1..(Len(q) - 1) : Tail(q)[n] = q[n + 1]
      /\ Head(q) = q[1]
  OBVIOUS
<1> QED BY <1>1 DEF NoWriting, OneWriting

LEMMA WritingStops ==
  ASSUME NEW S, NEW q \in Seq(S),
         \A m \in S : [m EXCEPT !.mounted = FALSE] \in S /\ [m EXCEPT !.mounted = FALSE].mounted = FALSE
  PROVE  /\ El!Unmounted(q) \in Seq(S) /\ NoWriting(El!Unmounted(q)) /\ OneWriting(El!Unmounted(q))
<1>1. DOMAIN q = 1..Len(q) /\ Len(q) \in Nat /\ \A n \in 1..Len(q) : q[n] \in S
  OBVIOUS
<1>2. \A n \in 1..Len(q) : [q[n] EXCEPT !.mounted = FALSE] \in S
  BY <1>1
<1>3. El!Unmounted(q) \in Seq(S)
  BY <1>1, <1>2, IsASeq DEF El!Unmounted
<1>4. NoWriting(El!Unmounted(q))
  BY <1>1 DEF El!Unmounted, NoWriting, El!Writing
<1> QED BY <1>3, <1>4 DEF NoWriting, OneWriting

LEMMA FormStops ==
  /\ \A m \in FormRequests : /\ [m EXCEPT !.mounted = FALSE] \in FormRequests
                             /\ [m EXCEPT !.mounted = FALSE].mounted = FALSE
  /\ \A m \in FormAnswers : /\ [m EXCEPT !.mounted = FALSE] \in FormAnswers
                            /\ [m EXCEPT !.mounted = FALSE].mounted = FALSE
<1>1. ASSUME NEW m \in FormRequests
      PROVE  [m EXCEPT !.mounted = FALSE] \in FormRequests /\ [m EXCEPT !.mounted = FALSE].mounted = FALSE
  BY DEF FormRequests
<1>2. ASSUME NEW m \in FormAnswers
      PROVE  [m EXCEPT !.mounted = FALSE] \in FormAnswers /\ [m EXCEPT !.mounted = FALSE].mounted = FALSE
  BY DEF FormAnswers
<1> QED BY <1>1, <1>2

\* A form that is taken out leaves no write under way.
LEMMA FormUnmounts ==
  ASSUME FormTypes, NEW a \in Assets, El!Unmount(a)
  PROVE  /\ target' = None /\ draft' \in El!Data /\ saving' = FALSE /\ committed' = FALSE
         /\ requests' \in Seq(FormRequests) /\ answers' \in Seq(FormAnswers)
         /\ WritingInv'
<1>1. /\ requests' = El!Unmounted(requests) /\ answers' = El!Unmounted(answers)
      /\ target' = None /\ draft' = known[a] /\ saving' = FALSE /\ committed' = FALSE
  BY DEF El!Unmount, El!Mount
<1>2. /\ requests' \in Seq(FormRequests) /\ NoWriting(requests')
      /\ answers' \in Seq(FormAnswers) /\ NoWriting(answers')
  BY <1>1, WritingStops, FormStops DEF FormTypes
<1>3. draft' \in El!Data
  BY <1>1 DEF FormTypes
<1> QED BY <1>1, <1>2, <1>3 DEF WritingInv, NoWriting, OneWriting

LEMMA FormServes == ASSUME FormInv, El!Serve PROVE FormInv'
<1> DEFINE m == Head(requests)
<1>1. /\ FormTypes /\ WritingInv /\ requests # <<>> /\ requests' = Tail(requests)
      /\ m \in FormRequests /\ requests' \in Seq(FormRequests)
      /\ requests \in Seq(FormRequests) /\ answers \in Seq(FormAnswers)
      /\ UNCHANGED <<known, asset, action, editingAsset, sync, target, draft, saving, committed, refused>>
  BY DEF El!Serve, FormInv, FormTypes, El!page, El!form
<1>2. m.mounted \in BOOLEAN /\ m.asset \in Assets
  BY <1>1 DEF FormRequests
<1>3. \E a \in FormAnswers : /\ answers' = Append(answers, a) /\ stored' \in [Assets -> El!Data]
                             /\ El!Writing(a) => El!Writing(m)
  <2>1. CASE El!ServeMutation(m)
    <3>1. m.type \in Forms /\ m.changes \in Edits \cup {<<>>}
      BY <1>1, <2>1 DEF El!ServeMutation, FormRequests, Forms
    <3>2. stored' \in [Assets -> El!Data]
      <4>1. CASE stored' = stored
        BY <1>1, <4>1 DEF FormTypes
      <4>2. CASE El!Update(m.asset, m.changes)
        <5>1. /\ stored \in [Assets -> El!Data] /\ \A f \in DOMAIN m.changes : m.changes[f] \in Values
          BY <1>1, <3>1 DEF FormTypes, Edits
        <5>2. \A d \in El!Data :
                [f \in El!Fields |-> IF f \in DOMAIN m.changes THEN m.changes[f] ELSE d[f]] \in El!Data
          BY <5>1 DEF El!Data
        <5> QED BY <1>2, <4>2, <5>1, <5>2 DEF El!Update
      <4> QED BY <2>1, <4>1, <4>2 DEF El!ServeMutation, El!server
    <3> DEFINE d == [type |-> "done", of |-> m.type, mounted |-> m.mounted, asset |-> m.asset,
                     data |-> stored'[m.asset]]
               r == [type |-> "refused", of |-> m.type, mounted |-> m.mounted, asset |-> m.asset]
    <3>3. answers' = Append(answers, d) \/ answers' = Append(answers, r)
      BY <2>1 DEF El!ServeMutation, El!Answer
    <3>4. stored'[m.asset] \in El!Data
      BY <1>2, <3>2
    <3>5. d \in FormAnswers
      BY <1>2, <3>1, <3>4 DEF FormAnswers
    <3>6. r \in FormAnswers
      BY <1>2, <3>1 DEF FormAnswers
    <3>7. (El!Writing(d) => El!Writing(m)) /\ (El!Writing(r) => El!Writing(m))
      BY <3>1 DEF El!Writing, Forms
    <3> HIDE DEF d, r
    <3> QED BY <3>2, <3>3, <3>5, <3>6, <3>7
  <2>2. CASE El!ServeRefresh(m)
    <3> DEFINE a(ok) == [type |-> "refreshed", of |-> m.of, mounted |-> m.mounted, asset |-> m.asset,
                         ok |-> ok, assets |-> stored]
    <3>1. PICK ok \in BOOLEAN : answers' = Append(answers, a(ok))
      BY <2>2 DEF El!ServeRefresh, El!Answer
    <3>2. m.type = "refresh" /\ stored' = stored
      BY <2>2 DEF El!ServeRefresh, El!server
    <3>3. m.of \in Forms
      BY <1>1, <3>2 DEF FormRequests, Forms
    <3>4. a(ok) \in FormAnswers /\ ~El!Writing(a(ok))
      BY <1>1, <1>2, <3>3 DEF FormAnswers, FormTypes, El!Writing
    <3> HIDE DEF a
    <3> QED BY <1>1, <3>1, <3>2, <3>4 DEF FormTypes
  <2> QED BY <2>1, <2>2 DEF El!Serve
<1>4. PICK a \in FormAnswers : /\ answers' = Append(answers, a) /\ stored' \in [Assets -> El!Data]
                               /\ El!Writing(a) => El!Writing(m)
  BY <1>3
<1>5. FormTypes'
  <2>1. answers' \in Seq(FormAnswers)
    BY <1>1, <1>4
  <2> QED BY <1>1, <1>4, <2>1 DEF FormTypes, FormRequests, FormAnswers
<1>6. WritingInv'
  <2>1. CASE El!Writing(m)
    <3>1. ~NoWriting(requests) /\ NoWriting(answers) /\ NoWriting(requests') /\ OneWriting(requests')
          /\ OneWriting(answers')
      BY <1>1, <1>4, <2>1, WritingTail, WritingAppend DEF WritingInv
    <3> QED BY <1>1, <3>1 DEF WritingInv, NoWriting, OneWriting
  <2>2. CASE ~El!Writing(m)
    <3>1. /\ NoWriting(requests) => NoWriting(requests')
          /\ OneWriting(requests')
          /\ NoWriting(answers) => NoWriting(answers')
          /\ OneWriting(answers')
      BY <1>1, <1>4, <2>2, WritingTail, WritingAppend DEF WritingInv
    <3> QED BY <1>1, <3>1 DEF WritingInv, NoWriting, OneWriting
  <2> QED BY <2>1, <2>2
<1> QED BY <1>5, <1>6 DEF FormInv

LEMMA FormReceives == ASSUME FormInv, El!Receive PROVE FormInv'
<1> DEFINE m == Head(answers)
<1>1. /\ FormTypes /\ WritingInv /\ answers # <<>>
      /\ m \in FormAnswers /\ Tail(answers) \in Seq(FormAnswers)
      /\ requests \in Seq(FormRequests) /\ answers \in Seq(FormAnswers)
      /\ UNCHANGED <<stored, relations, revision, asset>>
  BY DEF El!Receive, FormInv, FormTypes, El!server
<1>2. m.mounted \in BOOLEAN /\ m.asset \in Assets
  BY <1>1 DEF FormAnswers
<1>3. /\ El!Writing(m) => NoWriting(Tail(answers)) /\ NoWriting(requests)
      /\ OneWriting(Tail(answers))
      /\ NoWriting(answers) => NoWriting(Tail(answers))
  BY <1>1, WritingTail DEF WritingInv
<1>4. NoWriting(requests) => OneWriting(requests)
  BY DEF NoWriting, OneWriting
<1>5. CASE El!ReceiveDone(m)
  <2> DEFINE r == [type |-> "refresh", of |-> m.of, mounted |-> m.mounted, asset |-> m.asset]
  <2>1. /\ m.type = "done" /\ requests' = Append(requests, r) /\ answers' = Tail(answers)
        /\ UNCHANGED <<action, editingAsset, sync, target, draft, refused>>
        /\ known' = IF m.mounted /\ m.of = "update" THEN [known EXCEPT ![m.asset] = m.data] ELSE known
        /\ IF m.mounted THEN committed' = TRUE /\ saving' = (m.of = "update")
                        ELSE UNCHANGED <<committed, saving>>
    BY <1>5 DEF El!ReceiveDone, El!page
  <2>2. m.of \in Forms /\ m.data \in El!Data
    BY <1>1, <2>1 DEF FormAnswers
  <2>3. r \in FormRequests /\ ~El!Writing(r)
    BY <1>2, <2>2 DEF FormRequests, El!Writing
  <2> HIDE DEF r
  <2>4. requests' \in Seq(FormRequests)
    BY <1>1, <2>1, <2>3
  <2>5. known' \in [Assets -> El!Data]
    BY <1>1, <1>2, <2>1, <2>2 DEF FormTypes
  <2>6. FormTypes'
    BY <1>1, <2>1, <2>4, <2>5 DEF FormTypes, FormRequests, FormAnswers
  <2>7. /\ NoWriting(requests) => NoWriting(requests')
        /\ OneWriting(requests) => OneWriting(requests')
    BY <1>1, <2>1, <2>3, WritingAppend
  <2>8. m.mounted => El!Writing(m)
    BY <2>1 DEF El!Writing
  <2>9. WritingInv'
    BY <1>1, <1>2, <1>3, <1>4, <2>1, <2>7, <2>8 DEF WritingInv, NoWriting, OneWriting
  <2> QED BY <2>6, <2>9 DEF FormInv
<1>6. CASE El!ReceiveRefused(m)
  <2>1. /\ m.type = "refused" /\ answers' = Tail(answers)
        /\ UNCHANGED <<requests, known, action, editingAsset, sync, target, draft, committed>>
        /\ saving' = IF m.mounted THEN FALSE ELSE saving
    BY <1>6 DEF El!ReceiveRefused, El!page
  <2>2. FormTypes'
    BY <1>1, <2>1 DEF FormTypes, FormRequests, FormAnswers
  <2>3. m.mounted => El!Writing(m)
    BY <2>1 DEF El!Writing
  <2>4. WritingInv'
    BY <1>1, <1>2, <1>3, <1>4, <2>1, <2>3 DEF WritingInv, NoWriting, OneWriting
  <2> QED BY <2>2, <2>4 DEF FormInv
<1>7. CASE El!ReceiveRefreshed(m)
  <2>1. m.type = "refreshed" /\ El!CloseForm(m)
        /\ known' = IF m.ok /\ ~El!Superseded THEN m.assets ELSE known
    BY <1>7 DEF El!ReceiveRefreshed
  <2>2. m.assets \in [Assets -> El!Data]
    BY <1>1, <2>1 DEF FormAnswers
  <2>3. known' \in [Assets -> El!Data]
    BY <1>1, <2>1, <2>2 DEF FormTypes
  <2>4. editingAsset' \in BOOLEAN
    BY <2>1 DEF El!CloseForm
  <2>5. CASE El!RelationForm' # El!RelationForm \/ editingAsset' # editingAsset
    <3>1. /\ target' = None /\ draft' = known'[asset] /\ saving' = FALSE /\ committed' = FALSE
          /\ requests' = El!Unmounted(requests) /\ answers' = El!Unmounted(Tail(answers))
      BY <2>1, <2>5 DEF El!CloseForm
    <3>2. /\ requests' \in Seq(FormRequests) /\ NoWriting(requests')
          /\ answers' \in Seq(FormAnswers) /\ NoWriting(answers')
      BY <1>1, <3>1, WritingStops, FormStops
    <3>3. FormTypes'
      BY <1>1, <2>3, <2>4, <3>1, <3>2 DEF FormTypes, FormRequests, FormAnswers
    <3> QED BY <3>1, <3>2, <3>3 DEF FormInv, WritingInv, NoWriting, OneWriting
  <2>6. CASE ~(El!RelationForm' # El!RelationForm \/ editingAsset' # editingAsset)
    <3>1. answers' = Tail(answers) /\ UNCHANGED <<requests, target, draft, saving, committed, refused>>
      BY <2>1, <2>6 DEF El!CloseForm, El!form
    <3>2. action' = None /\ ~editingAsset' => action = None /\ ~editingAsset
      BY <2>6 DEF El!RelationForm
    <3>3. FormTypes'
      BY <1>1, <2>3, <2>4, <3>1 DEF FormTypes, FormRequests, FormAnswers
    <3>4. WritingInv'
      BY <1>1, <1>3, <3>1, <3>2 DEF WritingInv, NoWriting, OneWriting
    <3> QED BY <3>3, <3>4 DEF FormInv
  <2> QED BY <2>5, <2>6
<1>8. CASE El!ReceiveFollowed(m)
  <2>1. /\ m.type = "followed" /\ known' = IF El!Superseded THEN known ELSE m.assets
        /\ answers' = Tail(answers)
        /\ UNCHANGED <<requests, action, editingAsset, sync, target, draft, saving, committed, refused>>
    BY <1>8 DEF El!ReceiveFollowed, El!page, El!form
  <2>2. m.assets \in [Assets -> El!Data]
    BY <1>1, <2>1 DEF FormAnswers
  <2>3. FormTypes'
    BY <1>1, <2>1, <2>2 DEF FormTypes, FormRequests, FormAnswers
  <2>4. WritingInv'
    BY <1>1, <1>3, <2>1 DEF WritingInv, NoWriting, OneWriting
  <2> QED BY <2>3, <2>4 DEF FormInv
<1> QED BY <1>5, <1>6, <1>7, <1>8 DEF El!Receive

\* A form that writes nothing yet sends its write.
LEMMA FormSaves ==
  ASSUME FormInv, ~saving, ~committed, NEW r \in FormRequests, requests' = Append(requests, r), saving' = TRUE,
         action # None \/ editingAsset,
         UNCHANGED <<stored, answers, known, asset, action, editingAsset, target, draft, committed>>
  PROVE  FormInv'
<1>1. /\ FormTypes /\ WritingInv /\ requests \in Seq(FormRequests)
      /\ NoWriting(requests) /\ NoWriting(answers)
  BY DEF FormInv, FormTypes, WritingInv
<1>2. requests' \in Seq(FormRequests) /\ OneWriting(requests')
  BY <1>1, WritingAppend
<1>3. FormTypes'
  BY <1>1, <1>2 DEF FormTypes, FormRequests, FormAnswers
<1> QED BY <1>1, <1>2, <1>3 DEF FormInv, WritingInv, NoWriting, OneWriting

LEMMA FormStep == ASSUME El!DetailAssumption, FormInv, [El!Next]_(El!vars) PROVE FormInv'
<1> USE DEF El!server, El!socket, El!page, El!form
<1>0. FormTypes /\ WritingInv
  BY DEF FormInv
<1>1. CASE El!OtherCommit
  <2>1. /\ stored' \in [Assets -> El!Data]
        /\ UNCHANGED <<requests, answers, known, asset, action, editingAsset, target, draft, saving, committed>>
    <3>1. PICK a \in Assets, f \in El!Fields, v \in Values : stored' = [stored EXCEPT ![a][f] = v]
      BY <1>1 DEF El!OtherCommit
    <3>2. [stored[a] EXCEPT ![f] = v] \in El!Data
      BY <1>0 DEF FormTypes, El!Data
    <3> QED BY <1>0, <1>1, <3>1, <3>2 DEF El!OtherCommit, FormTypes
  <2>2. FormTypes'
    BY <1>0, <2>1 DEF FormTypes, FormRequests, FormAnswers
  <2> QED BY <1>0, <2>1, <2>2 DEF FormInv, WritingInv, NoWriting, OneWriting
<1>2. CASE El!Follow
  <2> DEFINE a == [type |-> "followed", mounted |-> FALSE, asset |-> asset, assets |-> stored]
  <2>1. /\ answers' = Append(answers, a)
        /\ UNCHANGED <<stored, requests, known, asset, action, editingAsset, target, draft, saving, committed>>
    BY <1>2 DEF El!Follow, El!Answer
  <2>2. a \in FormAnswers /\ ~El!Writing(a)
    BY <1>0 DEF FormAnswers, FormTypes, El!Writing
  <2> HIDE DEF a
  <2>3. answers \in Seq(FormAnswers) /\ answers' \in Seq(FormAnswers)
    BY <1>0, <2>1, <2>2 DEF FormTypes
  <2>4. /\ NoWriting(answers) => NoWriting(answers')
        /\ OneWriting(answers) => OneWriting(answers')
    BY <2>1, <2>2, <2>3, WritingAppend
  <2>5. FormTypes'
    BY <1>0, <2>1, <2>3 DEF FormTypes, FormRequests, FormAnswers
  <2> QED BY <1>0, <2>1, <2>4, <2>5 DEF FormInv, WritingInv, NoWriting, OneWriting
<1>3. ASSUME NEW a \in Assets, El!ChangeAsset(a) PROVE FormInv'
  <2>1. /\ asset' = a /\ editingAsset' = FALSE /\ El!Unmount(a) /\ UNCHANGED <<stored, known>>
    BY <1>3 DEF El!ChangeAsset
  <2> QED BY <1>0, <2>1, FormUnmounts DEF FormInv, FormTypes, FormRequests, FormAnswers
<1>4. ASSUME NEW x \in Actions, El!OpenAction(x) PROVE FormInv'
  <2>1. /\ action = None /\ ~editingAsset /\ El!Mount(asset) /\ UNCHANGED <<stored, requests, answers, known, asset, editingAsset>>
    BY <1>4 DEF El!OpenAction
  <2>2. NoWriting(requests) /\ NoWriting(answers)
    BY <1>0, <2>1 DEF WritingInv
  <2>3. target' = None /\ draft' \in El!Data /\ saving' = FALSE /\ committed' = FALSE
    BY <1>0, <2>1 DEF El!Mount, FormTypes
  <2>4. FormTypes'
    BY <1>0, <2>1, <2>3 DEF FormTypes, FormRequests, FormAnswers
  <2> QED BY <2>1, <2>2, <2>4 DEF FormInv, WritingInv, NoWriting, OneWriting
<1>5. CASE El!CancelAction
  <2>1. El!Unmount(asset) /\ UNCHANGED <<stored, known, asset, editingAsset>> /\ asset \in Assets
    BY <1>0, <1>5 DEF El!CancelAction, FormTypes
  <2> QED BY <1>0, <2>1, FormUnmounts DEF FormInv, FormTypes, FormRequests, FormAnswers
<1>6. ASSUME NEW o \in Assets, El!Choose(o) PROVE FormInv'
  <2>1. target' = o /\ UNCHANGED <<stored, requests, answers, known, asset, action, editingAsset, draft, saving, committed>>
    BY <1>6 DEF El!Choose
  <2>2. FormTypes'
    BY <1>0, <2>1 DEF FormTypes, FormRequests, FormAnswers
  <2> QED BY <1>0, <2>1, <2>2 DEF FormInv, WritingInv, NoWriting, OneWriting
<1>7. CASE El!SaveRelation
  <2> DEFINE r == [type |-> "relate", mounted |-> TRUE, asset |-> asset, changes |-> <<>>,
                   relation |-> IF action = "incoming" THEN <<target, asset>> ELSE <<asset, target>>]
  <2>1. /\ ~saving /\ ~committed /\ saving' = TRUE /\ action # None /\ requests' = Append(requests, r)
        /\ UNCHANGED <<stored, answers, known, asset, action, editingAsset, target, draft, committed>>
    BY <1>7 DEF El!SaveRelation, El!NotSaved, El!Request, El!RelationForm
  <2>2. r.relation \in Pairs
    BY <1>0 DEF FormTypes, Pairs
  <2>3. r \in FormRequests
    BY <1>0, <2>2 DEF FormTypes, FormRequests, Forms
  <2> HIDE DEF r
  <2> QED BY <2>1, <2>3, FormSaves
<1>8. CASE El!EditAsset
  <2>1. El!Unmount(asset) /\ editingAsset' = TRUE /\ UNCHANGED <<stored, known, asset>> /\ asset \in Assets
    BY <1>0, <1>8 DEF El!EditAsset, FormTypes
  <2> QED BY <1>0, <2>1, FormUnmounts DEF FormInv, FormTypes, FormRequests, FormAnswers
<1>9. CASE El!CancelAsset \/ El!SaveNothing
  <2>1. El!Unmount(asset) /\ editingAsset' = FALSE /\ UNCHANGED <<stored, known, asset>> /\ asset \in Assets
    BY <1>0, <1>9 DEF El!CancelAsset, El!SaveNothing, FormTypes
  <2> QED BY <1>0, <2>1, FormUnmounts DEF FormInv, FormTypes, FormRequests, FormAnswers
<1>10. CASE El!SaveAsset
  <2> DEFINE c == [f \in El!Changed |-> draft[f]]
             r == [type |-> "update", mounted |-> TRUE, asset |-> asset, changes |-> c, relation |-> <<>>]
  <2>1. /\ ~saving /\ ~committed /\ saving' = TRUE /\ editingAsset /\ requests' = Append(requests, r)
        /\ UNCHANGED <<stored, answers, known, asset, action, editingAsset, target, draft, committed>>
    BY <1>10 DEF El!SaveAsset, El!NotSaved, El!Request
  <2>2. c \in Edits
    <3>1. El!Changed \in SUBSET El!Fields
      BY DEF El!Changed
    <3>2. c \in [El!Changed -> Values]
      BY <1>0, <3>1 DEF FormTypes, El!Data
    <3> HIDE DEF c
    <3> QED BY <3>1, <3>2 DEF Edits
  <2> HIDE DEF c
  <2>3. r \in FormRequests
    BY <1>0, <2>2 DEF FormTypes, FormRequests, Forms
  <2> HIDE DEF r
  <2> QED BY <2>1, <2>3, FormSaves
<1>11. ASSUME NEW f \in El!Fields, NEW v \in Values, El!Input(f, v) PROVE FormInv'
  <2>1. /\ draft' = [draft EXCEPT ![f] = v]
        /\ UNCHANGED <<stored, requests, answers, known, asset, action, editingAsset, target, saving, committed>>
    BY <1>11 DEF El!Input
  <2>2. draft' \in El!Data
    BY <1>0, <2>1 DEF FormTypes, El!Data
  <2>3. FormTypes'
    BY <1>0, <2>1, <2>2 DEF FormTypes, FormRequests, FormAnswers
  <2> QED BY <1>0, <2>1, <2>3 DEF FormInv, WritingInv, NoWriting, OneWriting
<1>12. CASE UNCHANGED El!vars
  <2>1. UNCHANGED <<stored, requests, answers, known, asset, action, editingAsset, target, draft, saving, committed>>
    BY <1>12 DEF El!vars
  <2>2. FormTypes'
    BY <1>0, <2>1 DEF FormTypes, FormRequests, FormAnswers
  <2> QED BY <1>0, <2>1, <2>2 DEF FormInv, WritingInv, NoWriting, OneWriting
<1> QED BY <1>1, <1>2, <1>3, <1>4, <1>5, <1>6, <1>7, <1>8, <1>9, <1>10, <1>11, <1>12, FormServes, FormReceives
        DEF El!Next

\* However often a form is pressed it has one write under way at most, and none besides the
\* one that was accepted (contextual-relation-editor.js, human-asset-editor.js).
THEOREM FormsWriteOnce == El!DetailAssumption => (El!Spec => []El!OneWrite)
<1> SUFFICES ASSUME El!DetailAssumption PROVE El!Spec => []El!OneWrite
  OBVIOUS
<1>1. El!Init => FormInv
  <2> SUFFICES ASSUME El!Init PROVE FormInv
    OBVIOUS
  <2>1. <<>> \in Seq(FormRequests) /\ <<>> \in Seq(FormAnswers) /\ DOMAIN <<>> = {}
    OBVIOUS
  <2>2. stored \in [Assets -> El!Data]
    BY DEF El!Init, El!Data
  <2> QED BY <2>1, <2>2 DEF El!Init, FormInv, FormTypes, WritingInv, NoWriting, OneWriting
<1>2. FormInv /\ [El!Next]_(El!vars) => FormInv'
  BY FormStep
<1>3. FormInv => El!OneWrite
  <2> SUFFICES ASSUME FormInv PROVE El!OneWrite
    OBVIOUS
  <2> DEFINE R == {n \in DOMAIN requests : El!Writing(requests[n])}
             A == {n \in DOMAIN answers : El!Writing(answers[n])}
  <2>1. (\A i, j \in R : i = j) /\ (\A i, j \in A : i = j) /\ (R = {} \/ A = {})
    BY DEF FormInv, WritingInv, OneWriting, NoWriting
  <2>2. committed => \A n \in DOMAIN requests : ~El!Writing(requests[n])
    BY DEF FormInv, WritingInv, NoWriting
  <2> HIDE DEF R, A
  <2>3. Cardinality(R) + Cardinality(A) <= 1
    BY <2>1, OneOfTwo
  <2>4. \A S : El!Cardinality(S) = Cardinality(S)
    BY DEF El!Cardinality, Cardinality
  <2> QED BY <2>2, <2>3, <2>4 DEF El!OneWrite, R, A
<1> QED BY <1>1, <1>2, <1>3, PTL DEF El!Spec


-----------------------------------------------------------------------------
(***************************************************************************)
(* AssetTopology: an operation of its own is of the asset on show.         *)
(***************************************************************************)

CONSTANTS Types

VARIABLES editing, confirm, failed, direction, type, other

At == INSTANCE AssetTopology WITH toServer <- requests, toPanel <- answers, error <- failed

Whose == {"own", "past"}

Links == [source : Assets \cup {None}, type : Types \cup {None}, target : Assets \cup {None}]

Ours(m) == m.whose = "own" => m.asset = asset

LinkRequests ==
  { m \in [by : {"editor", "topology"}, whose : Whose, asset : Assets, type : {"create", "delete"},
           relation : Links] : Ours(m) }
    \cup [type : {"refresh"}, by : {"editor", "topology"}, whose : Whose, asset : Assets]

LinkAnswers ==
  { m \in [by : {"editor", "topology"}, whose : Whose, asset : Assets, relation : Links,
           type : {"created", "not_created", "deleted", "not_deleted"}] : Ours(m) }
    \cup [type : {"refreshed"}, by : {"editor", "topology", "panel"}, whose : Whose, asset : Assets,
          ok : BOOLEAN, relations : SUBSET At!Relation]

LinksInv ==
  /\ relations \subseteq At!Relation /\ known \subseteq At!Relation /\ asset \in Assets
  /\ type \in Types \cup {None} /\ other \in (Assets \cup {None}) \ {asset}
  /\ \A r \in {confirm, deleting} : r # None => r \in At!Relation /\ asset \in {r.source, r.target}
  /\ requests \in Seq(LinkRequests) /\ answers \in Seq(LinkAnswers)

LEMMA PastSeq ==
  ASSUME NEW S, NEW T, NEW q \in Seq(S), NEW who,
         \A m \in S : IF m.by \in who /\ ~(m.by = "editor" /\ m.type \in {"refresh", "refreshed"})
                      THEN [m EXCEPT !.whose = "past"] \in T ELSE m \in T
  PROVE  At!Past(q, who) \in Seq(T)
<1>1. DOMAIN q = 1..Len(q) /\ Len(q) \in Nat /\ \A n \in 1..Len(q) : q[n] \in S
  OBVIOUS
<1>2. \A n \in 1..Len(q) :
        (IF q[n].by \in who /\ ~(q[n].by = "editor" /\ q[n].type \in {"refresh", "refreshed"})
         THEN [q[n] EXCEPT !.whose = "past"] ELSE q[n]) \in T
  BY <1>1
<1> QED BY <1>1, <1>2, IsASeq DEF At!Past

LEMMA PastLength ==
  ASSUME NEW S, NEW q \in Seq(S), NEW who PROVE Len(At!Past(q, who)) = Len(q)
<1>1. DOMAIN q = 1..Len(q) /\ Len(q) \in Nat
  OBVIOUS
<1> QED BY <1>1 DEF At!Past

\* An operation is of the past when its asset is left, or another is begun.
LEMMA PastLinks ==
  ASSUME NEW who, asset' = asset \/ {"editor", "topology"} \subseteq who, LinksInv
  PROVE  /\ At!Past(requests, who) \in Seq(LinkRequests)' /\ At!Past(answers, who) \in Seq(LinkAnswers)'
         /\ Len(At!Past(answers, who)) = Len(answers)
<1>1. ASSUME NEW m \in LinkRequests
      PROVE  IF m.by \in who /\ ~(m.by = "editor" /\ m.type \in {"refresh", "refreshed"})
             THEN [m EXCEPT !.whose = "past"] \in LinkRequests' ELSE m \in LinkRequests'
  BY DEF LinkRequests, Ours, Links, Whose
<1>2. ASSUME NEW m \in LinkAnswers
      PROVE  IF m.by \in who /\ ~(m.by = "editor" /\ m.type \in {"refresh", "refreshed"})
             THEN [m EXCEPT !.whose = "past"] \in LinkAnswers' ELSE m \in LinkAnswers'
  <2>1. CASE m.type = "refreshed"
    <3>1. At!Relation' = At!Relation
      BY DEF At!Relation
    <3> QED BY <2>1, <3>1 DEF LinkAnswers, Whose
  <2>2. CASE m.type # "refreshed"
    BY <2>2 DEF LinkAnswers, Ours, Links, Whose
  <2> QED BY <2>1, <2>2
<1>3. requests \in Seq(LinkRequests) /\ answers \in Seq(LinkAnswers)
  BY DEF LinksInv
<1> HIDE DEF LinkRequests, LinkAnswers
<1>4. At!Past(requests, who) \in Seq(LinkRequests')
  BY <1>1, <1>3, PastSeq
<1>5. answers \in Seq(LinkAnswers)
  BY <1>3
<1>6. \A m \in LinkAnswers :
        IF m.by \in who /\ ~(m.by = "editor" /\ m.type \in {"refresh", "refreshed"})
        THEN [m EXCEPT !.whose = "past"] \in LinkAnswers' ELSE m \in LinkAnswers'
  BY <1>2
<1> DEFINE T == LinkAnswers'
<1> HIDE DEF T
<1>7. \A m \in LinkAnswers :
        IF m.by \in who /\ ~(m.by = "editor" /\ m.type \in {"refresh", "refreshed"})
        THEN [m EXCEPT !.whose = "past"] \in T ELSE m \in T
  BY <1>6 DEF T
<1>8. At!Past(answers, who) \in Seq(T)
  BY <1>5, <1>7, PastSeq
<1>9. Len(At!Past(answers, who)) = Len(answers)
  BY <1>5, PastLength
<1> QED BY <1>4, <1>8, <1>9 DEF T

\* While an asset is on show its messages stay what they are.
LEMMA SameLinks ==
  ASSUME asset' = asset PROVE LinkRequests' = LinkRequests /\ LinkAnswers' = LinkAnswers /\ At!Relation' = At!Relation
BY DEF LinkRequests, LinkAnswers, Ours, Links, Whose, At!Relation

LEMMA LinkServes == ASSUME LinksInv, At!Serve PROVE LinksInv' /\ ~(Len(answers') < Len(answers))
<1> DEFINE m == Head(requests)
<1>1. /\ m \in LinkRequests /\ requests' \in Seq(LinkRequests) /\ answers \in Seq(LinkAnswers)
      /\ UNCHANGED <<known, asset, type, other, confirm, deleting>>
  BY DEF At!Serve, LinksInv, At!topology, At!editor, At!draft
<1>2. \E a \in LinkAnswers : answers' = Append(answers, a) /\ relations' \subseteq At!Relation
  <2>1. CASE At!ServeMutation(m)
    <3>1. m.type \in {"create", "delete"}
      BY <2>1 DEF At!ServeMutation
    <3>2. /\ m.by \in {"editor", "topology"} /\ m.whose \in Whose /\ m.asset \in Assets /\ m.relation \in Links
          /\ Ours(m)
          /\ m = [by |-> m.by, whose |-> m.whose, asset |-> m.asset, type |-> m.type, relation |-> m.relation]
      BY <1>1, <3>1 DEF LinkRequests
    <3>3. relations' \subseteq At!Relation
      BY <2>1 DEF At!ServeMutation, At!Committable, At!server, LinksInv
    <3>4. \A t \in {"created", "not_created", "deleted", "not_deleted"} : [m EXCEPT !.type = t] \in LinkAnswers
      BY <3>2 DEF LinkAnswers, Ours
    <3>5. \E t \in {"created", "not_created", "deleted", "not_deleted"} :
            answers' = Append(answers, [m EXCEPT !.type = t])
      BY <2>1, <3>1 DEF At!ServeMutation, At!Answer
    <3> QED BY <3>3, <3>4, <3>5
  <2>2. CASE At!ServeRefresh(m)
    <3> DEFINE a(ok) == [type |-> "refreshed", by |-> m.by, whose |-> m.whose, asset |-> m.asset,
                         ok |-> ok, relations |-> relations]
    <3>1. PICK ok \in BOOLEAN : answers' = Append(answers, a(ok))
      BY <2>2 DEF At!ServeRefresh, At!Answer
    <3>2. m.by \in {"editor", "topology"} /\ m.whose \in Whose /\ m.asset \in Assets /\ relations' = relations
      BY <1>1, <2>2 DEF LinkRequests, At!ServeRefresh, At!server
    <3>3. a(ok) \in LinkAnswers
      BY <3>2 DEF LinkAnswers, LinksInv
    <3> HIDE DEF a
    <3> QED BY <3>1, <3>2, <3>3 DEF LinksInv
  <2> QED BY <2>1, <2>2 DEF At!Serve
<1>3. answers' \in Seq(LinkAnswers) /\ ~(Len(answers') < Len(answers)) /\ relations' \subseteq At!Relation
  BY <1>1, <1>2
<1> QED BY <1>1, <1>3, SameLinks DEF LinksInv

\* A late answer changes nothing of what is shown of another asset.
LEMMA LinkReceives ==
  ASSUME LinksInv, At!Receive
  PROVE  LinksInv' /\ (Head(answers).asset # asset => UNCHANGED <<At!editor, editing, deleting, confirm, failed>>)
<1> DEFINE m == Head(answers)
<1> USE DEF At!topology, At!editor, At!draft
<1>1. /\ m \in LinkAnswers /\ answers' \in Seq(LinkAnswers) /\ asset' = asset /\ relations' = relations
  BY DEF At!Receive, LinksInv, At!server
<1>2. m.type # "refreshed" => /\ m.by \in {"editor", "topology"} /\ m.asset \in Assets
                              /\ m.whose = "own" => m.asset = asset
  BY <1>1 DEF LinkAnswers, Ours
<1> DEFINE r == [type |-> "refresh", by |-> m.by, whose |-> "own", asset |-> m.asset]
<1>3. m.type # "refreshed" => r \in LinkRequests
  BY <1>2 DEF LinkRequests, Whose
<1>4. At!RefreshAfter(m) => requests' = Append(requests, r)
  BY DEF At!RefreshAfter
<1> HIDE DEF r
<1>5. At!RefreshAfter(m) /\ m.type # "refreshed" => requests' \in Seq(LinkRequests)
  BY <1>3, <1>4 DEF LinksInv
<1>6. CASE At!ReceiveCreated(m)
  <2>1. /\ m.type # "refreshed" /\ UNCHANGED <<known, type, other, confirm, deleting>>
        /\ requests' = requests \/ At!RefreshAfter(m)
        /\ m.asset # asset => UNCHANGED <<At!editor, editing, deleting, confirm, failed>>
    BY <1>2, <1>6 DEF At!ReceiveCreated
  <2> QED BY <1>1, <1>5, <2>1, SameLinks DEF LinksInv
<1>7. CASE At!ReceiveNotCreated(m)
  <2>1. /\ UNCHANGED <<known, type, other, confirm, deleting, requests>>
        /\ m.asset # asset => UNCHANGED <<At!editor, editing, deleting, confirm, failed>>
    BY <1>2, <1>7 DEF At!ReceiveNotCreated
  <2> QED BY <1>1, <2>1, SameLinks DEF LinksInv
<1>8. CASE At!ReceiveDeleted(m)
  <2>1. /\ m.type # "refreshed" /\ UNCHANGED <<known, type, other>>
        /\ deleting' \in {deleting, None} /\ confirm' \in {confirm, None}
        /\ requests' = requests \/ At!RefreshAfter(m)
        /\ m.asset # asset => UNCHANGED <<At!editor, editing, deleting, confirm, failed>>
    BY <1>2, <1>8 DEF At!ReceiveDeleted, At!Released
  <2> QED BY <1>1, <1>5, <2>1, SameLinks DEF LinksInv
<1>9. CASE At!ReceiveNotDeleted(m)
  <2>1. /\ UNCHANGED <<known, type, other, confirm, requests>> /\ deleting' \in {deleting, None}
        /\ m.asset # asset => UNCHANGED <<At!editor, editing, deleting, confirm, failed>>
    BY <1>2, <1>9 DEF At!ReceiveNotDeleted, At!Released
  <2> QED BY <1>1, <2>1, SameLinks DEF LinksInv
<1>10. CASE At!ReceiveRefreshed(m)
  <2>1. m.relations \subseteq At!Relation
    BY <1>1, <1>10 DEF At!ReceiveRefreshed, LinkAnswers
  <2>2. /\ UNCHANGED <<type, other, confirm, deleting, requests>> /\ known' \subseteq At!Relation
        /\ UNCHANGED <<At!editor, editing, deleting, confirm, failed>>
    BY <1>10, <2>1 DEF At!ReceiveRefreshed, LinksInv
  <2> QED BY <1>1, <2>2, SameLinks DEF LinksInv
<1> QED BY <1>6, <1>7, <1>8, <1>9, <1>10 DEF At!Receive

\* An operation begins, of the asset on show.
LEMMA LinkSends ==
  ASSUME LinksInv, asset' = asset, NEW who \in {"editor", "topology"}, NEW m, m.type \in {"create", "delete"},
         m.relation \in Links, At!Send(who, m)
  PROVE  /\ requests' \in Seq(LinkRequests) /\ answers' \in Seq(LinkAnswers)
         /\ Len(answers') = Len(answers)
<1> DEFINE r == [by |-> who, whose |-> "own", asset |-> asset, type |-> m.type, relation |-> m.relation]
<1>1. r \in LinkRequests
  BY DEF LinkRequests, Ours, Whose, LinksInv
<1>2. requests' = Append(At!Past(requests, {who}), r) /\ answers' = At!Past(answers, {who})
  BY DEF At!Send
<1> HIDE DEF r
<1>3. /\ At!Past(requests, {who}) \in Seq(LinkRequests) /\ At!Past(answers, {who}) \in Seq(LinkAnswers)
      /\ Len(At!Past(answers, {who})) = Len(answers)
  BY PastLinks, SameLinks
<1> QED BY <1>1, <1>2, <1>3

LEMMA LinkStep ==
  ASSUME At!TopologyAssumption, LinksInv, [At!Next]_(At!vars)
  PROVE  /\ LinksInv'
         /\ Len(answers') < Len(answers) /\ Head(answers).asset # asset
              => UNCHANGED <<At!editor, editing, deleting, confirm, failed>>
<1> USE DEF At!server, At!socket, At!topology, At!draft, At!editor
<1>0. Len(answers) \in Nat /\ answers \in Seq(LinkAnswers) /\ requests \in Seq(LinkRequests)
  BY DEF LinksInv
<1>1. CASE At!OtherCommit
  <2>1. /\ relations' \subseteq At!Relation
        /\ UNCHANGED <<requests, answers, known, asset, type, other, confirm, deleting>>
    BY <1>1 DEF At!OtherCommit, LinksInv
  <2> QED BY <1>0, <2>1, SameLinks DEF LinksInv
<1>2. CASE At!Follow
  <2> DEFINE a == [type |-> "refreshed", by |-> "panel", whose |-> "past", asset |-> asset,
                   ok |-> TRUE, relations |-> relations]
  <2>1. /\ answers' = Append(answers, a)
        /\ UNCHANGED <<relations, requests, known, asset, type, other, confirm, deleting>>
    BY <1>2 DEF At!Follow, At!Answer
  <2>2. a \in LinkAnswers
    BY DEF LinkAnswers, LinksInv, Whose
  <2> HIDE DEF a
  <2>3. answers' \in Seq(LinkAnswers) /\ ~(Len(answers') < Len(answers))
    BY <1>0, <2>1, <2>2
  <2> QED BY <2>1, <2>3, SameLinks DEF LinksInv
<1>3. ASSUME NEW a \in Assets, At!ChangeAsset(a)
      PROVE  LinksInv' /\ ~(Len(answers') < Len(answers))
  <2>1. /\ asset' = a /\ deleting' = None /\ confirm' = None /\ type' = None /\ other' = None
        /\ requests' = At!Past(requests, {"editor", "topology"})
        /\ answers' = At!Past(answers, {"editor", "topology"})
        /\ UNCHANGED <<relations, known>>
    BY <1>3 DEF At!ChangeAsset, At!EmptyDraft
  <2>2. /\ requests' \in Seq(LinkRequests)' /\ answers' \in Seq(LinkAnswers)'
        /\ Len(answers') = Len(answers)
    BY <2>1, PastLinks
  <2>3. At!Relation' = At!Relation
    BY DEF At!Relation
  <2> QED BY <1>0, <2>1, <2>2, <2>3 DEF LinksInv, At!TopologyAssumption
<1>4. CASE At!OpenEditor
  <2>1. /\ type' = None /\ other' = None
        /\ UNCHANGED <<relations, requests, answers, known, asset, confirm, deleting>>
    BY <1>4 DEF At!OpenEditor, At!EmptyDraft
  <2> QED BY <1>0, <2>1, SameLinks DEF LinksInv, At!TopologyAssumption
<1>5. CASE At!CancelEditor
  <2>1. UNCHANGED <<relations, requests, answers, known, asset, type, other, confirm, deleting>>
    BY <1>5 DEF At!CancelEditor
  <2> QED BY <1>0, <2>1, SameLinks DEF LinksInv
<1>6. CASE At!Draft
  <2>1. /\ type' \in Types \cup {None} /\ other' \in (Assets \cup {None}) \ {asset}
        /\ UNCHANGED <<relations, requests, answers, known, asset, confirm, deleting>>
    BY <1>6 DEF At!Draft, At!Candidates, LinksInv
  <2> QED BY <1>0, <2>1, SameLinks DEF LinksInv
<1>7. CASE At!Save
  <2>1. /\ At!Send("editor", [type |-> "create", relation |-> At!Drafted])
        /\ UNCHANGED <<relations, known, asset, type, other, confirm, deleting>>
    BY <1>7 DEF At!Save
  <2>2. At!Drafted \in Links
    BY DEF At!Drafted, Links, LinksInv
  <2>3. /\ requests' \in Seq(LinkRequests) /\ answers' \in Seq(LinkAnswers)
        /\ Len(answers') = Len(answers)
    BY <2>1, <2>2, LinkSends
  <2> QED BY <1>0, <2>1, <2>3, SameLinks DEF LinksInv
<1>8. CASE At!AskDelete
  <2>1. /\ confirm' = None \/ confirm' \in At!Shown
        /\ UNCHANGED <<relations, requests, answers, known, asset, type, other, deleting>>
    BY <1>8 DEF At!AskDelete
  <2> QED BY <1>0, <2>1, SameLinks DEF LinksInv, At!Shown
<1>9. CASE At!Delete
  <2>1. /\ confirm \in At!Shown /\ deleting' = confirm
        /\ At!Send("topology", [type |-> "delete", relation |-> confirm])
        /\ UNCHANGED <<relations, known, asset, type, other, confirm>>
    BY <1>9 DEF At!Delete
  <2>2. confirm \in At!Relation /\ asset \in {confirm.source, confirm.target}
    BY <2>1 DEF At!Shown, LinksInv
  <2>3. confirm \in Links
    BY <2>2 DEF At!Relation, Links
  <2>4. /\ requests' \in Seq(LinkRequests) /\ answers' \in Seq(LinkAnswers)
        /\ Len(answers') = Len(answers)
    BY <2>1, <2>3, LinkSends
  <2> QED BY <1>0, <2>1, <2>2, <2>4, SameLinks DEF LinksInv
<1>10. CASE UNCHANGED At!vars
  BY <1>0, <1>10, SameLinks DEF At!vars, LinksInv
<1> QED BY <1>1, <1>2, <1>3, <1>4, <1>5, <1>6, <1>7, <1>8, <1>9, <1>10, LinkServes, LinkReceives DEF At!Next

LEMMA LinkInitially == ASSUME At!TopologyAssumption, At!Init PROVE LinksInv
<1>1. <<>> \in Seq(LinkRequests) /\ <<>> \in Seq(LinkAnswers)
  OBVIOUS
<1> QED BY <1>1 DEF At!Init, LinksInv, At!TopologyAssumption

\* What is drafted, confirmed or being deleted is of the asset on show (relation-editor.js,
\* asset-topology.js).
THEOREM DraftsOfAsset == At!TopologyAssumption => (At!Spec => []At!DraftOfAsset)
<1> SUFFICES ASSUME At!TopologyAssumption PROVE At!Spec => []At!DraftOfAsset
  OBVIOUS
<1>1. At!Init => LinksInv
  BY LinkInitially
<1>2. LinksInv /\ [At!Next]_(At!vars) => LinksInv'
  BY LinkStep
<1>3. LinksInv => At!DraftOfAsset
  BY DEF LinksInv, At!DraftOfAsset
<1> QED BY <1>1, <1>2, <1>3, PTL DEF At!Spec

\* The answer to an operation of an asset that was left changes nothing of what is shown of
\* another (relation-editor.js _save, asset-topology.js _delete).
THEOREM AnswersStayHome == At!TopologyAssumption => (At!Spec => At!LateAnswerStaysHome)
<1> SUFFICES ASSUME At!TopologyAssumption PROVE At!Spec => At!LateAnswerStaysHome
  OBVIOUS
<1>1. At!Init => LinksInv
  BY LinkInitially
<1>2. LinksInv /\ [At!Next]_(At!vars) => LinksInv'
  BY LinkStep
<1>3. LinksInv /\ [At!Next]_(At!vars) =>
        [Len(answers') < Len(answers) /\ Head(answers).asset # asset
           => UNCHANGED <<At!editor, editing, deleting, confirm, failed>>]_(At!vars)
  BY LinkStep
<1> QED BY <1>1, <1>2, <1>3, PTL DEF At!Spec, At!LateAnswerStaysHome

=============================================================================
