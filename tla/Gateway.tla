------------------------------- MODULE Gateway -------------------------------
(***************************************************************************)
(* How a relay routes what a client sends (apps/backend/src/relay/         *)
(* relay.gateway.ts): the rate limit of message.send, the look at the      *)
(* directory of home relays, and the inbox here or the forwarding to the   *)
(* relay of the recipient.                                                 *)
(*                                                                         *)
(* The directory and the counters are in the redis that the relays share;  *)
(* every access to it is a step.  What queueMessage does inside is         *)
(* Inbox.tla, what the recipient makes of message.receive is Receiver.tla: *)
(* here an inbox takes a message, knows it already, or fails.  Counters    *)
(* are per sender: the calls are those of one sender.                      *)
(*                                                                         *)
(* A relay connects to another without a session token.  handleConnection  *)
(* closes such a connection, so two relays of this version deliver nothing *)
(* to each other; a relay of the protocol before it, in which a connection *)
(* proved its identity later (identity.challenge, which the client still   *)
(* answers), lets it in.  The other relays here are of either kind.        *)
(***************************************************************************)
EXTENDS Naturals, FiniteSets

CONSTANTS
    Relay,       \* the relays
    Here,        \* the one the sender is connected to
    Person,      \* public ids of recipients
    Device,      \* device ids
    NoDevice,    \* target_device_id undefined
    Direct,      \* messages of message.send: <<id, person, device or NoDevice>>
    Socket,      \* calls in progress at the sender's relay
    HourLimit,   \* RATE_LIMIT_HOUR
    DayLimit,    \* RATE_LIMIT_DAY
    MaxSends,    \* bound: message.send calls, resends included
    MaxDrops,    \* bound: losses of the connection between the relays
    MaxMoves,    \* bound: registrations and expiries in the directory
    None

VARIABLES
    home,        \* redis registry:home:<person>
    deviceRelay, \* redis registry:device_relay:<person>:<device>
    joining,     \* a handleConnection of each person on its way through the directory
    hour,        \* redis rate:msg:hr of the sender
    day,         \* redis rate:msg:day of the sender
    handler,     \* the message.send calls in flight
    sends,       \* message.send calls so far
    told,        \* what the client knows of each message
    strict,      \* relays whose handshake demands a session token, as this one's does
    linked,      \* the relays whose client in remoteRelays is connected
    wire,        \* federation.deliver requests and their acknowledgements
    inbox,       \* the deliveries stored, at each relay
    moves,       \* directory changes so far
    drops,       \* lost connections so far
    peak,        \* history: the most calls that were between the read and the count at once
    moved,       \* history: persons whose entry changed after a message to them was sent
    lost         \* history: calls whose request or acknowledgement was lost

directoryVars == <<home, deviceRelay, joining, moves, moved>>

sendVars == <<hour, day, peak, handler, sends, told>>

linkVars == <<strict, linked, wire, drops, lost>>

gatewayVars == <<directoryVars, sendVars, linkVars, inbox>>

To(m) == m[2]

ASSUME GatewayAssumption ==
    /\ Here \in Relay /\ None \notin Relay \cup Direct
    /\ NoDevice \notin Device
    /\ \A m \in Direct : m[2] \in Person /\ m[3] \in Device \cup {NoDevice}
    /\ IsFiniteSet(Socket)
    /\ {HourLimit, DayLimit, MaxSends, MaxDrops, MaxMoves} \subseteq Nat

Step == {"idle", "count", "route", "queue", "link", "await"}

Free == [pc |-> "idle", msg |-> None, relay |-> None]

Entry == [relay : Relay, person : Person, dev : Device \cup {NoDevice}, msg : Direct]

Delivery == [by : Socket, msg : Direct, relay : Relay, at : {"sent", "ok", "error"},
             live : BOOLEAN]

GatewayTypeOK ==
    /\ home \in [Person -> Relay \cup {None}]
    /\ deviceRelay \in [Person \X Device -> Relay \cup {None}]
    /\ joining \in [Person -> [pc : {"idle", "relay"}, relay : Relay \cup {None},
                               dev : Device \cup {None}]]
    /\ hour \in Nat /\ day \in Nat /\ peak \in Nat
    /\ handler \in [Socket -> [pc : Step, msg : Direct \cup {None}, relay : Relay \cup {None}]]
    /\ \A s \in Socket : handler[s].pc # "idle" => handler[s].msg # None
    /\ sends \in Nat
    /\ told \in [Direct -> {"unsent", "waiting", "ok", "error"}]
    /\ strict \subseteq Relay /\ linked \subseteq Relay \ strict
    /\ wire \subseteq Delivery
    /\ inbox \subseteq Entry
    /\ moves \in Nat /\ drops \in Nat
    /\ moved \subseteq Person /\ lost \subseteq Socket

\* The persons may have connected to any relay before.
GatewayInit ==
    /\ home \in [Person -> Relay \cup {None}]
    /\ deviceRelay \in [Person \X Device -> Relay \cup {None}]
    /\ \A p \in Person : \/ home[p] = None /\ \A d \in Device : deviceRelay[<<p, d>>] = None
                         \/ \E d \in Device : home[p] = deviceRelay[<<p, d>>]
    /\ joining = [p \in Person |-> [pc |-> "idle", relay |-> None, dev |-> None]]
    /\ hour = 0 /\ day = 0 /\ peak = 0
    /\ handler = [s \in Socket |-> Free]
    /\ sends = 0
    /\ told = [m \in Direct |-> "unsent"]
    /\ strict \in SUBSET (Relay \ {Here})
    /\ linked = {} /\ wire = {} /\ drops = 0 /\ moves = 0
    /\ inbox = {}
    /\ moved = {} /\ lost = {}
-----------------------------------------------------------------------------
(***************************************************************************)
(* The directory: registerHomeRelay at each connection, of which the set   *)
(* of devices between the two writes is left to Groups.tla, and the expiry *)
(* of its keys after seven days.                                           *)
(***************************************************************************)

MovedBy(p) == moved \cup {x \in {p} : \E m \in Direct : To(m) = p /\ told[m] # "unsent"}

Moves(p) ==
    /\ moves < MaxMoves
    /\ moves' = moves + 1
    /\ moved' = MovedBy(p)

RegisterHome(p, d, r) ==
    /\ joining[p].pc = "idle"
    /\ Moves(p)
    /\ home' = [home EXCEPT ![p] = r]
    /\ joining' = [joining EXCEPT ![p] = [pc |-> "relay", relay |-> r, dev |-> d]]
    /\ UNCHANGED deviceRelay

\* The second write, or redis fails and the socket is closed.
RegisterRelay(p) ==
    /\ joining[p].pc = "relay"
    /\ \/ deviceRelay' = [deviceRelay EXCEPT ![<<p, joining[p].dev>>] = joining[p].relay]
       \/ UNCHANGED deviceRelay
    /\ joining' = [joining EXCEPT ![p] = [pc |-> "idle", relay |-> None, dev |-> None]]
    /\ moved' = MovedBy(p)
    /\ UNCHANGED <<home, moves>>

EntryExpires(p) ==
    /\ Moves(p)
    /\ \/ home' = [home EXCEPT ![p] = None] /\ UNCHANGED deviceRelay
       \/ \E d \in Device : /\ deviceRelay' = [deviceRelay EXCEPT ![<<p, d>>] = None]
                            /\ UNCHANGED home
    /\ UNCHANGED joining

DirectoryStep ==
    /\ \E p \in Person :
          \/ \E d \in Device, r \in Relay : RegisterHome(p, d, r)
          \/ RegisterRelay(p) \/ EntryExpires(p)
    /\ UNCHANGED <<sendVars, linkVars, inbox>>
-----------------------------------------------------------------------------
(***************************************************************************)
(* message.send, version 2.                                                *)
(***************************************************************************)

Is(s, pc) == handler[s].pc = pc

Goes(s, pc) == handler' = [handler EXCEPT ![s].pc = pc]

\* The handler returns: the answer reaches the client unless it has left.
Answers(s, answer) ==
    /\ told' = [told EXCEPT ![handler[s].msg] = answer]
    /\ handler' = [handler EXCEPT ![s] = Free]

\* A slip: the message that reaches the limit is let in.
OverLimit == hour > HourLimit \/ day > DayLimit

RateLimited == hour >= HourLimit \/ day >= DayLimit

\* The calls that have read the counters and not counted themselves yet.
Counting == Cardinality({s \in Socket : Is(s, "count")})

\* A new message, or the retry of one that was refused or not answered in time.
SendRead(s, m) ==
    /\ Is(s, "idle") /\ told[m] # "ok" /\ sends < MaxSends
    /\ sends' = sends + 1
    /\ \/ /\ RateLimited
          /\ told' = [told EXCEPT ![m] = "error"]
          /\ UNCHANGED handler
          /\ UNCHANGED peak
       \/ /\ ~RateLimited
          /\ told' = [told EXCEPT ![m] = "waiting"]
          /\ handler' = [handler EXCEPT ![s] = [Free EXCEPT !.pc = "count", !.msg = m]]
          /\ peak' = IF Counting < peak THEN peak ELSE Counting + 1
    /\ UNCHANGED <<hour, day, inbox, linkVars>>

\* The pipeline of INCR and EXPIRE; a message that fails later stays counted.
SendCount(s) ==
    /\ Is(s, "count")
    /\ hour' = hour + 1 /\ day' = day + 1
    /\ Goes(s, "route")
    /\ UNCHANGED <<peak, sends, told, inbox, linkVars>>

HourPasses ==
    /\ hour > 0 /\ hour' = 0
    /\ UNCHANGED <<day, peak, handler, sends, told, inbox, linkVars>>

\* Both keys got their time to live in the same pipeline, so the hour's is gone.
DayPasses ==
    /\ day > 0 /\ hour = 0 /\ day' = 0
    /\ UNCHANGED <<hour, peak, handler, sends, told, inbox, linkVars>>

\* getDeviceRelay or getHomeRelay
Lookup(m) == IF m[3] = NoDevice THEN home[To(m)] ELSE deviceRelay[<<To(m), m[3]>>]

\* The relay that a message goes to: this one when the directory knows none.
Route(m) == IF Lookup(m) = None THEN Here ELSE Lookup(m)

\* A slip: the person's relay is taken for that of each device.
RouteByPerson(s) ==
    /\ Is(s, "route")
    /\ LET r == home[To(handler[s].msg)]
       IN  handler' = [handler EXCEPT ![s].pc = IF r \in {None, Here} THEN "queue" ELSE "link",
                                      ![s].relay = r]
    /\ UNCHANGED <<hour, day, peak, sends, told, inbox, linkVars>>

SendRoute(s) ==
    /\ Is(s, "route")
    /\ LET r == Route(handler[s].msg)
       IN  handler' = [handler EXCEPT ![s].pc = IF r = Here THEN "queue" ELSE "link",
                                      ![s].relay = r]
    /\ UNCHANGED <<hour, day, peak, sends, told, inbox, linkVars>>

EntryAt(r, m) == [relay |-> r, person |-> To(m), dev |-> m[3], msg |-> m]

\* queueMessage here, then message.receive to whoever is connected; or it throws.
SendStore(s) ==
    /\ Is(s, "queue")
    /\ \/ /\ inbox' = inbox \cup {EntryAt(Here, handler[s].msg)}
          /\ Answers(s, "ok")
       \/ /\ Answers(s, "error")
          /\ UNCHANGED inbox
    /\ UNCHANGED <<hour, day, peak, sends, linkVars>>
-----------------------------------------------------------------------------
(***************************************************************************)
(* forwardToRemote, and federation.deliver at the other relay.             *)
(***************************************************************************)

\* The connection is there or is made, and the signed request goes out; or it is
\* made and closed at once by the other side, and nothing will come of the request;
\* or it is not there, and connect_error or five seconds pass.
Forward(s) ==
    LET r == handler[s].relay
    IN  /\ Is(s, "link")
        /\ \/ /\ r \notin strict
              /\ linked' = linked \cup {r}
              /\ wire' = wire \cup {[by |-> s, msg |-> handler[s].msg, relay |-> r,
                                     at |-> "sent", live |-> TRUE]}
              /\ Goes(s, "await")
              /\ UNCHANGED <<told, strict, drops, lost>>
           \/ /\ r \in strict
              /\ lost' = lost \cup {s}
              /\ Goes(s, "await")
              /\ UNCHANGED <<told, strict, linked, wire, drops>>
           \/ /\ r \notin linked
              /\ Answers(s, "error")
              /\ UNCHANGED linkVars
        /\ UNCHANGED <<hour, day, peak, sends, inbox>>

\* The other relay stores the message under its id, or its inbox throws.
FederationDeliver(q) ==
    /\ q \in wire /\ q.at = "sent"
    /\ \E answer \in {"ok", "error"} :
          /\ inbox' = IF answer = "ok" THEN inbox \cup {EntryAt(q.relay, q.msg)} ELSE inbox
          /\ wire' = (wire \ {q}) \cup IF q.live THEN {[q EXCEPT !.at = answer]} ELSE {}
    /\ UNCHANGED <<sendVars, strict, linked, drops, lost>>

\* A slip: only a positive acknowledgement settles the promise.
ResolveOnly(s) ==
    /\ Is(s, "await")
    /\ \E q \in wire : /\ q.by = s /\ q.live /\ q.at = "ok"
                       /\ wire' = wire \ {q}
                       /\ Answers(s, q.at)
    /\ UNCHANGED <<hour, day, peak, sends, strict, linked, drops, lost, inbox>>

\* The acknowledgement resolves or rejects; without one the call waits on.
ForwardAnswer(s) ==
    /\ Is(s, "await")
    /\ \E q \in wire : /\ q.by = s /\ q.live /\ q.at # "sent"
                       /\ wire' = wire \ {q}
                       /\ Answers(s, q.at)
    /\ UNCHANGED <<hour, day, peak, sends, strict, linked, drops, lost, inbox>>

\* The connection to a relay breaks: what is under way arrives or not, and no
\* acknowledgement does.  The next call that finds it broken replaces the client.
LinkDrops(r) ==
    LET out == {q \in wire : q.relay = r}
    IN  /\ r \in linked /\ drops < MaxDrops
        /\ linked' = linked \ {r} /\ drops' = drops + 1
        /\ lost' = lost \cup {q.by : q \in {x \in out : x.live}}
        /\ \E arriving \in SUBSET {q \in out : q.at = "sent"} :
              wire' = (wire \ out) \cup {[q EXCEPT !.live = FALSE] : q \in arriving}
        /\ UNCHANGED <<sendVars, strict, inbox>>

SendSteps(s) == SendCount(s) \/ SendRoute(s) \/ SendStore(s) \/ Forward(s) \/ ForwardAnswer(s)
-----------------------------------------------------------------------------
SendNext ==
    \/ \E s \in Socket : SendSteps(s) \/ \E m \in Direct : SendRead(s, m)
    \/ HourPasses \/ DayPasses
    \/ \E q \in wire : FederationDeliver(q)
    \/ \E r \in Relay : LinkDrops(r)

GatewayNext ==
    \/ DirectoryStep
    \/ SendNext /\ UNCHANGED directoryVars

\* The event loop runs every continuation, and the other relay handles what
\* reaches it.
GatewayFairness ==
    /\ \A s \in Socket : WF_gatewayVars(SendSteps(s) /\ UNCHANGED directoryVars)
    /\ WF_gatewayVars((\E q \in wire : FederationDeliver(q)) /\ UNCHANGED directoryVars)

GatewaySpec == GatewayInit /\ [][GatewayNext]_gatewayVars /\ GatewayFairness
-----------------------------------------------------------------------------
\* The rate limits are read before they are counted, so calls in flight together
\* can pass them together: by less than the number of them that ever were between
\* the two steps at once.  Calls that come one after the other never pass them.
RateBound ==
    hour + day + Counting > 0 =>
        /\ hour + Counting < HourLimit + peak
        /\ day + Counting < DayLimit + peak

\* A message is stored nowhere but at the relay where its recipient fetches, and
\* is there once the sender is told "ok", whatever its resends, refusals and the
\* losses between the relays; unless the recipient's entry in the directory has
\* changed since the message was first sent.
RoutedHome ==
    \A m \in Direct : To(m) \notin moved =>
        /\ \A e \in inbox : e.msg = m => e = EntryAt(Route(m), m)
        /\ told[m] = "ok" => EntryAt(Route(m), m) \in inbox

\* Every call is answered, except one whose request to another relay, or the
\* acknowledgement of it, was lost with the connection: that one waits forever.  To
\* a relay that demands a token every request is lost.
CallsEnd == \A s \in Socket : ~Is(s, "idle") ~> Is(s, "idle") \/ s \in lost

=============================================================================
