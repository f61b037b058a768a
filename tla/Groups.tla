------------------------------- MODULE Groups -------------------------------
(***************************************************************************)
(* A group of the relay: groups.service.ts keeps the set of its members in *)
(* redis, and group.send of relay.gateway.ts puts a copy of the message    *)
(* into the inbox of each device of each member, one await after another.  *)
(* Every copy has an id of its own; all are stored at the sender's relay.  *)
(* The device sets are those that registerHomeRelay of                     *)
(* federation.service.ts keeps.  Groups share nothing but them, so there   *)
(* is one group here, and its members are those it was created with.       *)
(***************************************************************************)
EXTENDS Naturals, FiniteSets

CONSTANTS
    Member,        \* public ids
    Creator,
    Gadget,        \* device ids
    NoGadget,      \* queueMessage without a device
    Text,          \* messages of group.send
    Sender,        \* who sends each
    MaxJoins,      \* bound: registrations and expiries of devices
    Nobody

VARIABLES
    roster,        \* redis group:members:<group>
    rosterTtl,     \* whether that key has a time to live
    gadgets,       \* redis registry:devices:<member>
    joins,         \* registrations and expiries so far
    fan,           \* where the group.send of each message stands
    copies,        \* the deliveries stored: <<message, member, device>>
    early,         \* history: the members, and their devices, when the call began
    forgotten,     \* history: members whose device set has expired
    missed         \* history: <<message, member>> whose fan-out was cut short

groupVars == <<roster, rosterTtl, gadgets, joins, fan, copies, early, forgotten, missed>>

ASSUME GroupsAssumption ==
    /\ Creator \in Member
    /\ NoGadget \notin Gadget
    /\ Nobody \notin Member
    /\ Sender \in [Text -> Member]
    /\ MaxJoins \in Nat

FanStep == {"unsent", "members", "copies", "ok", "error"}

GroupsTypeOK ==
    /\ roster \subseteq Member
    /\ rosterTtl \in BOOLEAN
    /\ gadgets \in [Member -> SUBSET Gadget] /\ joins \in Nat
    /\ fan \in [Text -> [pc : FanStep, rest : SUBSET Member, member : Member \cup {Nobody},
                         left : SUBSET (Gadget \cup {NoGadget})]]
    /\ copies \subseteq Text \X Member \X (Gadget \cup {NoGadget})
    /\ early \in [Text -> [members : SUBSET Member, gadgets : [Member -> SUBSET Gadget]]]
    /\ forgotten \subseteq Member
    /\ missed \subseteq Text \X Member

GroupsInit ==
    /\ roster = {} /\ rosterTtl = FALSE
    /\ gadgets = [p \in Member |-> {}] /\ joins = 0
    /\ fan = [x \in Text |-> [pc |-> "unsent", rest |-> {}, member |-> Nobody, left |-> {}]]
    /\ copies = {}
    /\ early = [x \in Text |-> [members |-> {}, gadgets |-> [p \in Member |-> {}]]]
    /\ forgotten = {} /\ missed = {}

\* createGroup: SADD of the creator and the members it names.
CreateGroup(members) ==
    /\ roster = {} /\ ~rosterTtl
    /\ \A x \in Text : fan[x].pc = "unsent"
    /\ roster' = {Creator} \cup members
    /\ UNCHANGED <<rosterTtl, gadgets, joins, fan, copies, early, forgotten, missed>>

\* createGroup: EXPIRE, thirty days from the creation whatever happens in it.
SetLifetime ==
    /\ roster # {} /\ ~rosterTtl
    /\ rosterTtl' = TRUE
    /\ UNCHANGED <<roster, gadgets, joins, fan, copies, early, forgotten, missed>>

GroupExpires ==
    /\ rosterTtl /\ roster # {}
    /\ roster' = {}
    /\ UNCHANGED <<rosterTtl, gadgets, joins, fan, copies, early, forgotten, missed>>

\* registerHomeRelay: SADD and EXPIRE of the device set.
AddGadget(p, d) ==
    /\ joins < MaxJoins /\ joins' = joins + 1
    /\ d \notin gadgets[p]
    /\ gadgets' = [gadgets EXCEPT ![p] = @ \cup {d}]
    /\ UNCHANGED <<roster, rosterTtl, fan, copies, early, forgotten, missed>>

\* A member did not connect for seven days.
GadgetsExpire(p) ==
    /\ joins < MaxJoins /\ joins' = joins + 1
    /\ gadgets[p] # {}
    /\ gadgets' = [gadgets EXCEPT ![p] = {}]
    /\ forgotten' = forgotten \cup {p}
    /\ UNCHANGED <<roster, rosterTtl, fan, copies, early, missed>>

\* getMembers, and the refusal of one who is not among them.
FanRead(x) ==
    /\ fan[x].pc = "unsent" /\ (roster # {} \/ rosterTtl)
    /\ fan' = [fan EXCEPT ![x] = [@ EXCEPT
                  !.pc = IF Sender[x] \in roster THEN "members" ELSE "error",
                  !.rest = IF Sender[x] \in roster THEN roster \ {Sender[x]} ELSE {}]]
    /\ early' = [early EXCEPT ![x] = [members |-> roster \ {Sender[x]}, gadgets |-> gadgets]]
    /\ UNCHANGED <<roster, rosterTtl, gadgets, joins, copies, forgotten, missed>>

\* The next member's devices, or one copy for no device in particular.
FanMember(x) ==
    /\ fan[x].pc = "members"
    /\ \E p \in fan[x].rest :
          fan' = [fan EXCEPT ![x] = [pc |-> "copies", rest |-> @.rest \ {p}, member |-> p,
                                     left |-> IF gadgets[p] = {} THEN {NoGadget}
                                              ELSE gadgets[p]]]
    /\ UNCHANGED <<roster, rosterTtl, gadgets, joins, copies, early, forgotten, missed>>

\* queueMessage, then message.receive to whoever is connected.
FanCopy(x) ==
    /\ fan[x].pc = "copies"
    /\ \E d \in fan[x].left :
          /\ copies' = copies \cup {<<x, fan[x].member, d>>}
          /\ fan' = [fan EXCEPT ![x].left = @ \ {d},
                                ![x].pc = IF fan[x].left = {d} THEN "members" ELSE @]
    /\ UNCHANGED <<roster, rosterTtl, gadgets, joins, early, forgotten, missed>>

\* A slip: the try block is around the loop over the members.
FanGivesUp(x) ==
    /\ fan[x].pc = "copies"
    /\ missed' = missed \cup {<<x, fan[x].member>>}
    /\ fan' = [fan EXCEPT ![x] = [@ EXCEPT !.pc = "members", !.rest = {}, !.left = {}]]
    /\ UNCHANGED <<roster, rosterTtl, gadgets, joins, copies, early, forgotten>>

\* The inbox throws: the rest of this member's devices is skipped.
FanFails(x) ==
    /\ fan[x].pc = "copies"
    /\ missed' = missed \cup {<<x, fan[x].member>>}
    /\ fan' = [fan EXCEPT ![x].pc = "members", ![x].left = {}]
    /\ UNCHANGED <<roster, rosterTtl, gadgets, joins, copies, early, forgotten>>

\* "ok", whoever was missed.
FanEnds(x) ==
    /\ fan[x].pc = "members" /\ fan[x].rest = {}
    /\ fan' = [fan EXCEPT ![x].pc = "ok"]
    /\ UNCHANGED <<roster, rosterTtl, gadgets, joins, copies, early, forgotten, missed>>

GroupsNext ==
    \/ \E members \in SUBSET Member : CreateGroup(members)
    \/ SetLifetime \/ GroupExpires
    \/ \E p \in Member : GadgetsExpire(p) \/ \E d \in Gadget : AddGadget(p, d)
    \/ \E x \in Text : FanRead(x) \/ FanMember(x) \/ FanCopy(x) \/ FanFails(x) \/ FanEnds(x)

GroupsSpec == GroupsInit /\ [][GroupsNext]_groupVars
-----------------------------------------------------------------------------
\* What is behind an answered group.send for a member: a copy for every device
\* that was known when the call began, and for some device or none in any case.
Reached(x, p) ==
    /\ \E d \in Gadget \cup {NoGadget} : <<x, p, d>> \in copies
    /\ p \notin forgotten => \A d \in early[x].gadgets[p] : <<x, p, d>> \in copies

\* While a group.send runs, members register devices, device sets expire, the
\* group itself expires and inboxes fail; of the members it has gone through, only
\* those at whose own inbox it failed are not reached.
OnlyFailedMissed ==
    \A x \in Text : fan[x].pc = "ok" =>
        \A p \in early[x].members : <<x, p>> \in missed \/ Reached(x, p)
=============================================================================
