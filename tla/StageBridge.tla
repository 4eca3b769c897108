---------------------------- MODULE StageBridge -----------------------------
(***************************************************************************)
(* The stage bridge (stage_bridge.py): claim, inspect, renew and complete  *)
(* for the clients of a queue owner, each pinned to one lane, over the     *)
(* admissions and handoffs of everybody else.                              *)
(*                                                                         *)
(* claim and renew are several transactions on connections of their own,   *)
(* and a client may die, or its call raise, between any two of them.  A    *)
(* check that fails raises: it is no step of its own, the call can only be *)
(* left.                                                                   *)
(***************************************************************************)
EXTENDS HandoffProperties

CONSTANTS
    Clients,   \* processes that run the bridge
    Owner      \* the pinned Owner of each

\* What a client at rest is said to know must be of the types.
ASSUME BridgeAssumption ==
    /\ Owner \in [Clients -> [lane : Lanes, lease : Leases, successor_lanes : SUBSET Lanes]]
    /\ Keys # {} /\ MaxId >= 1 /\ MaxTokens >= 1

VARIABLE
    bridge   \* per client: the operation it is inside of, or its last reply

bvars == <<hvars, bridge>>

\* key, id and token name the stage and its claim; lease is lease_until in the
\* reply.
Bridge ==
    [at : {"idle", "identify", "touch", "inspect", "told"}, key : Keys,
     id : Ids, token : Tokens, lease : Nat]

BridgeTypeOK == bridge \in [Clients -> Bridge]

AtRest == [at |-> "idle", key |-> CHOOSE key \in Keys : TRUE, id |-> 1, token |-> 1, lease |-> Null]

BridgeInit == HandoffInit /\ bridge = [c \in Clients |-> AtRest]

Free(c) == bridge[c].at \in {"idle", "told"}

Move(c, b) == bridge' = [bridge EXCEPT ![c] = b]

\* lookup
Found(key, i, lane) ==
    /\ key \in DOMAIN admissions /\ admissions[key].id = i
    /\ admissions[key].lane = lane /\ directives[i].lane = lane
    /\ Protected(directives[i])
    /\ body[i] = admissions[key].body

\* Mutant: the reply names the token before.
ClaimUnderLast(c) ==
    /\ Free(c)
    /\ Take(Owner[c].lane, "hold", Owner[c].lease)
    /\ \E i \in Ids :
        /\ directives'[i].token = issued'
        /\ Move(c, [AtRest EXCEPT !.at = "identify", !.id = i, !.token = issued])
    /\ UNCHANGED own

\* claim: take, then the key of what was taken, then inspect.  An empty lane
\* is answered at once; a claim without an admission is kept and raises.
Claim(c) ==
    /\ Free(c)
    /\ \/ /\ Take(Owner[c].lane, "hold", Owner[c].lease)
          /\ \E i \in Ids :
                /\ directives'[i].token = issued'
                /\ Move(c, [AtRest EXCEPT !.at = "identify", !.id = i, !.token = issued'])
       \/ TakeNothing(Owner[c].lane, "hold") /\ Move(c, AtRest)
    /\ UNCHANGED own

Identify(c) ==
    /\ bridge[c].at = "identify"
    /\ \E key \in DOMAIN admissions :
        /\ admissions[key].id = bridge[c].id
        /\ Move(c, [bridge[c] EXCEPT !.at = "inspect", !.key = key])
    /\ UNCHANGED hvars

\* Mutant: no require_active.
SnapshotOfAny(c, b) ==
    /\ Found(b.key, b.id, Owner[c].lane)
    /\ Move(c, [b EXCEPT !.at = "told", !.lease = directives[b.id].lease])
    /\ UNCHANGED hvars

\* Mutant: the reply tells the lease the client runs with, from now.
SnapshotOfTheUsual(c, b) ==
    /\ Found(b.key, b.id, Owner[c].lane)
    /\ HoldsClaim(directives[b.id], b.token, now)
    /\ Move(c, [b EXCEPT !.at = "told", !.lease = now + Owner[c].lease])
    /\ UNCHANGED hvars

\* inspect: lookup, require_active and the reply, in one read transaction.
Snapshot(c, b) ==
    /\ Found(b.key, b.id, Owner[c].lane)
    /\ HoldsClaim(directives[b.id], b.token, now)
    /\ Move(c, [b EXCEPT !.at = "told", !.lease = directives[b.id].lease])
    /\ UNCHANGED hvars

Inspect(c, key, i, k) ==
    /\ Free(c)
    /\ Snapshot(c, [AtRest EXCEPT !.key = key, !.id = i, !.token = k])

InspectAfter(c) ==
    /\ bridge[c].at = "inspect"
    /\ Snapshot(c, bridge[c])

\* renew: lookup and require_active, then touch, then inspect.
Renew(c, key, i, k) ==
    /\ Free(c)
    /\ Found(key, i, Owner[c].lane)
    /\ HoldsClaim(directives[i], k, now)
    /\ Move(c, [AtRest EXCEPT !.at = "touch", !.key = key, !.id = i, !.token = k])
    /\ UNCHANGED hvars

\* A touch whose guard fails has swept, and raises.  (One that fails on a row
\* not swept yet goes on here, to an inspect that cannot succeed.)
Touch(c) ==
    LET i == bridge[c].id
        k == bridge[c].token
    IN  /\ bridge[c].at = "touch"
        /\ TouchFenced(i, k, Owner[c].lease)
        /\ Move(c, IF directives'[i].status = "taken" /\ directives'[i].token = k
                   THEN [bridge[c] EXCEPT !.at = "inspect"] ELSE AtRest)
        /\ UNCHANGED own

\* complete: one transaction; a sealed handoff is answered whatever the lanes.
CompleteFor(c, key, i, k, m) ==
    /\ Free(c)
    /\ Found(key, i, Owner[c].lane)
    /\ \/ Replay(i, k, m)
       \/ /\ \A n \in DOMAIN m.successors : m.successors[n].lane \in Owner[c].successor_lanes
          /\ Complete(i, k, m)
    /\ Move(c, AtRest)

Leave(c) ==
    /\ bridge[c].at # "idle"
    /\ Move(c, AtRest)
    /\ UNCHANGED hvars

-----------------------------------------------------------------------------
BridgeStep(c) ==
    \/ Claim(c) \/ Identify(c) \/ InspectAfter(c) \/ Touch(c) \/ Leave(c)
    \/ \E key \in DOMAIN admissions, i \in Ids, k \in 1..issued :
        \/ Inspect(c, key, i, k)
        \/ Renew(c, key, i, k)
        \/ \E m \in Manifests : CompleteFor(c, key, i, k, m)

BridgeNext ==
    \/ HandoffNext /\ UNCHANGED bridge
    \/ \E c \in Clients : BridgeStep(c)

BridgeSpec == BridgeInit /\ [][BridgeNext]_bvars
=============================================================================
