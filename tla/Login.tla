-------------------------------- MODULE Login --------------------------------
(***************************************************************************)
(* How a wallet address logs in at a relay (auth.service.ts): the nonce    *)
(* that generateNonce keeps in redis, and verifySignatureAndLogin, which   *)
(* reads it, clears it, and finds and saves the row of the address, one    *)
(* await after another; so the logins of one address interleave.           *)
(* Verifying a session token changes nothing and is left out.              *)
(*                                                                         *)
(* One address: addresses share nothing.                                   *)
(***************************************************************************)
EXTENDS Naturals

CONSTANTS
    Nonce,       \* the random challenges
    Attempt,     \* calls of verifySignatureAndLogin
    NoNonce      \* redis knows none

VARIABLES
    challenge,   \* redis auth:nonce:<address>
    issued,      \* nonces generated so far
    attempt,     \* where each login stands, and the nonce it was given
    user,        \* whether the users table has the address
    spent,       \* history: nonces that a login they proved has cleared
    late,        \* history: attempts that came after that
    forged,      \* history: attempts with a wrong signature
    void         \* history: nonces that expired, or that a newer one or a login removed

loginVars == <<challenge, issued, attempt, user, spent, late, forged, void>>

ASSUME LoginAssumption == NoNonce \notin Nonce

AttemptStep == {"idle", "clear", "find", "insert", "update", "in", "refused", "failed"}

LoginTypeOK ==
    /\ challenge \in Nonce \cup {NoNonce}
    /\ issued \subseteq Nonce
    /\ attempt \in [Attempt -> [pc : AttemptStep, nonce : Nonce \cup {NoNonce}]]
    /\ user \in BOOLEAN
    /\ spent \subseteq Nonce /\ void \subseteq Nonce
    /\ late \subseteq Attempt /\ forged \subseteq Attempt

LoginInit ==
    /\ challenge = NoNonce /\ issued = {}
    /\ attempt = [c \in Attempt |-> [pc |-> "idle", nonce |-> NoNonce]]
    /\ user \in BOOLEAN
    /\ spent = {} /\ late = {} /\ forged = {} /\ void = {}

Voided == void \cup ({challenge} \ {NoNonce})

\* generateNonce: a new one replaces the one before.
GenerateNonce(n) ==
    /\ n \notin issued
    /\ issued' = issued \cup {n}
    /\ challenge' = n
    /\ void' = Voided
    /\ UNCHANGED <<attempt, user, spent, late, forged>>

\* After five minutes.
NonceExpires ==
    /\ challenge # NoNonce
    /\ challenge' = NoNonce
    /\ void' = Voided
    /\ UNCHANGED <<issued, attempt, user, spent, late, forged>>

Proceeds(c, pc) == attempt' = [attempt EXCEPT ![c].pc = pc]

\* The nonce is read and compared, and the signature verified.
LoginRead(c, n, genuine) ==
    /\ attempt[c].pc = "idle" /\ n \in issued
    /\ attempt' = [attempt EXCEPT ![c] =
          [pc |-> IF n = challenge /\ genuine THEN "clear" ELSE "refused", nonce |-> n]]
    /\ late' = late \cup {x \in {c} : n \in spent}
    /\ forged' = forged \cup {x \in {c} : ~genuine}
    /\ UNCHANGED <<challenge, issued, user, spent, void>>

\* A slip: the nonce is left to expire.
KeepNonce(c) ==
    /\ attempt[c].pc = "clear"
    /\ Proceeds(c, "find")
    /\ spent' = spent \cup {attempt[c].nonce}
    /\ UNCHANGED <<challenge, issued, user, late, forged, void>>

\* DEL, of whatever nonce the address has by now.
LoginClear(c) ==
    /\ attempt[c].pc = "clear"
    /\ Proceeds(c, "find")
    /\ challenge' = NoNonce
    /\ void' = Voided
    /\ spent' = spent \cup {attempt[c].nonce}
    /\ UNCHANGED <<issued, user, late, forged>>

\* findOne, and the look of save for the row.
LoginFind(c) ==
    /\ attempt[c].pc = "find"
    /\ Proceeds(c, IF user THEN "update" ELSE "insert")
    /\ UNCHANGED <<challenge, issued, user, spent, late, forged, void>>

\* save, then the token; an insert of a row that is there by now fails, and any
\* write may.
LoginSave(c) ==
    /\ attempt[c].pc \in {"insert", "update"}
    /\ \/ /\ attempt[c].pc = "insert" => ~user
          /\ Proceeds(c, "in")
          /\ user' = TRUE
       \/ /\ Proceeds(c, "failed")
          /\ UNCHANGED user
    /\ UNCHANGED <<challenge, issued, spent, late, forged, void>>

LoginNext ==
    \/ NonceExpires
    \/ \E n \in Nonce : GenerateNonce(n)
    \/ \E c \in Attempt :
          \/ \E n \in Nonce, genuine \in BOOLEAN : LoginRead(c, n, genuine)
          \/ LoginClear(c) \/ LoginFind(c) \/ LoginSave(c)

LoginSpec == LoginInit /\ [][LoginNext]_loginVars
-----------------------------------------------------------------------------
\* The nonce and the signature let the call pass.
Proved(c) == attempt[c].pc \notin {"idle", "refused"}

\* A nonce is good for the logins that read it before the first of them cleared it,
\* and for none after.  And a signed nonce is good for a login unless it expired, or
\* was replaced, or a login of the address removed it; which may be an earlier one,
\* of another nonce, that was slow to clear its own.
SpentOnce ==
    /\ \A c \in late : ~Proved(c)
    /\ \A c \in Attempt : attempt[c].pc = "refused" /\ c \notin forged =>
          attempt[c].nonce \in void
    /\ challenge \notin spent /\ spent \subseteq void
=============================================================================
