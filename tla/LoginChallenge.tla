--------------------------- MODULE LoginChallenge ---------------------------
(***************************************************************************)
(* The second factor of one account: emailed and administrator-issued      *)
(* codes, recovery codes, the attempts counted against a code and the      *)
(* freeze after too many burned codes.  issueLoginChallenge and            *)
(* verifyLoginChallenge each peek at the freeze, run one transaction and   *)
(* then settle the freeze's counter outside of it; sign-ins and resends    *)
(* interleave there, and any of them may stop.                             *)
(***************************************************************************)
EXTENDS Naturals, Sequences

CONSTANTS
    Calls,          \* requests that can be under way together
    RecoveryCodes,
    Wrong,          \* a code that matches nothing
    MaxChallenges,  \* bound: codes issued
    MaxVersion,     \* bound: auth_version
    MaxAttempts,    \* OTP_MAX_ATTEMPTS
    LockLimit       \* OTP_LOCKOUT_LIMIT

Ids == 1..MaxChallenges

LoginAssumption ==
    /\ MaxChallenges \in Nat /\ MaxVersion \in Nat
    /\ MaxAttempts \in Nat \ {0} /\ LockLimit \in Nat \ {0}
    /\ RecoveryCodes \intersect Nat = {} /\ Wrong \notin RecoveryCodes \union Nat

VARIABLES
    challenge,   \* email_otp_challenges, in the order of creation
    unused,      \* mfa_recovery_codes without used_at
    version,     \* employees.auth_version
    hits,        \* the account's bucket lockout:otp
    call,
    signIns,     \* history: sign-ins each code has proved
    strikes      \* history: hits charged for each challenge

vars == <<challenge, unused, version, hits, call, signIns, strikes>>

Purposes == {"login", "break_glass"}

\* consumed_at, with the reason why, and expires_at
Fates == {"live", "expired", "retired", "redeemed", "superseded", "stale", "burned"}
Challenge == [purpose: Purposes, attempts: 0..MaxAttempts, version: 0..MaxVersion, fate: Fates]
Codes == Ids \union RecoveryCodes

Idle == [pc |-> "idle", kind |-> "none", code |-> Wrong, version |-> 0, burned |-> 0]

Live == { i \in DOMAIN challenge : challenge[i].fate = "live" }
Locked == hits >= LockLimit

TypeOK ==
    /\ challenge \in Seq(Challenge) /\ Len(challenge) <= MaxChallenges
    /\ unused \subseteq RecoveryCodes /\ version \in 0..MaxVersion
    /\ hits \in 0..(LockLimit + 1)
    /\ call \in [Calls -> [pc: {"idle", "peek", "tx", "strike", "clear"},
                           kind: Purposes \union {"verify", "none"}, code: Codes \union {Wrong},
                           version: 0..MaxVersion, burned: Ids \union {0}]]
    /\ signIns \in [Codes -> Nat] /\ strikes \in [Ids -> Nat]

Init ==
    /\ challenge = <<>> /\ unused = RecoveryCodes /\ version = 0 /\ hits = 0
    /\ call = [c \in Calls |-> Idle]
    /\ signIns = [k \in Codes |-> 0] /\ strikes = [i \in Ids |-> 0]

At(c, step) == call[c].pc = step
Goto(c, step) == call' = [call EXCEPT ![c].pc = step]
Done(c) == call' = [call EXCEPT ![c] = Idle]

\* A sign-in without a code, or an administrator's emergency code.
BeginIssue(c) ==
    /\ call[c] = Idle
    /\ \E purpose \in Purposes :
          call' = [call EXCEPT ![c] = [Idle EXCEPT !.pc = "peek", !.kind = purpose]]
    /\ UNCHANGED <<challenge, unused, version, hits, signIns, strikes>>

\* A sign-in with a code; the account is read before the code is verified.
BeginVerify(c) ==
    /\ call[c] = Idle
    /\ \E code \in DOMAIN challenge \union RecoveryCodes \union {Wrong} :
          call' = [call EXCEPT ![c] = [Idle EXCEPT !.pc = "peek", !.kind = "verify",
                                                   !.code = code, !.version = version]]
    /\ UNCHANGED <<challenge, unused, version, hits, signIns, strikes>>

\* checkOtpLockout; it fails closed.
Peek(c) ==
    /\ At(c, "peek")
    /\ \/ ~Locked /\ Goto(c, "tx")
       \/ Done(c)
    /\ UNCHANGED <<challenge, unused, version, hits, signIns, strikes>>

HeldByAdministrator == \E i \in Live : challenge[i].purpose = "break_glass"

Retire(i) == IF challenge[i].fate = "live" THEN [challenge[i] EXCEPT !.fate = "retired"] ELSE challenge[i]

Minted(purpose) == [purpose |-> purpose, attempts |-> 0, version |-> version, fate |-> "live"]

\* Fault: a resend replaces whatever code there is.
IssueOverHeld(c) ==
    /\ At(c, "tx") /\ call[c].kind \in Purposes
    /\ \/ UNCHANGED challenge
       \/ /\ Len(challenge) < MaxChallenges
          /\ challenge' = Append([i \in DOMAIN challenge |-> Retire(i)], Minted(call[c].kind))
    /\ Done(c)
    /\ UNCHANGED <<unused, version, hits, signIns, strikes>>

\* Fault: the previous code is left to expire.
IssueBeside(c) ==
    /\ At(c, "tx") /\ call[c].kind \in Purposes
    /\ \/ UNCHANGED challenge
       \/ /\ ~HeldByAdministrator /\ Len(challenge) < MaxChallenges
          /\ challenge' = Append(challenge, Minted(call[c].kind))
    /\ Done(c)
    /\ UNCHANGED <<unused, version, hits, signIns, strikes>>

\* The transaction of issueLoginChallenge, under the lock of the employee's row:
\* refused (inactive account, cooldown, a held emergency code), or a new code.
Issue(c) ==
    /\ At(c, "tx") /\ call[c].kind \in Purposes
    /\ \/ UNCHANGED challenge
       \/ /\ ~HeldByAdministrator /\ Len(challenge) < MaxChallenges
          /\ challenge' = Append([i \in DOMAIN challenge |-> Retire(i)], Minted(call[c].kind))
    /\ Done(c)
    /\ UNCHANGED <<unused, version, hits, signIns, strikes>>

\* The live challenge, locked.  A verification that waited for the lock of a
\* challenge that was consumed meanwhile finds none.
Locking(c, found) ==
    /\ At(c, "tx") /\ call[c].kind = "verify"
    /\ found \in {{}} \union { {i} : i \in Live }

End(i, fate) == challenge' = [challenge EXCEPT ![i].fate = fate]
Stale(c, found) == \E i \in found : challenge[i].version # call[c].version
Spent(found) == \E i \in found : challenge[i].attempts >= MaxAttempts
Matches(c, found) == call[c].code \in found
SignIn(c) ==
    /\ signIns' = [signIns EXCEPT ![call[c].code] = @ + 1]
    /\ call' = [call EXCEPT ![c] = [Idle EXCEPT !.pc = "clear"]]

\* Minted before a credential changed.
RefuseStale(c, found) ==
    /\ Locking(c, found) /\ Stale(c, found)
    /\ \E i \in found : End(i, "stale")
    /\ Done(c) /\ UNCHANGED <<unused, signIns>>

\* Fault: the code is not consumed.
RedeemKept(c, found) ==
    /\ Locking(c, found) /\ ~Stale(c, found) /\ ~Spent(found) /\ Matches(c, found)
    /\ SignIn(c)
    /\ UNCHANGED <<challenge, unused>>

Redeem(c, found) ==
    /\ Locking(c, found) /\ ~Stale(c, found) /\ ~Spent(found) /\ Matches(c, found)
    /\ End(call[c].code, "redeemed")
    /\ SignIn(c)
    /\ UNCHANGED unused

Recover(c, found) ==
    /\ Locking(c, found) /\ ~Stale(c, found) /\ ~Spent(found) /\ call[c].code \in unused
    /\ unused' = unused \ {call[c].code}
    /\ IF found = {} THEN UNCHANGED challenge ELSE \E i \in found : End(i, "superseded")
    /\ SignIn(c)

\* No attempt is left, or the code is neither the live one nor a recovery code.
Failing(c, found) ==
    /\ Locking(c, found) /\ ~Stale(c, found)
    /\ Spent(found) \/ (~Matches(c, found) /\ call[c].code \notin unused)

\* The attempts of a challenge after a failure.
Counted(i) == IF Spent({i}) THEN MaxAttempts ELSE challenge[i].attempts + 1

Charge(c, i) == call' = [call EXCEPT ![c] = [Idle EXCEPT !.pc = "strike", !.burned = i]]

\* Fault: the last attempt does not consume the challenge.
CountAttemptOnly(c, found) ==
    /\ Failing(c, found)
    /\ \E i \in found :
          /\ challenge' = [challenge EXCEPT ![i].attempts = Counted(i)]
          /\ IF Counted(i) >= MaxAttempts
             THEN Charge(c, i)
             ELSE Done(c)
    /\ UNCHANGED <<unused, signIns>>

\* A wrong code is counted, and the last allowed one burns the challenge.
CountAttempt(c, found) ==
    /\ Failing(c, found)
    /\ \E i \in found :
          IF Counted(i) >= MaxAttempts
          THEN /\ challenge' = [challenge EXCEPT ![i].attempts = Counted(i), ![i].fate = "burned"]
               /\ Charge(c, i)
          ELSE challenge' = [challenge EXCEPT ![i].attempts = Counted(i)] /\ Done(c)
    /\ UNCHANGED <<unused, signIns>>

NothingToVerify(c, found) ==
    /\ Failing(c, found) /\ found = {}
    /\ Done(c) /\ UNCHANGED <<challenge, unused, signIns>>

\* The transaction of verifyLoginChallenge.
Verify(c) ==
    /\ \E found \in SUBSET Live :
          \/ RefuseStale(c, found) \/ Redeem(c, found) \/ Recover(c, found)
          \/ CountAttempt(c, found) \/ NothingToVerify(c, found)
    /\ UNCHANGED <<version, hits, strikes>>

\* rateLimit, after the commit; its own failure charges nothing.
Strike(c) ==
    /\ At(c, "strike")
    /\ \/ /\ hits' = IF hits > LockLimit THEN hits ELSE hits + 1
          /\ strikes' = [strikes EXCEPT ![call[c].burned] = @ + 1]
       \/ UNCHANGED <<hits, strikes>>
    /\ Done(c)
    /\ UNCHANGED <<challenge, unused, version, signIns>>

\* A sign-in that was proved starts the counter over, best effort.
Clear(c) ==
    /\ At(c, "clear") /\ hits' \in {0, hits} /\ Done(c)
    /\ UNCHANGED <<challenge, unused, version, signIns, strikes>>

Stop(c) ==
    /\ call[c] # Idle /\ Done(c)
    /\ UNCHANGED <<challenge, unused, version, hits, signIns, strikes>>

\* Time passes: a code, or the window of the freeze, runs out.
Expire ==
    /\ \E i \in Live : End(i, "expired")
    /\ UNCHANGED <<unused, version, hits, call, signIns, strikes>>

WindowEnds ==
    /\ hits > 0 /\ hits' = 0
    /\ UNCHANGED <<challenge, unused, version, call, signIns, strikes>>

\* A password, email or role change raises auth_version.
ChangeCredential ==
    /\ version < MaxVersion /\ version' = version + 1
    /\ UNCHANGED <<challenge, unused, hits, call, signIns, strikes>>

Next ==
    \/ \E c \in Calls :
          \/ BeginIssue(c) \/ BeginVerify(c) \/ Peek(c) \/ Issue(c) \/ Verify(c)
          \/ Strike(c) \/ Clear(c) \/ Stop(c)
    \/ Expire \/ WindowEnds \/ ChangeCredential

Spec == Init /\ [][Next]_vars

------------------------------------------------------------------------------
(* Properties *)

\* At most one code is ever live, the newest: "only one challenge per employee is
\* ever live", which is why no challenge id travels with the code.
OneLiveChallenge == \A i \in Live : i = Len(challenge)

\* A code proves one sign-in, however many submissions of it race.
CodesSignInOnce == \A k \in Codes : signIns[k] <= 1

\* "One burned challenge is one hit": a burned code is charged to the account at
\* most once, and only a burned code is.
OneStrikePerBurn ==
    \A i \in Ids : /\ strikes[i] <= 1
                   /\ strikes[i] = 1 => i \in DOMAIN challenge /\ challenge[i].fate = "burned"

\* An emergency code that an administrator has read out is never replaced by a
\* mailed one, whoever submits the sign-in form.
EmergencyCodeNotRetired ==
    \A i \in DOMAIN challenge :
       challenge[i].purpose = "break_glass" => challenge[i].fate # "retired"
=============================================================================
