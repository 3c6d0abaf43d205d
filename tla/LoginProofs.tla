---------------------------- MODULE LoginProofs ----------------------------
(***************************************************************************)
(* What the second factor promises, for every number of calls, codes and   *)
(* attempts: one live code, one sign-in and one strike for each, and no    *)
(* emergency code replaced.                                                *)
(*                                                                         *)
(* The transactions of verifications overlap the steps before and after    *)
(* them.  What holds them together is that the fate of a code is decided   *)
(* once: a code that proved a sign-in is redeemed, and a call that still   *)
(* has to charge a strike owns the code it burned (Settled).               *)
(***************************************************************************)
EXTENDS LoginChallenge, TLAPS

Charging == { c \in Calls : call[c].pc = "strike" }

\* Every sign-in left its code used up, and every burned code has been charged,
\* or is being charged, by the one call that burned it.
Settled ==
    /\ \A i \in Ids : signIns[i] # 0 => i \in DOMAIN challenge /\ challenge[i].fate = "redeemed"
    /\ \A k \in RecoveryCodes : signIns[k] # 0 => k \notin unused
    /\ \A c \in Charging :
          LET i == call[c].burned
          IN  i \in DOMAIN challenge /\ challenge[i].fate = "burned" /\ strikes[i] = 0
    /\ \A c, d \in Charging : call[c].burned = call[d].burned => c = d

LoginInv ==
    /\ TypeOK /\ Settled
    /\ OneLiveChallenge /\ CodesSignInOnce /\ OneStrikePerBurn /\ EmergencyCodeNotRetired

\* What the invariant says of the codes, apart from calls, counters and history
CodesOK ==
    /\ challenge \in Seq(Challenge) /\ Len(challenge) <= MaxChallenges
    /\ OneLiveChallenge /\ EmergencyCodeNotRetired

------------------------------------------------------------------------------
(* Codes *)

LEMMA CodeFacts ==
    ASSUME LoginAssumption
    PROVE  /\ \A c \in Codes : c \in Ids \/ c \in RecoveryCodes
           /\ Ids \subseteq Codes /\ RecoveryCodes \subseteq Codes
           /\ Ids \subseteq Nat /\ 0 \notin Ids
           /\ Ids \intersect RecoveryCodes = {}
           /\ Wrong \notin Codes
BY DEF LoginAssumption, Codes, Ids

LEMMA ChallengeDomain ==
    ASSUME LoginAssumption, TypeOK
    PROVE  /\ DOMAIN challenge = 1..Len(challenge) /\ Len(challenge) \in Nat
           /\ DOMAIN challenge \subseteq Ids
           /\ \A i \in DOMAIN challenge : challenge[i] \in Challenge
           /\ Live \subseteq DOMAIN challenge
BY DEF LoginAssumption, TypeOK, Ids, Live

\* The fate of one live code is decided, its attempts may be counted.
LEMMA FateDecided ==
    ASSUME LoginAssumption, LoginInv, NEW i \in Live, NEW n \in 0..MaxAttempts,
           NEW fate \in Fates, fate = "retired" => challenge[i].purpose # "break_glass",
           challenge' = [challenge EXCEPT ![i] = [challenge[i] EXCEPT !.attempts = n, !.fate = fate]]
    PROVE  /\ CodesOK' /\ DOMAIN challenge' = DOMAIN challenge
           /\ challenge'[i].fate = fate
           /\ \A j \in DOMAIN challenge : j # i => challenge'[j] = challenge[j]
<1>1. TypeOK /\ OneLiveChallenge /\ EmergencyCodeNotRetired
      BY DEF LoginInv
<1>2. i \in DOMAIN challenge /\ challenge[i] \in Challenge /\ challenge[i].fate = "live"
      BY <1>1, ChallengeDomain DEF Live
<1>. DEFINE row == [challenge[i] EXCEPT !.attempts = n, !.fate = fate]
<1>3. row \in Challenge /\ row.fate = fate /\ row.purpose = challenge[i].purpose
      BY <1>2 DEF Challenge
<1>. HIDE DEF row
<1>4. challenge' = [challenge EXCEPT ![i] = row]
      BY DEF row
<1>5. /\ challenge' \in Seq(Challenge) /\ Len(challenge') = Len(challenge)
      /\ DOMAIN challenge' = DOMAIN challenge
      /\ challenge'[i] = row /\ \A j \in DOMAIN challenge : j # i => challenge'[j] = challenge[j]
      BY <1>1, <1>2, <1>3, <1>4 DEF TypeOK
<1>6. Live' \subseteq Live
      BY <1>2, <1>5 DEF Live
<1>7. OneLiveChallenge'
      BY <1>1, <1>5, <1>6 DEF OneLiveChallenge
<1>8. EmergencyCodeNotRetired'
      BY <1>1, <1>2, <1>3, <1>5 DEF EmergencyCodeNotRetired
<1>. QED BY <1>1, <1>3, <1>5, <1>7, <1>8 DEF CodesOK, TypeOK

\* A new code: those before it keep a fate that was decided.
LEMMA Minting ==
    ASSUME LoginAssumption, LoginInv, NEW purpose \in Purposes,
           ~HeldByAdministrator, Len(challenge) < MaxChallenges,
           challenge' = Append([i \in DOMAIN challenge |-> Retire(i)], Minted(purpose))
    PROVE  /\ CodesOK' /\ DOMAIN challenge \subseteq DOMAIN challenge'
           /\ \A i \in DOMAIN challenge :
                 challenge[i].fate # "live" => challenge'[i] = challenge[i]
<1>1. TypeOK /\ OneLiveChallenge /\ EmergencyCodeNotRetired
      BY DEF LoginInv
<1>. DEFINE n == Len(challenge)
            old == [i \in DOMAIN challenge |-> Retire(i)]
<1>2. /\ n \in Nat /\ DOMAIN challenge = 1..n /\ n < MaxChallenges /\ MaxChallenges \in Nat
      /\ \A i \in 1..n : challenge[i] \in Challenge
      BY <1>1, ChallengeDomain DEF LoginAssumption
<1>3. \A i \in 1..n : /\ Retire(i) \in Challenge /\ Retire(i).fate # "live"
                      /\ Retire(i).purpose = challenge[i].purpose
                      /\ challenge[i].fate # "live" => Retire(i) = challenge[i]
      BY <1>2 DEF Retire, Challenge, Fates
<1>4. old \in Seq(Challenge) /\ Len(old) = n /\ \A i \in 1..n : old[i] = Retire(i)
      BY <1>2, <1>3
<1>5. Minted(purpose) \in Challenge
      BY <1>1 DEF Minted, Challenge, Fates, TypeOK, LoginAssumption
<1>. HIDE DEF old
<1>6. challenge' = Append(old, Minted(purpose))
      BY DEF old
<1>. HIDE DEF n
<1>7. /\ challenge' \in Seq(Challenge) /\ Len(challenge') = n + 1
      /\ DOMAIN challenge' = 1..(n + 1) /\ \A i \in 1..n : challenge'[i] = Retire(i)
      BY <1>2, <1>4, <1>5, <1>6
<1>8. Live' \subseteq {n + 1}
      BY <1>2, <1>3, <1>7 DEF Live
<1>9. OneLiveChallenge'
      BY <1>7, <1>8 DEF OneLiveChallenge
<1>10. EmergencyCodeNotRetired'
  <2>1. \A i \in 1..n : challenge[i].purpose = "break_glass" => challenge[i].fate # "live"
        BY <1>2 DEF HeldByAdministrator, Live
  <2>2. \A i \in 1..n : challenge'[i].purpose = "break_glass" => challenge'[i].fate # "retired"
        BY <1>1, <1>2, <1>3, <1>7, <2>1 DEF EmergencyCodeNotRetired
  <2>3. challenge'[n + 1].fate = "live"
        BY <1>2, <1>4, <1>6 DEF Minted
  <2>. QED BY <1>2, <1>7, <2>2, <2>3 DEF EmergencyCodeNotRetired
<1>. QED BY <1>2, <1>3, <1>7, <1>9, <1>10 DEF CodesOK

------------------------------------------------------------------------------
(* Steps that prove no sign-in and charge nothing *)

CallType == [pc: {"idle", "peek", "tx", "strike", "clear"},
             kind: Purposes \union {"verify", "none"}, code: Codes \union {Wrong},
             version: 0..MaxVersion, burned: Ids \union {0}]

LEMMA IdleTyped == ASSUME LoginAssumption PROVE Idle \in CallType
BY DEF LoginAssumption, Idle, CallType

\* A step that decides nothing but the fate of live codes, and lets no call
\* begin to charge.
LEMMA QuietStep ==
    ASSUME LoginAssumption, LoginInv, CodesOK',
           DOMAIN challenge \subseteq DOMAIN challenge',
           \A i \in DOMAIN challenge :
              challenge[i].fate # "live" => challenge'[i].fate = challenge[i].fate,
           call' \in [Calls -> CallType],
           \A c \in Charging' : c \in Charging /\ call'[c].burned = call[c].burned,
           unused' = unused, version' \in 0..MaxVersion, hits' \in 0..(LockLimit + 1),
           UNCHANGED <<signIns, strikes>>
    PROVE  LoginInv'
<1>1. TypeOK /\ Settled /\ CodesSignInOnce /\ OneStrikePerBurn
      BY DEF LoginInv
<1>2. TypeOK'
      BY <1>1 DEF TypeOK, CodesOK, CallType
<1>3. Settled'
  <2>1. \A i \in Ids : signIns'[i] # 0 => i \in DOMAIN challenge' /\ challenge'[i].fate = "redeemed"
        BY <1>1 DEF Settled
  <2>2. \A c \in Charging' :
           /\ call'[c].burned \in DOMAIN challenge'
           /\ challenge'[call'[c].burned].fate = "burned" /\ strikes'[call'[c].burned] = 0
        BY <1>1 DEF Settled
  <2>3. \A c, d \in Charging' : call'[c].burned = call'[d].burned => c = d
        BY <1>1 DEF Settled
  <2>. QED BY <1>1, <2>1, <2>2, <2>3 DEF Settled
<1>4. OneStrikePerBurn' /\ CodesSignInOnce'
      BY <1>1 DEF OneStrikePerBurn, CodesSignInOnce
<1>. QED BY <1>2, <1>3, <1>4 DEF LoginInv, CodesOK

\* ... and one that touches no code at all
LEMMA CodesUntouched ==
    ASSUME LoginAssumption, LoginInv, UNCHANGED challenge
    PROVE  /\ CodesOK' /\ DOMAIN challenge \subseteq DOMAIN challenge'
           /\ \A i \in DOMAIN challenge :
                 challenge[i].fate # "live" => challenge'[i].fate = challenge[i].fate
BY DEF LoginInv, TypeOK, CodesOK, OneLiveChallenge, EmergencyCodeNotRetired, Live

LEMMA BeginningKeepsInv ==
    ASSUME LoginAssumption, LoginInv, NEW c \in Calls,
           BeginIssue(c) \/ BeginVerify(c) \/ Peek(c) \/ Stop(c) \/ Clear(c)
    PROVE  LoginInv'
<1>1. TypeOK /\ call \in [Calls -> CallType]
      BY DEF LoginInv, TypeOK, CallType
<1>2. /\ UNCHANGED <<challenge, unused, version, signIns, strikes>>
      /\ hits' \in {0, hits}
      BY DEF BeginIssue, BeginVerify, Peek, Stop, Clear
<1>3. PICK new \in CallType : call' = [call EXCEPT ![c] = new] /\ new.pc # "strike"
  <2>1. CASE BeginIssue(c)
    <3>1. PICK purpose \in Purposes :
             call' = [call EXCEPT ![c] = [Idle EXCEPT !.pc = "peek", !.kind = purpose]]
          BY <2>1 DEF BeginIssue
    <3>2. /\ [Idle EXCEPT !.pc = "peek", !.kind = purpose] \in CallType
          /\ [Idle EXCEPT !.pc = "peek", !.kind = purpose].pc = "peek"
          BY IdleTyped DEF CallType, Idle
    <3>. QED BY <3>1, <3>2
  <2>2. CASE BeginVerify(c)
    <3>1. PICK code \in DOMAIN challenge \union RecoveryCodes \union {Wrong} :
             call' = [call EXCEPT ![c] = [Idle EXCEPT !.pc = "peek", !.kind = "verify",
                                                      !.code = code, !.version = version]]
          BY <2>2 DEF BeginVerify
    <3>. DEFINE new == [Idle EXCEPT !.pc = "peek", !.kind = "verify", !.code = code, !.version = version]
    <3>2. code \in Codes \union {Wrong} /\ version \in 0..MaxVersion
          BY <1>1, ChallengeDomain, CodeFacts DEF TypeOK
    <3>3. new \in CallType /\ new.pc = "peek"
          BY <3>2, IdleTyped DEF CallType, Idle
    <3>. QED BY <3>1, <3>3
  <2>3. CASE Peek(c)
    <3>1. call' = [call EXCEPT ![c].pc = "tx"] \/ call' = [call EXCEPT ![c] = Idle]
          BY <2>3 DEF Peek, Goto, Done
    <3>2. call[c] \in CallType
          BY <1>1
    <3>3. [call[c] EXCEPT !.pc = "tx"] \in CallType /\ [call[c] EXCEPT !.pc = "tx"].pc = "tx"
          BY <3>2 DEF CallType
    <3>4. Idle.pc = "idle"
          BY DEF Idle
    <3>. QED BY <3>1, <3>3, <3>4, IdleTyped
  <2>4. CASE Stop(c) \/ Clear(c)
        BY <2>4, IdleTyped DEF Stop, Clear, Done, Idle
  <2>. QED BY <2>1, <2>2, <2>3, <2>4
<1>4. call' \in [Calls -> CallType]
      BY <1>1, <1>3
<1>5. \A d \in Charging' : d \in Charging /\ call'[d].burned = call[d].burned
      BY <1>1, <1>3 DEF Charging
<1>6. hits' \in 0..(LockLimit + 1) /\ version' \in 0..MaxVersion
      BY <1>1, <1>2 DEF TypeOK, LoginAssumption
<1>. QED BY <1>2, <1>4, <1>5, <1>6, CodesUntouched, QuietStep

\* A call that is over: nothing is left to charge.
LEMMA DoneIsQuiet ==
    ASSUME LoginAssumption, LoginInv, NEW c \in Calls, Done(c)
    PROVE  /\ call' \in [Calls -> CallType]
           /\ \A d \in Charging' : d \in Charging /\ call'[d].burned = call[d].burned
<1>1. call \in [Calls -> CallType] /\ call' = [call EXCEPT ![c] = Idle]
      BY DEF LoginInv, TypeOK, CallType, Done
<1>2. Idle.pc = "idle" /\ Idle \in CallType
      BY IdleTyped DEF Idle
<1>. QED BY <1>1, <1>2 DEF Charging

LEMMA IssueKeepsInv ==
    ASSUME LoginAssumption, LoginInv, NEW c \in Calls, Issue(c)
    PROVE  LoginInv'
<1>1. Done(c) /\ UNCHANGED <<unused, version, hits, signIns, strikes>>
      BY DEF Issue
<1>2. version' \in 0..MaxVersion /\ hits' \in 0..(LockLimit + 1)
      BY <1>1 DEF LoginInv, TypeOK
<1>3. CASE UNCHANGED challenge
      BY <1>1, <1>2, <1>3, DoneIsQuiet, CodesUntouched, QuietStep
<1>4. CASE ~UNCHANGED challenge
  <2>1. /\ ~HeldByAdministrator /\ Len(challenge) < MaxChallenges /\ call[c].kind \in Purposes
        /\ challenge' = Append([i \in DOMAIN challenge |-> Retire(i)], Minted(call[c].kind))
        BY <1>4 DEF Issue
  <2>2. /\ CodesOK' /\ DOMAIN challenge \subseteq DOMAIN challenge'
        /\ \A i \in DOMAIN challenge :
              challenge[i].fate # "live" => challenge'[i] = challenge[i]
        BY <2>1, Minting
  <2>. QED BY <1>1, <1>2, <2>2, DoneIsQuiet, QuietStep
<1>. QED BY <1>3, <1>4

LEMMA TimePasses ==
    ASSUME LoginAssumption, LoginInv, Expire \/ WindowEnds \/ ChangeCredential
    PROVE  LoginInv'
<1>1. /\ call' \in [Calls -> CallType] /\ UNCHANGED <<unused, call, signIns, strikes>>
      /\ \A d \in Charging' : d \in Charging /\ call'[d].burned = call[d].burned
      BY DEF Expire, WindowEnds, ChangeCredential, LoginInv, TypeOK, CallType, Charging
<1>2. version' \in 0..MaxVersion /\ hits' \in 0..(LockLimit + 1)
      BY DEF Expire, WindowEnds, ChangeCredential, LoginInv, TypeOK, LoginAssumption
<1>3. CASE UNCHANGED challenge
      BY <1>1, <1>2, <1>3, CodesUntouched, QuietStep
<1>4. CASE Expire
  <2>1. PICK i \in Live : challenge' = [challenge EXCEPT ![i].fate = "expired"]
        BY <1>4 DEF Expire, End
  <2>2. /\ challenge[i].attempts \in 0..MaxAttempts
        /\ [challenge[i] EXCEPT !.fate = "expired"]
              = [challenge[i] EXCEPT !.attempts = challenge[i].attempts, !.fate = "expired"]
        BY ChallengeDomain DEF LoginInv, Challenge
  <2>3. /\ CodesOK' /\ DOMAIN challenge' = DOMAIN challenge
        /\ \A j \in DOMAIN challenge : j # i => challenge'[j] = challenge[j]
        BY <2>1, <2>2, FateDecided DEF Fates
  <2>4. challenge[i].fate = "live"
        BY DEF Live
  <2>. QED BY <1>1, <1>2, <2>3, <2>4, QuietStep
<1>. QED BY <1>3, <1>4 DEF WindowEnds, ChangeCredential

------------------------------------------------------------------------------
(* Verification *)

\* The fate of the challenge that was found, whatever its attempts.
LEMMA EndDecides ==
    ASSUME LoginAssumption, LoginInv, NEW i \in Live, NEW fate \in Fates \ {"retired"},
           End(i, fate)
    PROVE  /\ CodesOK' /\ DOMAIN challenge' = DOMAIN challenge
           /\ challenge'[i].fate = fate /\ challenge[i].fate = "live" /\ i \in Ids
           /\ \A j \in DOMAIN challenge : j # i => challenge'[j] = challenge[j]
<1>1. /\ challenge[i].attempts \in 0..MaxAttempts /\ challenge[i].fate = "live" /\ i \in Ids
      /\ [challenge[i] EXCEPT !.fate = fate]
            = [challenge[i] EXCEPT !.attempts = challenge[i].attempts, !.fate = fate]
      BY ChallengeDomain DEF LoginInv, Challenge, Live
<1>2. challenge' = [challenge EXCEPT ![i] =
                      [challenge[i] EXCEPT !.attempts = challenge[i].attempts, !.fate = fate]]
      BY <1>1 DEF End
<1>. QED BY ZenonT(40), <1>1, <1>2, FateDecided

LEMMA FoundIsLive ==
    ASSUME LoginAssumption, LoginInv, NEW c \in Calls, NEW found, Locking(c, found)
    PROVE  /\ found \subseteq Live
           /\ \A i \in found : challenge[i].fate = "live" /\ i \in Ids /\ i \in DOMAIN challenge
                                /\ challenge[i].attempts \in 0..MaxAttempts
BY ChallengeDomain DEF Locking, LoginInv, Live, Challenge

\* A proved sign-in: the code was good for it, and is used up.
LEMMA SignInKeepsInv ==
    ASSUME LoginAssumption, LoginInv, NEW c \in Calls, SignIn(c), CodesOK',
           DOMAIN challenge' = DOMAIN challenge,
           \A i \in DOMAIN challenge :
              challenge[i].fate # "live" => challenge'[i].fate = challenge[i].fate,
           \/ /\ call[c].code \in Live /\ challenge'[call[c].code].fate = "redeemed"
              /\ UNCHANGED unused
           \/ call[c].code \in unused /\ unused' = unused \ {call[c].code},
           UNCHANGED <<version, hits, strikes>>
    PROVE  LoginInv'
<1>. DEFINE k == call[c].code
<1>1. /\ TypeOK /\ Settled /\ CodesSignInOnce /\ OneStrikePerBurn
      /\ call \in [Calls -> CallType] /\ signIns \in [Codes -> Nat]
      BY DEF LoginInv, TypeOK, CallType
<1>2. k \in Codes /\ signIns[k] = 0
  <2>1. CASE k \in Live
    <3>1. k \in Ids /\ challenge[k].fate = "live"
          BY <1>1, <2>1, ChallengeDomain DEF Live
    <3>. QED BY <1>1, <3>1, CodeFacts DEF Settled
  <2>2. CASE k \in unused
        BY <1>1, <2>2, CodeFacts DEF Settled, TypeOK
  <2>. QED BY <2>1, <2>2
<1>3. signIns' = [signIns EXCEPT ![k] = signIns[k] + 1]
      BY DEF SignIn
<1>4. signIns' \in [Codes -> Nat] /\ signIns'[k] = 1 /\ \A j \in Codes \ {k} : signIns'[j] = signIns[j]
      BY <1>1, <1>2, <1>3
<1>5. /\ call' \in [Calls -> CallType]
      /\ \A d \in Charging' : d \in Charging /\ call'[d].burned = call[d].burned
  <2>1. [Idle EXCEPT !.pc = "clear"] \in CallType /\ [Idle EXCEPT !.pc = "clear"].pc = "clear"
        BY IdleTyped DEF CallType, Idle
  <2>. QED BY <1>1, <2>1 DEF SignIn, Charging
<1>6. TypeOK'
      BY <1>1, <1>4, <1>5 DEF TypeOK, CodesOK, CallType
<1>7. Settled'
  <2>1. \A i \in Ids : signIns'[i] # 0 => i \in DOMAIN challenge' /\ challenge'[i].fate = "redeemed"
    <3>1. \A i \in Ids \ {k} : signIns'[i] # 0 =>
             i \in DOMAIN challenge' /\ challenge'[i].fate = "redeemed"
          BY <1>1, <1>4, CodeFacts DEF Settled
    <3>2. k \in Ids => k \in DOMAIN challenge' /\ challenge'[k].fate = "redeemed"
          BY <1>1, CodeFacts, ChallengeDomain DEF TypeOK
    <3>. QED BY <3>1, <3>2
  <2>2. \A j \in RecoveryCodes : signIns'[j] # 0 => j \notin unused'
    <3>1. k \in RecoveryCodes => k \notin unused'
          BY <1>1, CodeFacts, ChallengeDomain
    <3>. QED BY <1>1, <1>4, <3>1, CodeFacts DEF Settled
  <2>3. \A d \in Charging' :
           /\ call'[d].burned \in DOMAIN challenge'
           /\ challenge'[call'[d].burned].fate = "burned" /\ strikes'[call'[d].burned] = 0
        BY <1>1, <1>5 DEF Settled
  <2>4. \A d, e \in Charging' : call'[d].burned = call'[e].burned => d = e
        BY <1>1, <1>5 DEF Settled
  <2>. QED BY <2>1, <2>2, <2>3, <2>4 DEF Settled
<1>8. CodesSignInOnce'
      BY <1>1, <1>2, <1>4 DEF CodesSignInOnce
<1>9. OneStrikePerBurn'
      BY <1>1 DEF OneStrikePerBurn
<1>. QED BY <1>6, <1>7, <1>8, <1>9 DEF LoginInv, CodesOK

LEMMA RefuseOrMissKeepsInv ==
    ASSUME LoginAssumption, LoginInv, NEW c \in Calls, NEW found,
           RefuseStale(c, found) \/ NothingToVerify(c, found),
           UNCHANGED <<version, hits, strikes>>
    PROVE  LoginInv'
<1>1. Locking(c, found) /\ Done(c) /\ UNCHANGED <<unused, signIns>>
      BY DEF RefuseStale, NothingToVerify, Failing
<1>2. version' \in 0..MaxVersion /\ hits' \in 0..(LockLimit + 1)
      BY DEF LoginInv, TypeOK
<1>3. CASE UNCHANGED challenge
      BY <1>1, <1>2, <1>3, DoneIsQuiet, CodesUntouched, QuietStep
<1>4. CASE RefuseStale(c, found)
  <2>1. PICK i \in found : End(i, "stale")
        BY <1>4 DEF RefuseStale
  <2>2. i \in Live
        BY <1>1, FoundIsLive
  <2>3. /\ CodesOK' /\ DOMAIN challenge' = DOMAIN challenge /\ challenge[i].fate = "live"
        /\ \A j \in DOMAIN challenge : j # i => challenge'[j] = challenge[j]
        BY <2>1, <2>2, EndDecides DEF Fates
  <2>. QED BY <1>1, <1>2, <2>3, DoneIsQuiet, QuietStep
<1>. QED BY <1>3, <1>4 DEF NothingToVerify

LEMMA RedeemKeepsInv ==
    ASSUME LoginAssumption, LoginInv, NEW c \in Calls, NEW found, Redeem(c, found),
           UNCHANGED <<version, hits, strikes>>
    PROVE  LoginInv'
<1>1. /\ Locking(c, found) /\ call[c].code \in found /\ End(call[c].code, "redeemed")
      /\ SignIn(c) /\ UNCHANGED unused
      BY DEF Redeem, Matches
<1>2. call[c].code \in Live
      BY <1>1, FoundIsLive
<1>3. /\ CodesOK' /\ DOMAIN challenge' = DOMAIN challenge
      /\ challenge'[call[c].code].fate = "redeemed" /\ challenge[call[c].code].fate = "live"
      /\ \A j \in DOMAIN challenge : j # call[c].code => challenge'[j] = challenge[j]
      BY <1>1, <1>2, EndDecides DEF Fates
<1>. QED BY <1>1, <1>2, <1>3, SignInKeepsInv

LEMMA RecoverKeepsInv ==
    ASSUME LoginAssumption, LoginInv, NEW c \in Calls, NEW found, Recover(c, found),
           UNCHANGED <<version, hits, strikes>>
    PROVE  LoginInv'
<1>1. /\ Locking(c, found) /\ call[c].code \in unused /\ unused' = unused \ {call[c].code}
      /\ SignIn(c)
      BY DEF Recover
<1>2. CASE UNCHANGED challenge
      BY <1>1, <1>2, CodesUntouched, SignInKeepsInv
<1>3. CASE \E i \in found : End(i, "superseded")
  <2>1. PICK i \in found : End(i, "superseded")
        BY <1>3
  <2>2. i \in Live
        BY <1>1, FoundIsLive
  <2>3. /\ CodesOK' /\ DOMAIN challenge' = DOMAIN challenge /\ challenge[i].fate = "live"
        /\ \A j \in DOMAIN challenge : j # i => challenge'[j] = challenge[j]
        BY <2>1, <2>2, EndDecides DEF Fates
  <2>. QED BY <1>1, <2>3, SignInKeepsInv
<1>. QED BY <1>2, <1>3 DEF Recover

\* A wrong code; the last attempt hands the burned code to the call that charges it.
LEMMA CountAttemptKeepsInv ==
    ASSUME LoginAssumption, LoginInv, NEW c \in Calls, NEW found, CountAttempt(c, found),
           UNCHANGED <<version, hits, strikes>>
    PROVE  LoginInv'
<1>1. Locking(c, found) /\ UNCHANGED <<unused, signIns>>
      BY DEF CountAttempt, Failing
<1>2. PICK i \in found :
         IF Counted(i) >= MaxAttempts
         THEN /\ challenge' = [challenge EXCEPT ![i].attempts = Counted(i), ![i].fate = "burned"]
              /\ Charge(c, i)
         ELSE challenge' = [challenge EXCEPT ![i].attempts = Counted(i)] /\ Done(c)
      BY DEF CountAttempt
<1>3. /\ i \in Live /\ i \in Ids /\ i \in DOMAIN challenge /\ challenge[i].fate = "live"
      /\ challenge[i].attempts \in 0..MaxAttempts /\ challenge[i] \in Challenge
      BY <1>1, FoundIsLive, ChallengeDomain DEF LoginInv
<1>4. Counted(i) \in 0..MaxAttempts
      BY <1>3 DEF Counted, Spent, LoginAssumption
<1>5. /\ TypeOK /\ Settled /\ CodesSignInOnce /\ OneStrikePerBurn
      /\ call \in [Calls -> CallType] /\ version \in 0..MaxVersion /\ hits \in 0..(LockLimit + 1)
      BY DEF LoginInv, TypeOK, CallType
<1>6. CASE Counted(i) < MaxAttempts
  <2>1. challenge' = [challenge EXCEPT ![i].attempts = Counted(i)] /\ Done(c)
        BY <1>2, <1>4, <1>6 DEF LoginAssumption
  <2>2. [challenge[i] EXCEPT !.attempts = Counted(i)]
           = [challenge[i] EXCEPT !.attempts = Counted(i), !.fate = "live"]
        BY <1>3 DEF Challenge
  <2>3. challenge' = [challenge EXCEPT ![i] =
                        [challenge[i] EXCEPT !.attempts = Counted(i), !.fate = "live"]]
        BY <2>1, <2>2
  <2>4. /\ CodesOK' /\ DOMAIN challenge' = DOMAIN challenge
        /\ \A j \in DOMAIN challenge : j # i => challenge'[j] = challenge[j]
        BY <1>3, <1>4, <2>3, FateDecided DEF Fates
  <2>. QED BY <1>1, <1>3, <1>5, <2>1, <2>4, DoneIsQuiet, QuietStep
<1>7. CASE Counted(i) >= MaxAttempts
  <2>1. /\ challenge' = [challenge EXCEPT ![i] =
                            [challenge[i] EXCEPT !.attempts = Counted(i), !.fate = "burned"]]
        /\ call' = [call EXCEPT ![c] = [Idle EXCEPT !.pc = "strike", !.burned = i]]
        BY <1>2, <1>3, <1>7 DEF Charge, Challenge
  <2>2. /\ CodesOK' /\ DOMAIN challenge' = DOMAIN challenge /\ challenge'[i].fate = "burned"
        /\ \A j \in DOMAIN challenge : j # i => challenge'[j] = challenge[j]
        BY <1>3, <1>4, <2>1, FateDecided DEF Fates
  <2>. DEFINE new == [Idle EXCEPT !.pc = "strike", !.burned = i]
  <2>3. new \in CallType /\ new.pc = "strike" /\ new.burned = i
        BY <1>3, IdleTyped DEF CallType, Idle
  <2>. HIDE DEF new
  <2>4. /\ call' \in [Calls -> CallType] /\ call'[c] = new
        /\ \A d \in Calls \ {c} : call'[d] = call[d]
        BY <1>5, <2>1, <2>3 DEF new
  <2>5. Charging' = Charging \union {c}
        BY <2>3, <2>4, <1>1 DEF Charging, Locking, At
  <2>6. c \notin Charging
        BY <1>1 DEF Charging, Locking, At
  <2>7. \A d \in Charging : call[d].burned # i
        BY <1>3, <1>5 DEF Settled
  <2>8. strikes[i] = 0
        BY <1>3, <1>5 DEF OneStrikePerBurn, TypeOK
  <2>9. TypeOK'
        BY <1>1, <1>5, <2>2, <2>4 DEF TypeOK, CodesOK, CallType
  <2>10. Settled'
    <3>1. \A j \in Ids : signIns'[j] # 0 => j \in DOMAIN challenge' /\ challenge'[j].fate = "redeemed"
          BY <1>1, <1>3, <1>5, <2>2 DEF Settled
    <3>2. \A d \in Charging' :
             /\ call'[d].burned \in DOMAIN challenge'
             /\ challenge'[call'[d].burned].fate = "burned" /\ strikes'[call'[d].burned] = 0
          BY <1>3, <1>5, <2>2, <2>3, <2>4, <2>5, <2>6, <2>8 DEF Settled, Charging
    <3>3. \A d, e \in Charging' : call'[d].burned = call'[e].burned => d = e
          BY <1>5, <2>3, <2>4, <2>5, <2>6, <2>7 DEF Settled, Charging
    <3>. QED BY <1>1, <1>5, <3>1, <3>2, <3>3 DEF Settled
  <2>11. OneStrikePerBurn'
        BY <1>5, <2>2 DEF OneStrikePerBurn
  <2>12. CodesSignInOnce'
        BY <1>1, <1>5 DEF CodesSignInOnce
  <2>. QED BY <2>2, <2>9, <2>10, <2>11, <2>12 DEF LoginInv, CodesOK
<1>. QED BY <1>4, <1>6, <1>7 DEF LoginAssumption

\* The call that burned a code charges it, or fails to, once.
LEMMA StrikeKeepsInv ==
    ASSUME LoginAssumption, LoginInv, NEW c \in Calls, Strike(c)
    PROVE  LoginInv'
<1>. DEFINE i == call[c].burned
<1>1. /\ TypeOK /\ Settled /\ CodesSignInOnce /\ OneStrikePerBurn /\ strikes \in [Ids -> Nat]
      /\ call \in [Calls -> CallType]
      BY DEF LoginInv, TypeOK, CallType
<1>2. c \in Charging /\ Done(c) /\ UNCHANGED <<challenge, unused, version, signIns>>
      BY DEF Strike, Charging, At
<1>3. i \in DOMAIN challenge /\ challenge[i].fate = "burned" /\ strikes[i] = 0 /\ i \in Ids
      BY <1>1, <1>2, ChallengeDomain DEF Settled
<1>4. version' \in 0..MaxVersion /\ hits' \in 0..(LockLimit + 1)
      BY <1>1 DEF Strike, TypeOK, LoginAssumption
<1>5. CodesOK' /\ DOMAIN challenge' = DOMAIN challenge
      BY <1>2, CodesUntouched
<1>6. /\ strikes' \in [Ids -> Nat] /\ strikes'[i] \in {0, 1}
      /\ \A j \in Ids \ {i} : strikes'[j] = strikes[j]
  <2>1. CASE strikes' = [strikes EXCEPT ![i] = @ + 1]
        BY <1>1, <1>3, <2>1
  <2>2. CASE UNCHANGED strikes
        BY <1>1, <1>3, <2>2
  <2>. QED BY <2>1, <2>2 DEF Strike
<1>7. /\ call' \in [Calls -> CallType] /\ c \notin Charging'
      /\ \A d \in Charging' : d \in Charging /\ call'[d].burned = call[d].burned
  <2>1. c \notin Charging'
        BY <1>1, <1>2 DEF Charging, Done, Idle
  <2>. QED BY <1>2, <2>1, DoneIsQuiet
<1>8. TypeOK'
      BY <1>1, <1>2, <1>4, <1>5, <1>6, <1>7 DEF TypeOK, CodesOK, CallType
<1>9. Settled'
  <2>1. \A d \in Charging' : call'[d].burned \in Ids \ {i}
        BY <1>1, <1>2, <1>7, ChallengeDomain DEF Settled
  <2>2. \A d \in Charging' :
           /\ call'[d].burned \in DOMAIN challenge'
           /\ challenge'[call'[d].burned].fate = "burned" /\ strikes'[call'[d].burned] = 0
        BY <1>1, <1>2, <1>6, <1>7, <2>1 DEF Settled
  <2>3. \A d, e \in Charging' : call'[d].burned = call'[e].burned => d = e
        BY <1>1, <1>7 DEF Settled
  <2>. QED BY <1>1, <1>2, <2>2, <2>3 DEF Settled
<1>10. OneStrikePerBurn'
      BY <1>1, <1>2, <1>3, <1>6 DEF OneStrikePerBurn
<1>11. CodesSignInOnce'
      BY <1>1, <1>2 DEF CodesSignInOnce
<1>. QED BY <1>5, <1>8, <1>9, <1>10, <1>11 DEF LoginInv, CodesOK

------------------------------------------------------------------------------
(* The theorems *)

LEMMA InitLoginInv == ASSUME LoginAssumption, Init PROVE LoginInv
<1>1. /\ challenge = <<>> /\ Len(challenge) = 0 /\ DOMAIN challenge = {} /\ Live = {}
      /\ challenge \in Seq(Challenge)
      BY DEF Init, Live
<1>2. call \in [Calls -> CallType] /\ Charging = {}
      BY IdleTyped DEF Init, Charging, Idle
<1>3. TypeOK
      BY <1>1, <1>2 DEF Init, TypeOK, CallType, LoginAssumption
<1>4. Settled
      BY <1>2, CodeFacts DEF Init, Settled
<1>. QED BY <1>1, <1>3, <1>4, CodeFacts
     DEF Init, LoginInv, OneLiveChallenge, CodesSignInOnce, OneStrikePerBurn,
         EmergencyCodeNotRetired

LEMMA NextLoginInv == ASSUME LoginAssumption, LoginInv, [Next]_vars PROVE LoginInv'
<1>1. ASSUME NEW c \in Calls, Verify(c) PROVE LoginInv'
  <2>1. UNCHANGED <<version, hits, strikes>>
        BY <1>1 DEF Verify
  <2>2. PICK found \in SUBSET Live :
           \/ RefuseStale(c, found) \/ Redeem(c, found) \/ Recover(c, found)
           \/ CountAttempt(c, found) \/ NothingToVerify(c, found)
        BY <1>1 DEF Verify
  <2>. QED BY <2>1, <2>2, RefuseOrMissKeepsInv, RedeemKeepsInv, RecoverKeepsInv,
              CountAttemptKeepsInv
<1>2. ASSUME NEW c \in Calls,
             \/ BeginIssue(c) \/ BeginVerify(c) \/ Peek(c) \/ Stop(c) \/ Clear(c)
             \/ Issue(c) \/ Strike(c)
      PROVE  LoginInv'
      BY <1>2, BeginningKeepsInv, IssueKeepsInv, StrikeKeepsInv
<1>3. CASE Expire \/ WindowEnds \/ ChangeCredential
      BY <1>3, TimePasses
<1>4. CASE UNCHANGED vars
      BY <1>4 DEF vars, LoginInv, TypeOK, Settled, Charging, OneLiveChallenge, Live,
                  CodesSignInOnce, OneStrikePerBurn, EmergencyCodeNotRetired
<1>. QED BY <1>1, <1>2, <1>3, <1>4 DEF Next

LEMMA LoginInvHolds == ASSUME LoginAssumption PROVE Spec => []LoginInv
BY InitLoginInv, NextLoginInv, PTL DEF Spec

\* However sign-ins, resends and emergency codes overlap, at most the newest
\* code of an account is live.
THEOREM OneLiveChallengeHolds == ASSUME LoginAssumption PROVE Spec => []OneLiveChallenge
<1>1. LoginInv => OneLiveChallenge
      BY DEF LoginInv
<1>. QED BY <1>1, LoginInvHolds, PTL

\* Racing submissions of one code, mailed or printed, prove one sign-in.
THEOREM CodesSignInOnceHolds == ASSUME LoginAssumption PROVE Spec => []CodesSignInOnce
<1>1. LoginInv => CodesSignInOnce
      BY DEF LoginInv
<1>. QED BY <1>1, LoginInvHolds, PTL

\* An account is charged for a burned code once, and for no other code.
THEOREM OneStrikePerBurnHolds == ASSUME LoginAssumption PROVE Spec => []OneStrikePerBurn
<1>1. LoginInv => OneStrikePerBurn
      BY DEF LoginInv
<1>. QED BY <1>1, LoginInvHolds, PTL

\* No sign-in form replaces a code an administrator has read out.
THEOREM EmergencyCodeNotRetiredHolds ==
    ASSUME LoginAssumption PROVE Spec => []EmergencyCodeNotRetired
<1>1. LoginInv => EmergencyCodeNotRetired
      BY DEF LoginInv
<1>. QED BY <1>1, LoginInvHolds, PTL
\* Codes, calls and counters stay in their types.
THEOREM LoginTypeCorrect == ASSUME LoginAssumption PROVE Spec => []TypeOK
<1>1. LoginInv => TypeOK
      BY DEF LoginInv
<1>. QED BY <1>1, LoginInvHolds, PTL
=============================================================================
