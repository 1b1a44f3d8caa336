------------------------------- MODULE Accounts -------------------------------
(***************************************************************************)
(* One account: its password, lockout, second factor, recovery code,        *)
(* sessions and devices (ferroma-auth/service.rs over the users, sessions,  *)
(* devices and mfa repositories), and the requests that work on it at the   *)
(* same time: those of the web, JMAP and official clients, IMAP LOGIN       *)
(* (ferroma-imap/auth.rs) and SMTP AUTH (authenticate_client).              *)
(*                                                                         *)
(* Each statement of a handler is a step of its own; between two of them    *)
(* other handlers run, and the handler's future may be dropped. A password, *)
(* a TOTP secret and a set of recovery codes are named by the order in      *)
(* which they were made; a set holds one code.                              *)
(***************************************************************************)
EXTENDS Naturals, Sequences, FiniteSets

CONSTANTS
  Devices, NoDevice,   \* installations, and a login that registers none
  Procs,               \* concurrent requests
  MaxFailures,         \* limits.max_failed_logins
  MaxRequests,         \* bound: requests ever begun
  MaxAbandoned         \* bound: handlers dropped half way

ASSUME AccountAssumption == /\ NoDevice \notin Devices
                            /\ MaxFailures \in Nat \ {0}
                            /\ {MaxRequests, MaxAbandoned} \subseteq Nat
                            /\ IsFiniteSet(Procs)

VARIABLES
  password,   \* users.password_hash: which password it accepts
  weak,       \* ... and whether its cost parameters are out of date
  enabled,    \* users.enabled
  failed,     \* users.failed_logins
  locked,     \* users.locked_until lies in the future
  totp,       \* user_totp: which secret (0: no row), and whether it is confirmed
  recovery,   \* totp_recovery_codes: which set (0: none), and whether it is unused
  session,    \* sessions, in the order of their ids
  device,     \* devices.revoked_at: "unknown", "active" or "revoked"
  req,        \* the requests in progress
  made,       \* how many passwords, secrets and sets were made
  counts,     \* requests begun and abandoned
  (* History. *)
  proven,     \* secrets a code has been shown for
  accepted,   \* how often each recovery code let someone in
  guesses,    \* wrong credentials counted and answered since the last success or lock-out
  unheard,    \* ... and those answered by a check that counts nothing
  cuts        \* account-wide revocations that finished

users == <<password, weak, enabled, failed, locked, guesses, unheard>>
factors == <<totp, recovery, proven, accepted>>
vars == <<users, factors, session, device, req, made, counts, cuts>>

Live(i) == session[i].live
Sessions == DOMAIN session
Idle == [at |-> "idle"]

(* An account with one open session; its second factor is off or confirmed. *)
Init ==
  /\ password = 1
  /\ weak \in BOOLEAN
  /\ enabled = TRUE
  /\ failed = 0
  /\ locked = FALSE
  /\ \E on \in BOOLEAN :
       /\ totp = IF on THEN [secret |-> 1, confirmed |-> TRUE] ELSE [secret |-> 0, confirmed |-> FALSE]
       /\ recovery = IF on THEN [set |-> 1, unused |-> TRUE] ELSE [set |-> 0, unused |-> FALSE]
       /\ made = [password |-> 1, secret |-> IF on THEN 1 ELSE 0, set |-> IF on THEN 1 ELSE 0]
       /\ proven = IF on THEN {1} ELSE {}
  /\ \E d \in Devices :
       /\ session = <<[live |-> TRUE, dev |-> d, login |-> 1, until |-> 0]>>
       /\ device = [e \in Devices |-> IF e = d THEN "active" ELSE "unknown"]
  /\ req = [p \in Procs |-> Idle]
  /\ counts = [begun |-> 0, abandoned |-> 0]
  /\ accepted = [c \in 1..(MaxRequests + 1) |-> 0]
  /\ guesses = 0
  /\ unheard = 0
  /\ cuts = 0
-----------------------------------------------------------------------------
(* Requests.                                                                *)

Begin(p, r) ==
  /\ req[p] = Idle
  /\ counts.begun < MaxRequests
  /\ counts' = [counts EXCEPT !.begun = @ + 1]
  /\ req' = [req EXCEPT ![p] = r]

At(p, place) == req[p].at = place
Goto(p, place) == req' = [req EXCEPT ![p].at = place]
End(p) == req' = [req EXCEPT ![p] = Idle]

(* The session whose row p's open rotation has locked, 0 for none. *)
LockedBy(p) == IF At(p, "rotating") THEN req[p].sess ELSE 0
Free(i, p) == \A q \in Procs \ {p} : LockedBy(q) # i

(* Account-wide revocations under way: the rows they will revoke are chosen. *)
Cutting == {p \in Procs : At(p, "revoking") /\ req[p].scope = "account"}
NewSession(d, login) ==
  [live |-> TRUE, dev |-> d, login |-> login, until |-> cuts + Cardinality(Cutting)]

(* AuthUser: an access token of a session that is live, of an enabled account. *)
Authenticated == enabled /\ \E i \in Sessions : Live(i)
-----------------------------------------------------------------------------
(* Login.                                                                   *)

(* The account may be tried at all: enabled, and not locked.                *)
LoginAllowed_NoLock == enabled
LoginAllowed == enabled /\ ~locked

(* What a caller may present: passwords and factors that once existed, or   *)
(* guesses (0); for a second factor also nothing.                           *)
Factors == {[kind |-> "none", n |-> 0]}
           \cup [kind : {"totp"}, n : {0} \cup 1..made.secret]
           \cup [kind : {"code"}, n : 1..made.set]

(* Read the row, verify the password against the hash that was read.        *)
Login(p) ==
  /\ LoginAllowed
  /\ \E pw \in 0..made.password, f \in Factors, d \in Devices \cup {NoDevice} :
       /\ (pw = 0 => f.kind = "none" /\ d = NoDevice)
       /\ Begin(p, [at |-> IF pw # password THEN "wrong" ELSE IF weak THEN "rehash" ELSE "factor",
                    pw |-> pw, factor |-> f, dev |-> d])
  /\ UNCHANGED <<users, factors, session, device, made, cuts>>

(* An application password in its place needs no second factor; a wrong one *)
(* is a guess like any other.                                               *)
LoginByApp(p) ==
  /\ LoginAllowed
  /\ \E d \in Devices \cup {NoDevice} :
       Begin(p, [at |-> "success", pw |-> 0, factor |-> [kind |-> "none", n |-> 0], dev |-> d])
  /\ UNCHANGED <<users, factors, session, device, made, cuts>>

(* record_login_failure: one UPDATE counts and, at the limit, locks.        *)
LoginFails(p) ==
  /\ At(p, "wrong") \/ At(p, "counting")
  /\ failed' = IF failed < MaxFailures THEN failed + 1 ELSE failed
  /\ locked' = (locked \/ failed + 1 >= MaxFailures)
  /\ guesses' = guesses + 1
  /\ End(p)
  /\ UNCHANGED <<password, weak, enabled, unheard, factors, session, device, made, counts, cuts>>

(* A hash with old cost parameters is replaced by a fresh hash of the       *)
(* password that was presented.                                             *)
Rehash(p) ==
  /\ At(p, "rehash")
  /\ password' = req[p].pw
  /\ weak' = FALSE
  /\ Goto(p, "factor")
  /\ UNCHANGED <<enabled, failed, locked, guesses, unheard, factors, session, device, made, counts, cuts>>

(* totp_enabled; without a factor to check the answer is totp_required.     *)
AskFactor(p) ==
  /\ At(p, "factor")
  /\ IF ~totp.confirmed THEN Goto(p, "success")
     ELSE IF req[p].factor.kind = "none" THEN End(p) ELSE Goto(p, "find")
  /\ UNCHANGED <<users, factors, session, device, made, counts, cuts>>

(* verify_second_factor reads the enrollment again; a code that is not      *)
(* TOTP's is tried as a recovery code.                                      *)
FindFactor(p) ==
  /\ At(p, "find")
  /\ LET f == req[p].factor IN
       Goto(p, IF totp.secret = 0 THEN "wrong"
               ELSE IF f = [kind |-> "totp", n |-> totp.secret] THEN "success" ELSE "consume")
  /\ UNCHANGED <<users, factors, session, device, made, counts, cuts>>

(* consume: one conditional UPDATE.                                         *)
Spendable_Again(f) == f = [kind |-> "code", n |-> recovery.set]
Spendable(f) == f = [kind |-> "code", n |-> recovery.set] /\ recovery.unused
Consume(p) ==
  /\ At(p, "consume")
  /\ IF Spendable(req[p].factor)
     THEN /\ recovery' = [recovery EXCEPT !.unused = FALSE]
          /\ accepted' = [accepted EXCEPT ![recovery.set] = @ + 1]
          /\ Goto(p, "success")
     ELSE Goto(p, "wrong") /\ UNCHANGED <<recovery, accepted>>
  /\ UNCHANGED <<users, totp, proven, session, device, made, counts, cuts>>

(* record_login_success *)
LoginSucceeds(p) ==
  /\ At(p, "success")
  /\ failed' = 0
  /\ locked' = FALSE
  /\ guesses' = 0
  /\ unheard' = 0
  /\ Goto(p, IF req[p].dev = NoDevice THEN "open" ELSE "device")
  /\ UNCHANGED <<password, weak, enabled, factors, session, device, made, counts, cuts>>

(* register_device: a fresh login makes the installation an active one.     *)
RegisterDevice(p) ==
  /\ At(p, "device")
  /\ device' = [device EXCEPT ![req[p].dev] = "active"]
  /\ Goto(p, "open")
  /\ UNCHANGED <<users, factors, session, made, counts, cuts>>

OpenSession(p) ==
  /\ At(p, "open")
  /\ session' = Append(session, NewSession(req[p].dev, Len(session) + 1))
  /\ End(p)
  /\ UNCHANGED <<users, factors, device, made, counts, cuts>>

(* locked_until passes; the failures stay counted.                          *)
Unlock ==
  /\ locked
  /\ locked' = FALSE
  /\ guesses' = 0
  /\ unheard' = 0
  /\ UNCHANGED <<password, weak, enabled, failed, factors, session, device, req, made, counts, cuts>>
-----------------------------------------------------------------------------
(* The mail protocols, which open no session.                               *)

(* IMAP LOGIN: the same check of the row, then a wrong password, the right  *)
(* one, or an application password.                                         *)
ImapLogin(p) ==
  /\ LoginAllowed
  /\ \E place \in {"counting", "gate", "noting"} : Begin(p, [at |-> place])
  /\ UNCHANGED <<users, factors, session, device, made, cuts>>

(* The right password is refused, and nothing counted, once a factor is on. *)
ImapGate(p) ==
  /\ At(p, "gate")
  /\ IF totp.confirmed THEN End(p) ELSE Goto(p, "noting")
  /\ UNCHANGED <<users, factors, session, device, made, counts, cuts>>

ImapSucceeds(p) ==
  /\ At(p, "noting")
  /\ failed' = 0
  /\ locked' = FALSE
  /\ guesses' = 0
  /\ unheard' = 0
  /\ End(p)
  /\ UNCHANGED <<password, weak, enabled, factors, session, device, made, counts, cuts>>

(* IMAP answers what it found even if the UPDATE that notes it fails.       *)
ImapForgets(p) ==
  /\ At(p, "counting") \/ At(p, "noting")
  /\ unheard' = IF At(p, "counting") THEN unheard + 1 ELSE unheard
  /\ End(p)
  /\ UNCHANGED <<password, weak, enabled, failed, locked, guesses, factors, session, device,
                 made, counts, cuts>>

(* Wrong credentials that no statement counts: at SMTP AUTH, which looks at *)
(* nothing but enabled; an application password at IMAP; the current        *)
(* password, or a code, that a signed-in user is asked for. SMTP AUTH       *)
(* changes nothing when it lets one in either.                              *)
Miss(p) ==
  /\ Begin(p, Idle)
  /\ unheard' = unheard + 1
  /\ UNCHANGED <<password, weak, enabled, failed, locked, guesses, factors, session, device, made, cuts>>
SmtpAuthMiss(p) == enabled /\ Miss(p)
ImapAppMiss(p) == LoginAllowed /\ Miss(p)
OwnerMiss(p) == Authenticated /\ Miss(p)
-----------------------------------------------------------------------------
(* Refresh.                                                                 *)

(* A token that was rotated away signs everyone out.                        *)
Refresh(p) ==
  /\ \E i \in Sessions :
       Begin(p, [at |-> IF Live(i) THEN "user" ELSE "revoke", sess |-> i, scope |-> "account"])
  /\ UNCHANGED <<users, factors, session, device, made, cuts>>

RefreshUser(p) ==
  /\ At(p, "user")
  /\ IF enabled THEN Goto(p, "claim") ELSE End(p)
  /\ UNCHANGED <<users, factors, session, device, made, counts, cuts>>

(* rotate's conditional UPDATE waits for the row's lock, then takes it, ... *)
Rotatable_Any(i) == TRUE
Rotatable(i) == Live(i)
Claim(p) ==
  /\ At(p, "claim")
  /\ Free(req[p].sess, p)
  /\ IF Rotatable(req[p].sess) THEN Goto(p, "rotating") ELSE End(p)
  /\ UNCHANGED <<users, factors, session, device, made, counts, cuts>>

(* ... and its transaction commits the revocation with the replacement.     *)
Rotate(p) ==
  /\ At(p, "rotating")
  /\ LET i == req[p].sess IN
       session' = Append([session EXCEPT ![i].live = FALSE],
                         NewSession(session[i].dev, session[i].login))
  /\ End(p)
  /\ UNCHANGED <<users, factors, device, made, counts, cuts>>
-----------------------------------------------------------------------------
(* Revocation.                                                              *)

Logout(p) ==
  /\ enabled
  /\ \E i \in Sessions : Live(i) /\ Begin(p, [at |-> "logout", sess |-> i])
  /\ UNCHANGED <<users, factors, session, device, made, cuts>>
EndSession(p) ==
  /\ At(p, "logout")
  /\ Free(req[p].sess, p)
  /\ session' = [session EXCEPT ![req[p].sess].live = FALSE]
  /\ End(p)
  /\ UNCHANGED <<users, factors, device, made, counts, cuts>>

(* change_password by its owner, and a reset or a disabling by an           *)
(* administrator; the owner's current password is right.                    *)
ChangePassword(p) ==
  /\ Authenticated
  /\ Begin(p, [at |-> "password", scope |-> "account"])
  /\ UNCHANGED <<users, factors, session, device, made, cuts>>
ResetPassword(p) ==
  /\ Begin(p, [at |-> "password", scope |-> "account"])
  /\ UNCHANGED <<users, factors, session, device, made, cuts>>
Disable(p) ==
  /\ enabled
  /\ Begin(p, [at |-> "disable", scope |-> "account"])
  /\ UNCHANGED <<users, factors, session, device, made, cuts>>
Unlink(p) ==
  /\ Authenticated
  /\ \E d \in Devices :
       device[d] # "unknown" /\ Begin(p, [at |-> "unlink", scope |-> "device", dev |-> d])
  /\ UNCHANGED <<users, factors, session, device, made, cuts>>

WritePassword(p) ==
  /\ At(p, "password")
  /\ password' = made.password + 1
  /\ made' = [made EXCEPT !.password = @ + 1]
  /\ weak' = FALSE
  /\ Goto(p, "revoke")
  /\ UNCHANGED <<enabled, failed, locked, guesses, unheard, factors, session, device, counts, cuts>>
WriteDisabled(p) ==
  /\ At(p, "disable")
  /\ enabled' = FALSE
  /\ Goto(p, "revoke")
  /\ UNCHANGED <<password, weak, failed, locked, guesses, unheard, factors, session, device, made, counts, cuts>>
WriteUnlinked(p) ==
  /\ At(p, "unlink")
  /\ device' = [device EXCEPT ![req[p].dev] = "revoked"]
  /\ Goto(p, "revoke")
  /\ UNCHANGED <<users, factors, session, made, counts, cuts>>
Enable ==
  /\ ~enabled
  /\ enabled' = TRUE
  /\ UNCHANGED <<password, weak, failed, locked, guesses, unheard, factors, session, device, req, made, counts, cuts>>

(* One UPDATE over many rows sees the rows committed when it starts, ...    *)
StartRevoking(p) ==
  /\ At(p, "revoke")
  /\ req' = [req EXCEPT ![p] =
       [at |-> "revoking", scope |-> @.scope,
        rows |-> {i \in Sessions : Live(i) /\ (@.scope = "account" \/ session[i].dev = @.dev)}]]
  /\ UNCHANGED <<users, factors, session, device, made, counts, cuts>>

(* ... waits for each that a rotation has locked, and revokes those that    *)
(* are still live.                                                          *)
FinishRevoking_SkipLocked(p) ==
  /\ At(p, "revoking")
  /\ session' = [i \in Sessions |->
       [session[i] EXCEPT !.live = @ /\ ~(i \in req[p].rows /\ Free(i, p))]]
  /\ cuts' = IF req[p].scope = "account" THEN cuts + 1 ELSE cuts
  /\ End(p)
  /\ UNCHANGED <<users, factors, device, made, counts>>
FinishRevoking(p) ==
  /\ At(p, "revoking")
  /\ \A i \in req[p].rows : Free(i, p)
  /\ session' = [i \in Sessions |-> [session[i] EXCEPT !.live = @ /\ i \notin req[p].rows]]
  /\ cuts' = IF req[p].scope = "account" THEN cuts + 1 ELSE cuts
  /\ End(p)
  /\ UNCHANGED <<users, factors, device, made, counts>>
-----------------------------------------------------------------------------
(* The second factor.                                                       *)

(* totp_enroll refuses while the factor is on; begin_totp_enrollment writes *)
(* a fresh secret.                                                          *)
Enroll(p) ==
  /\ Authenticated
  /\ ~totp.confirmed
  /\ Begin(p, [at |-> "enroll"])
  /\ UNCHANGED <<users, factors, session, device, made, cuts>>
WriteSecret(p) ==
  /\ At(p, "enroll")
  /\ made' = [made EXCEPT !.secret = @ + 1]
  /\ totp' = [secret |-> made.secret + 1, confirmed |-> FALSE]
  /\ End(p)
  /\ UNCHANGED <<users, recovery, proven, accepted, session, device, counts, cuts>>

(* confirm_totp_enrollment, with a code of the secret that it reads.        *)
Confirm(p) ==
  /\ Authenticated
  /\ totp.secret # 0 /\ ~totp.confirmed
  /\ proven' = proven \cup {totp.secret}
  /\ Begin(p, [at |-> "confirm"])
  /\ UNCHANGED <<users, totp, recovery, accepted, session, device, made, cuts>>
WriteConfirmed_Blind(p) ==
  /\ At(p, "confirm")
  /\ totp' = [totp EXCEPT !.confirmed = TRUE]
  /\ Goto(p, "codes")
  /\ UNCHANGED <<users, recovery, proven, accepted, session, device, made, counts, cuts>>
WriteConfirmed(p) ==
  /\ At(p, "confirm")
  /\ IF totp.secret # 0 /\ ~totp.confirmed
     THEN totp' = [totp EXCEPT !.confirmed = TRUE] /\ Goto(p, "codes")
     ELSE totp' = totp /\ End(p)
  /\ UNCHANGED <<users, recovery, proven, accepted, session, device, made, counts, cuts>>
ReplaceCodes(p) ==
  /\ At(p, "codes")
  /\ made' = [made EXCEPT !.set = @ + 1]
  /\ recovery' = [set |-> made.set + 1, unused |-> TRUE]
  /\ End(p)
  /\ UNCHANGED <<users, totp, proven, accepted, session, device, counts, cuts>>

(* disable_totp: one transaction for the codes and the secret.              *)
TurnOff(p) ==
  /\ Authenticated
  /\ Begin(p, [at |-> "off"])
  /\ UNCHANGED <<users, factors, session, device, made, cuts>>
DeleteFactor(p) ==
  /\ At(p, "off")
  /\ totp' = [secret |-> 0, confirmed |-> FALSE]
  /\ recovery' = [set |-> 0, unused |-> FALSE]
  /\ End(p)
  /\ UNCHANGED <<users, proven, accepted, session, device, made, counts, cuts>>
-----------------------------------------------------------------------------
(* The client goes away: the future is dropped where it is, and an open     *)
(* transaction rolls back.                                                  *)
Abandon(p) ==
  /\ req[p] # Idle
  /\ counts.abandoned < MaxAbandoned
  /\ counts' = [counts EXCEPT !.abandoned = @ + 1]
  /\ End(p)
  /\ UNCHANGED <<users, factors, session, device, made, cuts>>

Next ==
  \/ \E p \in Procs :
       \/ LoginByApp(p) \/ ImapLogin(p) \/ ImapGate(p) \/ ImapSucceeds(p) \/ ImapForgets(p)
       \/ SmtpAuthMiss(p) \/ ImapAppMiss(p) \/ OwnerMiss(p)
       \/ Login(p) \/ LoginFails(p) \/ Rehash(p) \/ AskFactor(p) \/ FindFactor(p) \/ Consume(p)
       \/ LoginSucceeds(p) \/ RegisterDevice(p) \/ OpenSession(p)
       \/ Refresh(p) \/ RefreshUser(p) \/ Claim(p) \/ Rotate(p) \/ Logout(p) \/ EndSession(p)
       \/ ChangePassword(p) \/ ResetPassword(p) \/ Disable(p) \/ Unlink(p)
       \/ WritePassword(p) \/ WriteDisabled(p) \/ WriteUnlinked(p)
       \/ StartRevoking(p) \/ FinishRevoking(p)
       \/ Enroll(p) \/ WriteSecret(p) \/ Confirm(p) \/ WriteConfirmed(p) \/ ReplaceCodes(p)
       \/ TurnOff(p) \/ DeleteFactor(p) \/ Abandon(p)
  \/ Unlock \/ Enable

Spec == Init /\ [][Next]_vars
-----------------------------------------------------------------------------
(* Every variable holds a value of its kind. *)
TypeOK ==
  /\ password \in 1..made.password /\ {weak, enabled, locked} \subseteq BOOLEAN
  /\ failed \in 0..MaxFailures
  /\ totp \in [secret : 0..made.secret, confirmed : BOOLEAN] /\ (totp.confirmed => totp.secret # 0)
  /\ recovery \in [set : 0..made.set, unused : BOOLEAN]
  /\ session \in Seq([live : BOOLEAN, dev : Devices \cup {NoDevice}, login : Nat, until : Nat])
  /\ \A i \in Sessions : session[i].login \in 1..Len(session)
  /\ device \in [Devices -> {"unknown", "active", "revoked"}]
  /\ DOMAIN req = Procs
  /\ made \in [password : Nat, secret : Nat, set : Nat]
  /\ counts \in [begun : 0..MaxRequests, abandoned : 0..MaxAbandoned]

(* Rotation leaves one heir: however often a refresh token is presented and *)
(* by how many requests at once, a login has at most one live session.      *)
OneLivePerLogin ==
  \A i, j \in Sessions : Live(i) /\ Live(j) /\ session[i].login = session[j].login => i = j

(* An account-wide revocation (password change, reset, disabling, reuse)    *)
(* ends every session that was committed when its statement began, whatever *)
(* rotations and logins run meanwhile: a live session was opened after the  *)
(* last one, or while it ran.                                               *)
CutOff == \A i \in Sessions : Live(i) => cuts <= session[i].until

(* Wherever a wrong credential is counted (a password or factor of the web, *)
(* JMAP and client logins, an account password at IMAP), no more of them    *)
(* are answered between two lock-outs than the limit and the requests that  *)
(* were past the check already, through whichever of these doors they came. *)
(* It is no bound on what the account answers: unheard has none.            *)
GuessesBounded == guesses <= MaxFailures + Cardinality(Procs) - 1

(* A recovery code lets one login in, also when two present it at once.     *)
RecoverySpentOnce == \A c \in DOMAIN accepted : accepted[c] <= 1

(* What is to be used up is used up once, by however many requests at once: *)
(* the wrong guesses before a lock-out and the recovery codes.              *)
SpentOnce == TypeOK /\ GuessesBounded /\ RecoverySpentOnce

(* "An enrollment is not enforced until a code proves the authenticator     *)
(* holds the secret" (routes/mfa.rs).                                       *)
ConfirmedIsProven == totp.confirmed => totp.secret \in proven

(* A login never changes which password the account accepts: the rehash     *)
(* only upgrades the parameters (service.rs, "Upgrade a stale hash").       *)
LoginKeepsPassword == [][\A p \in Procs : Rehash(p) => password' = password]_vars

(* docs/security.md, 5.2 and docs/smtp.md, "AUTH": wrong passwords lock the *)
(* account, for SMTP AUTH too. It neither counts one nor looks at the lock. *)
LockHoldsEverywhere == guesses + unheard <= MaxFailures + Cardinality(Procs) - 1
=============================================================================
