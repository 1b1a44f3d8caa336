---------------------------- MODULE AccountsProofs ----------------------------
(***************************************************************************)
(* What one account promises however many requests work on it at the same   *)
(* time, for any number of them, of devices and of failures before a lock:  *)
(* a login keeps one live session, an account-wide revocation leaves none   *)
(* that was there when it began, and guesses and recovery codes are used up *)
(* once.                                                                    *)
(***************************************************************************)
EXTENDS Accounts, SequenceTheorems, FiniteSetTheorems, TLAPS

Guessing == {"wrong", "rehash", "factor", "find", "consume"}
LoginPlaces == Guessing \cup {"success", "device", "open"}

LoginReq == [at : LoginPlaces, pw : Nat, dev : Devices \cup {NoDevice},
             factor : [kind : {"none", "totp", "code"}, n : Nat]]
RefreshReq == [at : {"user", "claim", "rotating", "revoke"}, sess : Nat, scope : {"account"}]
LogoutReq == [at : {"logout"}, sess : Nat]
AccountReq == [at : {"password", "disable", "revoke"}, scope : {"account"}]
UnlinkReq == [at : {"unlink", "revoke"}, scope : {"device"}, dev : Devices]
RevokingReq == [at : {"revoking"}, scope : {"account", "device"}, rows : SUBSET Nat]
FactorReq == [at : {"enroll", "confirm", "codes", "off"}]
ImapReq == [at : {"counting", "gate", "noting"}]
Requests == {Idle} \cup LoginReq \cup RefreshReq \cup LogoutReq \cup AccountReq \cup UnlinkReq
            \cup RevokingReq \cup FactorReq \cup ImapReq

(* What a request holds is there: the password it verified, its device, the *)
(* session it presented, the rows it will revoke.                           *)
Fit(r, passwords, sessions) ==
  /\ r.at = "rehash" => r.pw \in 1 .. passwords
  /\ r.at = "device" => r.dev \in Devices
  /\ r.at \in {"user", "claim", "rotating", "logout"} => r.sess \in sessions
  /\ r.at = "revoking" => r.rows \subseteq sessions

ReqOK == req \in [Procs -> Requests] /\ \A p \in Procs : Fit(req[p], made.password, Sessions)

SessionRow == [live : BOOLEAN, dev : Devices \cup {NoDevice}, login : Nat, until : Nat]
SessionsOK == session \in Seq(SessionRow) /\ \A i \in Sessions : session[i].login \in 1 .. Len(session)

UsersOK == /\ password \in 1 .. made.password /\ weak \in BOOLEAN /\ enabled \in BOOLEAN
           /\ locked \in BOOLEAN /\ failed \in 0 .. MaxFailures /\ guesses \in Nat /\ unheard \in Nat
FactorsOK ==
  /\ totp \in [secret : 0 .. made.secret, confirmed : BOOLEAN]
  /\ totp.confirmed => totp.secret # 0
  /\ recovery \in [set : 0 .. made.set, unused : BOOLEAN]
  /\ accepted \in [1 .. (MaxRequests + 1) -> Nat]
RestOK ==
  /\ device \in [Devices -> {"unknown", "active", "revoked"}]
  /\ made \in [password : Nat, secret : Nat, set : Nat]
  /\ counts \in [begun : 0 .. MaxRequests, abandoned : 0 .. MaxAbandoned]
  /\ cuts \in Nat

Types == UsersOK /\ FactorsOK /\ SessionsOK /\ RestOK /\ ReqOK
-----------------------------------------------------------------------------
(* Types.                                                                   *)

LEMMA TypesGiveTypeOK == Types => TypeOK
BY DEF Types, UsersOK, FactorsOK, SessionsOK, SessionRow, RestOK, ReqOK, TypeOK

(* Which kind of request is where.                                          *)
LEMMA ReqKinds ==
  ASSUME ReqOK, NEW p \in Procs
  PROVE  /\ req[p].at \in LoginPlaces => req[p] \in LoginReq
         /\ req[p].at \in {"user", "claim", "rotating"} => req[p] \in RefreshReq
         /\ req[p].at = "logout" => req[p] \in LogoutReq
         /\ req[p].at \in {"password", "disable"} => req[p] \in AccountReq
         /\ req[p].at = "unlink" => req[p] \in UnlinkReq
         /\ req[p].at = "revoking" => req[p] \in RevokingReq
         /\ req[p].at = "revoke" => req[p] \in RefreshReq \cup AccountReq \cup UnlinkReq
         /\ req[p].at \in {"enroll", "confirm", "codes", "off"} => req[p] \in FactorReq
         /\ req[p].at \in {"counting", "gate", "noting"} => req[p] \in ImapReq
         /\ req[p] \in Requests
<1>1. req[p] \in Requests
  BY DEF ReqOK
<1> QED
  BY <1>1 DEF Requests, Idle, LoginPlaces, Guessing, LoginReq, RefreshReq, LogoutReq, AccountReq,
              UnlinkReq, RevokingReq, FactorReq, ImapReq

(* One request changes; what the others hold stays there.                   *)
LEMMA ReqStep ==
  ASSUME Types, NEW p \in Procs, NEW r \in Requests, req' = [req EXCEPT ![p] = r],
         Sessions \subseteq Sessions',
         made'.password \in Nat, made.password <= made'.password,
         Fit(r, made'.password, Sessions')
  PROVE  ReqOK'
<1>1. req' \in [Procs -> Requests]
  BY DEF Types, ReqOK
<1>2. 1 .. made.password \subseteq 1 .. made'.password
  BY DEF Types, RestOK
<1>3. ASSUME NEW q \in Procs, q # p PROVE Fit(req'[q], made'.password, Sessions')
  <2>1. req'[q] = req[q] /\ Fit(req[q], made.password, Sessions)
    BY <1>3 DEF Types, ReqOK
  <2> QED
    BY <2>1, <1>2 DEF Fit
<1>4. req'[p] = r
  BY DEF Types, ReqOK
<1> QED
  BY <1>1, <1>3, <1>4 DEF ReqOK

LEMMA EndTypes ==
  ASSUME Types, NEW p \in Procs, End(p), Sessions \subseteq Sessions',
         made'.password \in Nat, made.password <= made'.password
  PROVE  ReqOK'
<1>1. Idle \in Requests /\ req' = [req EXCEPT ![p] = Idle]
  BY DEF Requests, End
<1>2. Fit(Idle, made'.password, Sessions')
  BY DEF Fit, Idle
<1> QED
  BY <1>1, <1>2, ReqStep

LEMMA GotoIs ==
  ASSUME Types, NEW p \in Procs, NEW place, Goto(p, place)
  PROVE  req' = [req EXCEPT ![p] = [req[p] EXCEPT !.at = place]]
BY DEF Types, ReqOK, Goto

(* A login goes on to its next statement. *)
LEMMA LoginGoes ==
  ASSUME Types, NEW p \in Procs, req[p].at \in LoginPlaces, NEW place \in LoginPlaces, Goto(p, place),
         place = "rehash" => req[p].pw \in 1 .. made.password,
         place = "device" => req[p].dev \in Devices,
         session' = session, made' = made
  PROVE  /\ ReqOK' /\ req'[p].at = place
         /\ \A q \in Procs : q # p => req'[q] = req[q]
<1> DEFINE r == [req[p] EXCEPT !.at = place]
<1>1. req[p] \in LoginReq
  BY ReqKinds DEF Types
<1>2. r \in LoginReq /\ r.at = place /\ r.pw = req[p].pw /\ r.dev = req[p].dev
  BY <1>1 DEF LoginReq
<1>3. req' = [req EXCEPT ![p] = r] /\ r \in Requests
  BY <1>2, GotoIs DEF Requests
<1>4. req'[p] = r /\ \A q \in Procs : q # p => req'[q] = req[q]
  BY <1>3 DEF Types, ReqOK
<1>5. Fit(r, made'.password, Sessions')
  BY <1>2 DEF Fit, LoginPlaces, Guessing
<1>6. Sessions \subseteq Sessions' /\ made'.password \in Nat /\ made.password <= made'.password
  BY DEF Sessions, Types, RestOK
<1> HIDE DEF r
<1> QED
  BY <1>2, <1>3, <1>4, <1>5, <1>6, ReqStep

LEMMA BeginTypes ==
  ASSUME Types, NEW p \in Procs, NEW r \in Requests, Begin(p, r), session' = session, made' = made,
         r.at = "rehash" => r.pw \in 1 .. made.password, r.at # "device",
         r.at \in {"user", "claim", "rotating", "logout"} => r.sess \in Sessions,
         r.at # "revoking"
  PROVE  /\ ReqOK' /\ req'[p] = r
         /\ \A q \in Procs : q # p => req'[q] = req[q]
         /\ counts' \in [begun : 0 .. MaxRequests, abandoned : 0 .. MaxAbandoned]
<1>1. req' = [req EXCEPT ![p] = r]
  BY DEF Begin
<1>2. req'[p] = r /\ \A q \in Procs : q # p => req'[q] = req[q]
  BY <1>1 DEF Types, ReqOK
<1>3. /\ Fit(r, made'.password, Sessions') /\ Sessions \subseteq Sessions'
      /\ made'.password \in Nat /\ made.password <= made'.password
  BY DEF Fit, Sessions, Types, RestOK
<1>4. counts' \in [begun : 0 .. MaxRequests, abandoned : 0 .. MaxAbandoned]
  BY AccountAssumption DEF Begin, Types, RestOK, AccountAssumption
<1> QED
  BY <1>1, <1>2, <1>3, <1>4, ReqStep

(* One more in a table of counts. *)
LEMMA CountUp ==
  ASSUME NEW S, NEW f \in [S -> Nat], NEW x
  PROVE  [f EXCEPT ![x] = @ + 1] \in [S -> Nat]
<1>1. ASSUME NEW i \in S PROVE (IF i = x THEN f[x] + 1 ELSE f[i]) \in Nat
  BY <1>1
<1>2. [f EXCEPT ![x] = @ + 1] = [i \in S |-> IF i = x THEN f[x] + 1 ELSE f[i]]
  BY Zenon
<1> QED
  BY <1>1, <1>2, Zenon

LEMMA LoginTypes ==
  ASSUME Types, NEW p \in Procs,
         Login(p) \/ LoginFails(p) \/ Rehash(p) \/ AskFactor(p) \/ FindFactor(p) \/ Consume(p)
         \/ LoginSucceeds(p) \/ RegisterDevice(p)
  PROVE  Types'
<1> USE AccountAssumption DEF AccountAssumption, vars, users, factors
<1>1. CASE Login(p)
  <2>1. PICK pw \in 0 .. made.password, f \in Factors, d \in Devices \cup {NoDevice} :
          Begin(p, [at |-> IF pw # password THEN "wrong" ELSE IF weak THEN "rehash" ELSE "factor",
                    pw |-> pw, factor |-> f, dev |-> d])
    BY <1>1 DEF Login
  <2> DEFINE place == IF pw # password THEN "wrong" ELSE IF weak THEN "rehash" ELSE "factor"
             r == [at |-> place, pw |-> pw, factor |-> f, dev |-> d]
  <2>2. f \in [kind : {"none", "totp", "code"}, n : Nat] /\ pw \in Nat
    BY DEF Factors, Types, RestOK
  <2>3. place \in {"wrong", "rehash", "factor"} /\ (place = "rehash" => pw = password)
    OBVIOUS
  <2>4. r \in LoginReq
    BY <2>2, <2>3 DEF LoginReq, LoginPlaces, Guessing
  <2>5. r \in Requests
    BY <2>4 DEF Requests
  <2>6. r.at = place /\ r.pw = pw
    OBVIOUS
  <2>7. Begin(p, r) /\ session' = session /\ made' = made /\ UNCHANGED <<users, factors, device, cuts>>
    BY <1>1, <2>1 DEF Login
  <2>8. /\ r.at = "rehash" => r.pw \in 1 .. made.password
        /\ r.at \notin {"device", "revoking", "user", "claim", "rotating", "logout"}
    BY <2>3, <2>6 DEF Types, UsersOK
  <2> HIDE DEF r, place
  <2>9. ReqOK' /\ counts' \in [begun : 0 .. MaxRequests, abandoned : 0 .. MaxAbandoned]
    BY <2>5, <2>7, <2>8, BeginTypes
  <2> QED
    BY <2>7, <2>9 DEF Types, UsersOK, FactorsOK, SessionsOK, Sessions, RestOK
<1>2. CASE LoginFails(p)
  <2>1. ReqOK'
    BY <1>2, EndTypes DEF LoginFails, Sessions, Types, RestOK
  <2>2. UsersOK'
    BY <1>2 DEF LoginFails, Types, UsersOK
  <2> QED
    BY <1>2, <2>1, <2>2 DEF LoginFails, Types, FactorsOK, SessionsOK, Sessions, RestOK
<1>3. CASE Rehash(p)
  <2>1. req[p].at = "rehash" /\ Goto(p, "factor") /\ session' = session /\ made' = made
    BY <1>3 DEF Rehash, At
  <2>2. ReqOK'
    BY <2>1, LoginGoes DEF LoginPlaces, Guessing
  <2>3. req[p].pw \in 1 .. made.password
    BY <2>1 DEF Types, ReqOK, Fit
  <2>4. UsersOK'
    BY <1>3, <2>3 DEF Rehash, Types, UsersOK
  <2> QED
    BY <1>3, <2>2, <2>4 DEF Rehash, Types, FactorsOK, SessionsOK, Sessions, RestOK
<1>4. CASE AskFactor(p)
  <2>1. req[p].at = "factor" /\ session' = session /\ made' = made
    BY <1>4 DEF AskFactor, At
  <2>2. End(p) \/ \E place \in {"success", "find"} : Goto(p, place)
    BY <1>4 DEF AskFactor
  <2>3. CASE End(p)
    <3>1. ReqOK'
      BY <2>1, <2>3, EndTypes DEF Sessions, Types, RestOK
    <3> QED
      BY <1>4, <3>1 DEF AskFactor, Types, UsersOK, FactorsOK, SessionsOK, Sessions, RestOK
  <2>4. CASE \E place \in {"success", "find"} : Goto(p, place)
    <3>1. ReqOK'
      BY <2>1, <2>4, LoginGoes DEF LoginPlaces, Guessing
    <3> QED
      BY <1>4, <3>1 DEF AskFactor, Types, UsersOK, FactorsOK, SessionsOK, Sessions, RestOK
  <2> QED
    BY <2>2, <2>3, <2>4
<1>5. CASE FindFactor(p)
  <2>1. req[p].at = "find" /\ session' = session /\ made' = made
    BY <1>5 DEF FindFactor, At
  <2>2. \E place \in {"wrong", "success", "consume"} : Goto(p, place)
    BY <1>5 DEF FindFactor
  <2>3. ReqOK'
    BY <2>1, <2>2, LoginGoes DEF LoginPlaces, Guessing
  <2> QED
    BY <1>5, <2>3 DEF FindFactor, Types, UsersOK, FactorsOK, SessionsOK, Sessions, RestOK
<1>6. CASE Consume(p)
  <2>1. req[p].at = "consume" /\ session' = session /\ made' = made
    BY <1>6 DEF Consume, At
  <2>2. \E place \in {"wrong", "success"} : Goto(p, place)
    BY <1>6 DEF Consume
  <2>3. ReqOK'
    BY <2>1, <2>2, LoginGoes DEF LoginPlaces, Guessing
  <2>4. recovery' \in [set : 0 .. made.set, unused : BOOLEAN] /\ accepted' \in [1 .. (MaxRequests + 1) -> Nat]
    <3>1. recovery \in [set : 0 .. made.set, unused : BOOLEAN] /\ accepted \in [1 .. (MaxRequests + 1) -> Nat]
      BY DEF Types, FactorsOK
    <3>2. [recovery EXCEPT !.unused = FALSE] \in [set : 0 .. made.set, unused : BOOLEAN]
      BY <3>1, Zenon
    <3>3. [accepted EXCEPT ![recovery.set] = @ + 1] \in [1 .. (MaxRequests + 1) -> Nat]
      BY <3>1, CountUp, Zenon
    <3>4. made' = made
      BY <2>1
    <3> QED
      BY <1>6, <3>1, <3>2, <3>3, <3>4 DEF Consume
  <2> QED
    BY <1>6, <2>3, <2>4 DEF Consume, Types, UsersOK, FactorsOK, SessionsOK, Sessions, RestOK
<1>7. CASE LoginSucceeds(p)
  <2>1. req[p].at = "success" /\ session' = session /\ made' = made /\ req[p] \in LoginReq
    BY <1>7, ReqKinds DEF LoginSucceeds, At, Types, LoginPlaces
  <2>0. UsersOK'
    <3>1. 0 \in 0 .. MaxFailures /\ 0 \in Nat /\ UsersOK
      BY DEF Types
    <3>2. UNCHANGED <<password, weak, enabled, made>> /\ failed' = 0 /\ locked' = FALSE /\ guesses' = 0 /\ unheard' = 0
      BY <1>7 DEF LoginSucceeds
    <3> QED
      BY <3>1, <3>2, Zenon DEF UsersOK
  <2>2. CASE req[p].dev = NoDevice
    <3>1. Goto(p, "open")
      BY <1>7, <2>2 DEF LoginSucceeds
    <3>2. ReqOK'
      BY <2>1, <3>1, LoginGoes DEF LoginPlaces
    <3> QED
      BY <1>7, <2>0, <3>2 DEF LoginSucceeds, Types, FactorsOK, SessionsOK, Sessions, RestOK
  <2>3. CASE req[p].dev # NoDevice
    <3>1. Goto(p, "device") /\ req[p].dev \in Devices
      BY <1>7, <2>1, <2>3 DEF LoginSucceeds, LoginReq
    <3>2. ReqOK'
      BY <2>1, <3>1, LoginGoes DEF LoginPlaces
    <3> QED
      BY <1>7, <2>0, <3>2 DEF LoginSucceeds, Types, FactorsOK, SessionsOK, Sessions, RestOK
  <2> QED
    BY <2>2, <2>3
<1>8. CASE RegisterDevice(p)
  <2>1. req[p].at = "device" /\ session' = session /\ made' = made /\ Goto(p, "open")
    BY <1>8 DEF RegisterDevice, At
  <2>2. ReqOK'
    BY <2>1, LoginGoes DEF LoginPlaces, Guessing
  <2> QED
    BY <1>8, <2>2 DEF RegisterDevice, Types, UsersOK, FactorsOK, SessionsOK, Sessions, RestOK
<1> QED
  BY <1>1, <1>2, <1>3, <1>4, <1>5, <1>6, <1>7, <1>8

(* A request goes on to a place where what it holds still fits. *)
LEMMA Goes ==
  ASSUME Types, NEW p \in Procs, NEW place, Goto(p, place), Sessions \subseteq Sessions',
         made'.password \in Nat, made.password <= made'.password,
         [req[p] EXCEPT !.at = place] \in Requests,
         Fit([req[p] EXCEPT !.at = place], made'.password, Sessions')
  PROVE  ReqOK'
BY GotoIs, ReqStep

(* Rows are appended, and ended where they are. *)
LEMMA RowsStay ==
  ASSUME SessionsOK, NEW s \in [Sessions -> SessionRow]
  PROVE  s \in Seq(SessionRow) /\ Len(s) = Len(session) /\ DOMAIN s = Sessions
<1>1. Len(session) \in Nat /\ Sessions = 1 .. Len(session)
  BY DEF SessionsOK, Sessions
<1>2. s \in Seq(SessionRow)
  BY <1>1, SeqDef
<1> QED
  BY <1>1, <1>2

LEMMA EndedRow ==
  ASSUME SessionsOK, NEW i \in Sessions
  PROVE  LET s == [session EXCEPT ![i].live = FALSE]
         IN  /\ s \in Seq(SessionRow) /\ Len(s) = Len(session) /\ DOMAIN s = Sessions
             /\ \A j \in Sessions : /\ s[j].live = (IF j = i THEN FALSE ELSE session[j].live)
                                    /\ s[j].until = session[j].until
                                    /\ s[j].login = session[j].login /\ s[j].dev = session[j].dev
<1> DEFINE s == [session EXCEPT ![i].live = FALSE]
           ended == [session[i] EXCEPT !.live = FALSE]
<1>1. session \in [Sessions -> SessionRow]
  BY DEF SessionsOK, Sessions
<1>2. /\ ended \in SessionRow /\ ended.live = FALSE /\ ended.until = session[i].until
      /\ ended.login = session[i].login /\ ended.dev = session[i].dev
  BY <1>1 DEF SessionRow
<1>3. s = [session EXCEPT ![i] = ended]
  BY <1>1
<1> HIDE DEF ended
<1>4. s \in [Sessions -> SessionRow] /\ \A j \in Sessions : s[j] = IF j = i THEN ended ELSE session[j]
  BY <1>1, <1>2, <1>3
<1> HIDE DEF s
<1>5. s \in Seq(SessionRow) /\ Len(s) = Len(session) /\ DOMAIN s = Sessions
  BY <1>4, RowsStay
<1> QED
  BY <1>2, <1>4, <1>5 DEF s

LEMMA AppendedRow ==
  ASSUME NEW s \in Seq(SessionRow), NEW row \in SessionRow
  PROVE  /\ Append(s, row) \in Seq(SessionRow) /\ Len(Append(s, row)) = Len(s) + 1
         /\ DOMAIN Append(s, row) = 1 .. (Len(s) + 1) /\ DOMAIN s = 1 .. Len(s)
         /\ \A j \in 1 .. Len(s) : Append(s, row)[j] = s[j]
         /\ Append(s, row)[Len(s) + 1] = row
BY AppendProperties

LEMMA CuttersCounted == IsFiniteSet(Cutting) /\ Cardinality(Cutting) \in Nat
BY AccountAssumption, FS_Subset, FS_CardinalityType DEF Cutting, AccountAssumption

(* What a new row has to say for the types to hold with it. *)
LEMMA RowsGrow ==
  ASSUME Types, NEW s \in Seq(SessionRow), Len(s) = Len(session),
         \A j \in Sessions : s[j].login = session[j].login,
         NEW row \in SessionRow, row.login \in 1 .. (Len(session) + 1),
         session' = Append(s, row)
  PROVE  SessionsOK' /\ Sessions \subseteq Sessions' /\ Sessions' = 1 .. (Len(session) + 1)
<1>1. Len(session) \in Nat /\ Sessions = 1 .. Len(session) /\ \A i \in Sessions : session[i].login \in 1 .. Len(session)
  BY DEF Types, SessionsOK, Sessions
<1>2. /\ session' \in Seq(SessionRow) /\ Len(session') = Len(session) + 1
      /\ DOMAIN session' = 1 .. (Len(session) + 1)
      /\ \A j \in 1 .. Len(session) : session'[j] = s[j]
      /\ session'[Len(session) + 1] = row
  BY AppendedRow
<1>3. \A i \in 1 .. (Len(session) + 1) : session'[i].login \in 1 .. (Len(session) + 1)
  BY <1>1, <1>2
<1> QED
  BY <1>1, <1>2, <1>3 DEF SessionsOK, Sessions

LEMMA SessionTypes ==
  ASSUME Types, NEW p \in Procs,
         OpenSession(p) \/ Refresh(p) \/ RefreshUser(p) \/ Claim(p) \/ Rotate(p) \/ Logout(p) \/ EndSession(p)
  PROVE  Types'
<1>0. made.password \in Nat /\ made.password <= made.password
  BY DEF Types, RestOK
<1>1. CASE OpenSession(p)
  <2>1. req[p].dev \in Devices \cup {NoDevice} /\ End(p) /\ made' = made
    BY <1>1, ReqKinds DEF OpenSession, At, Types, LoginReq, LoginPlaces
  <2>2. Len(session) \in Nat /\ session \in Seq(SessionRow)
    BY DEF Types, SessionsOK
  <2> DEFINE row == NewSession(req[p].dev, Len(session) + 1)
  <2>3. row \in SessionRow /\ row.login = Len(session) + 1
    BY <2>1, <2>2, CuttersCounted DEF NewSession, SessionRow, Types, RestOK
  <2>4. session' = Append(session, row)
    BY <1>1 DEF OpenSession
  <2> HIDE DEF row
  <2>5. SessionsOK' /\ Sessions \subseteq Sessions'
    BY <2>2, <2>3, <2>4, RowsGrow
  <2>6. ReqOK'
    BY <1>0, <2>1, <2>5, EndTypes
  <2> QED
    BY <1>1, <2>5, <2>6 DEF OpenSession, users, factors, Types, UsersOK, FactorsOK, RestOK
<1>2. CASE Refresh(p)
  <2>1. PICK i \in Sessions :
          Begin(p, [at |-> IF Live(i) THEN "user" ELSE "revoke", sess |-> i, scope |-> "account"])
    BY <1>2 DEF Refresh
  <2> DEFINE place == IF Live(i) THEN "user" ELSE "revoke"
             r == [at |-> place, sess |-> i, scope |-> "account"]
  <2>2. i \in Nat
    BY DEF Types, SessionsOK, Sessions
  <2>3. place \in {"user", "revoke"} /\ r.at = place /\ r.sess = i
    OBVIOUS
  <2>4. r \in RefreshReq
    BY <2>2, <2>3 DEF RefreshReq
  <2>5. r \in Requests
    BY <2>4 DEF Requests
  <2>6. Begin(p, r) /\ session' = session /\ made' = made
    BY <1>2, <2>1 DEF Refresh
  <2> HIDE DEF place, r
  <2>7. ReqOK' /\ counts' \in [begun : 0 .. MaxRequests, abandoned : 0 .. MaxAbandoned]
    BY <2>3, <2>5, <2>6, BeginTypes
  <2> QED
    BY <1>2, <2>7 DEF Refresh, users, factors, Types, UsersOK, FactorsOK, SessionsOK, Sessions, RestOK
<1>3. CASE RefreshUser(p) \/ Claim(p)
  <2>1. /\ req[p] \in RefreshReq /\ req[p].sess \in Sessions
        /\ UNCHANGED <<users, factors, session, device, made, counts, cuts>>
        /\ End(p) \/ Goto(p, "claim") \/ Goto(p, "rotating")
    BY <1>3, ReqKinds DEF RefreshUser, Claim, At, Types, ReqOK, Fit
  <2>2. Sessions \subseteq Sessions' /\ made'.password \in Nat /\ made.password <= made'.password
    BY <1>0, <2>1 DEF Sessions
  <2>3. ASSUME NEW place \in {"claim", "rotating"}, Goto(p, place) PROVE ReqOK'
    <3> DEFINE r == [req[p] EXCEPT !.at = place]
    <3>1. r \in RefreshReq /\ r.at = place /\ r.sess = req[p].sess
      BY <2>1 DEF RefreshReq
    <3>2. r \in Requests
      BY <3>1 DEF Requests
    <3>3. Fit(r, made'.password, Sessions')
      BY <2>1, <2>2, <3>1 DEF Fit
    <3> QED
      BY <2>2, <2>3, <3>2, <3>3, Goes
  <2>4. ReqOK'
    BY <2>1, <2>2, <2>3, EndTypes
  <2> QED
    BY <2>1, <2>4 DEF users, factors, Types, UsersOK, FactorsOK, SessionsOK, Sessions, RestOK
<1>4. CASE Rotate(p)
  <2>1. req[p].sess \in Sessions /\ End(p) /\ made' = made
    BY <1>4 DEF Rotate, At, Types, ReqOK, Fit
  <2> DEFINE i == req[p].sess
             s == [session EXCEPT ![i].live = FALSE]
             row == NewSession(session[i].dev, session[i].login)
  <2>2. /\ session[i].dev \in Devices \cup {NoDevice} /\ session[i].login \in 1 .. Len(session)
        /\ Len(session) \in Nat /\ SessionsOK
    <3>1. session \in [Sessions -> SessionRow] /\ SessionsOK /\ Len(session) \in Nat
      BY DEF Types, SessionsOK, Sessions
    <3> QED
      BY <2>1, <3>1 DEF SessionsOK, SessionRow
  <2>3. /\ s \in Seq(SessionRow) /\ Len(s) = Len(session)
        /\ \A j \in Sessions : s[j].login = session[j].login
    BY <2>1, <2>2, EndedRow
  <2>4. row \in SessionRow /\ row.login = session[i].login
    BY SMTT(30), <2>2, CuttersCounted DEF NewSession, SessionRow, Types, RestOK
  <2>5. session' = Append(s, row)
    BY <1>4 DEF Rotate
  <2>6. row.login \in 1 .. (Len(session) + 1)
    BY <2>2, <2>4
  <2> HIDE DEF s, row, i
  <2>7. SessionsOK' /\ Sessions \subseteq Sessions'
    BY <2>3, <2>4, <2>5, <2>6, RowsGrow
  <2>8. ReqOK'
    BY <1>0, <2>1, <2>7, EndTypes
  <2> QED
    BY <1>4, <2>7, <2>8 DEF Rotate, users, factors, Types, UsersOK, FactorsOK, RestOK
<1>5. CASE Logout(p)
  <2>1. PICK i \in Sessions : Begin(p, [at |-> "logout", sess |-> i])
    BY <1>5 DEF Logout
  <2> DEFINE r == [at |-> "logout", sess |-> i]
  <2>2. i \in Nat
    BY DEF Types, SessionsOK, Sessions
  <2>3. r \in Requests /\ r.at = "logout" /\ r.sess = i
    BY <2>2 DEF Requests, LogoutReq
  <2>4. Begin(p, r) /\ session' = session /\ made' = made
    BY <1>5, <2>1 DEF Logout
  <2> HIDE DEF r
  <2>5. ReqOK' /\ counts' \in [begun : 0 .. MaxRequests, abandoned : 0 .. MaxAbandoned]
    BY <2>3, <2>4, BeginTypes
  <2> QED
    BY <1>5, <2>5 DEF Logout, users, factors, Types, UsersOK, FactorsOK, SessionsOK, Sessions, RestOK
<1>6. CASE EndSession(p)
  <2>1. req[p].sess \in Sessions /\ End(p) /\ made' = made
    BY <1>6 DEF EndSession, At, Types, ReqOK, Fit
  <2>2. session' = [session EXCEPT ![req[p].sess].live = FALSE]
    BY <1>6 DEF EndSession
  <2>3. /\ session' \in Seq(SessionRow) /\ Len(session') = Len(session) /\ DOMAIN session' = Sessions
        /\ \A j \in Sessions : session'[j].login = session[j].login
    BY <2>1, <2>2, EndedRow DEF Types
  <2>4. SessionsOK' /\ Sessions' = Sessions
    BY <2>3 DEF SessionsOK, Sessions, Types
  <2>5. ReqOK'
    BY <1>0, <2>1, <2>4, EndTypes
  <2> QED
    BY <1>6, <2>4, <2>5 DEF EndSession, users, factors, Types, UsersOK, FactorsOK, RestOK
<1> QED
  BY <1>1, <1>2, <1>3, <1>4, <1>5, <1>6

(* A request begins with a record that holds nothing of the account yet. *)
LEMMA BeginsPlain ==
  ASSUME Types, NEW p \in Procs, NEW r \in AccountReq \cup UnlinkReq \cup FactorReq,
         r.at \notin {"revoking", "rehash", "device", "user", "claim", "rotating", "logout"},
         Begin(p, r), UNCHANGED <<users, totp, recovery, accepted, session, device, made, cuts>>
  PROVE  Types'
<1>1. r \in Requests
  BY DEF Requests
<1>2. ReqOK' /\ counts' \in [begun : 0 .. MaxRequests, abandoned : 0 .. MaxAbandoned]
  BY <1>1, BeginTypes
<1> QED
  BY <1>2 DEF users, Types, UsersOK, FactorsOK, SessionsOK, Sessions, RestOK

LEMMA RevokeTypes ==
  ASSUME Types, NEW p \in Procs,
         ChangePassword(p) \/ ResetPassword(p) \/ Disable(p) \/ Unlink(p)
         \/ WritePassword(p) \/ WriteDisabled(p) \/ WriteUnlinked(p)
         \/ StartRevoking(p) \/ FinishRevoking(p)
  PROVE  Types'
<1>0. made.password \in Nat /\ made.password <= made.password
  BY DEF Types, RestOK
<1>1. CASE ChangePassword(p) \/ ResetPassword(p)
  <2>1. [at |-> "password", scope |-> "account"] \in AccountReq
    BY DEF AccountReq
  <2> QED
    BY <1>1, <2>1, BeginsPlain DEF ChangePassword, ResetPassword, factors
<1>2. CASE Disable(p)
  <2>1. [at |-> "disable", scope |-> "account"] \in AccountReq
    BY DEF AccountReq
  <2> QED
    BY <1>2, <2>1, BeginsPlain DEF Disable, factors
<1>3. CASE Unlink(p)
  <2>1. PICK d \in Devices : Begin(p, [at |-> "unlink", scope |-> "device", dev |-> d])
    BY <1>3 DEF Unlink
  <2>2. [at |-> "unlink", scope |-> "device", dev |-> d] \in UnlinkReq
    BY DEF UnlinkReq
  <2> QED
    BY <1>3, <2>1, <2>2, BeginsPlain DEF Unlink, factors
<1>4. CASE WritePassword(p) \/ WriteDisabled(p) \/ WriteUnlinked(p)
  <2> DEFINE r == [req[p] EXCEPT !.at = "revoke"]
  <2>1. r \in AccountReq \cup UnlinkReq /\ r.at = "revoke"
    BY <1>4, ReqKinds DEF WritePassword, WriteDisabled, WriteUnlinked, At, Types, AccountReq, UnlinkReq
  <2>2. r \in Requests
    BY <2>1 DEF Requests
  <2>3. /\ Goto(p, "revoke") /\ Sessions \subseteq Sessions'
        /\ made' = made \/ made' = [made EXCEPT !.password = @ + 1]
    BY <1>4 DEF WritePassword, WriteDisabled, WriteUnlinked, Sessions
  <2>4. made'.password \in Nat /\ made.password <= made'.password
    BY <2>3 DEF Types, RestOK
  <2>5. Fit(r, made'.password, Sessions')
    BY <2>1 DEF Fit
  <2>6. ReqOK'
    BY <2>2, <2>3, <2>4, <2>5, Goes
  <2>7. CASE WritePassword(p)
    <3>1. /\ made' \in [password : Nat, secret : Nat, set : Nat] /\ made'.secret = made.secret
          /\ made'.set = made.set /\ made'.password = made.password + 1
      BY <2>7 DEF WritePassword, Types, RestOK
    <3>2. password' \in 1 .. made'.password
      BY <2>7, <3>1 DEF WritePassword, Types, RestOK
    <3> QED
      BY <2>6, <2>7, <3>1, <3>2
      DEF WritePassword, factors, Types, UsersOK, FactorsOK, SessionsOK, Sessions, RestOK
  <2>8. CASE WriteDisabled(p)
    BY <2>6, <2>8 DEF WriteDisabled, factors, Types, UsersOK, FactorsOK, SessionsOK, Sessions, RestOK
  <2>9. CASE WriteUnlinked(p)
    BY <2>6, <2>9 DEF WriteUnlinked, users, factors, Types, UsersOK, FactorsOK, SessionsOK, Sessions, RestOK
  <2> QED
    BY <1>4, <2>7, <2>8, <2>9
<1>5. CASE StartRevoking(p)
  <2> DEFINE rows == {i \in Sessions : Live(i) /\ (req[p].scope = "account" \/ session[i].dev = req[p].dev)}
             r == [at |-> "revoking", scope |-> req[p].scope, rows |-> rows]
  <2>1. req[p].scope \in {"account", "device"}
    BY <1>5, ReqKinds DEF StartRevoking, At, Types, RefreshReq, AccountReq, UnlinkReq
  <2>2. req' = [req EXCEPT ![p] = r] /\ session' = session /\ made' = made
    BY <1>5 DEF StartRevoking, Types, ReqOK
  <2>3. rows \subseteq Sessions /\ Sessions \subseteq Nat
    BY DEF Types, SessionsOK, Sessions
  <2>4. r.at = "revoking" /\ r.rows = rows
    OBVIOUS
  <2>5. r \in Requests
    BY <2>1, <2>3 DEF Requests, RevokingReq
  <2> HIDE DEF rows, r
  <2>6. Sessions \subseteq Sessions' /\ Fit(r, made'.password, Sessions')
    BY <2>2, <2>3, <2>4 DEF Fit, Sessions
  <2>7. ReqOK'
    BY <1>0, <2>2, <2>5, <2>6, ReqStep
  <2> QED
    BY <1>5, <2>7 DEF StartRevoking, users, factors, Types, UsersOK, FactorsOK, SessionsOK, Sessions, RestOK
<1>6. CASE FinishRevoking(p)
  <2>1. session' = [i \in Sessions |-> [session[i] EXCEPT !.live = @ /\ i \notin req[p].rows]]
    BY <1>6 DEF FinishRevoking
  <2>2. session \in [Sessions -> SessionRow] /\ SessionsOK
    BY DEF Types, SessionsOK, Sessions
  <2>3. ASSUME NEW i \in Sessions
        PROVE  /\ [session[i] EXCEPT !.live = @ /\ i \notin req[p].rows] \in SessionRow
               /\ [session[i] EXCEPT !.live = @ /\ i \notin req[p].rows].login = session[i].login
    BY <2>2 DEF SessionRow
  <2>4. session' \in [Sessions -> SessionRow] /\ \A i \in Sessions : session'[i].login = session[i].login
    BY <2>1, <2>3
  <2>5. session' \in Seq(SessionRow) /\ Len(session') = Len(session) /\ DOMAIN session' = Sessions
    BY <2>2, <2>4, RowsStay
  <2>6. SessionsOK' /\ Sessions' = Sessions
    BY <2>2, <2>4, <2>5 DEF SessionsOK, Sessions
  <2>7. End(p) /\ made' = made
    BY <1>6 DEF FinishRevoking
  <2>8. ReqOK'
    BY <1>0, <2>6, <2>7, EndTypes
  <2> QED
    BY <1>6, <2>6, <2>8 DEF FinishRevoking, users, factors, Types, UsersOK, FactorsOK, RestOK
<1> QED
  BY <1>1, <1>2, <1>3, <1>4, <1>5, <1>6

LEMMA FactorTypes ==
  ASSUME Types, NEW p \in Procs,
         Enroll(p) \/ WriteSecret(p) \/ Confirm(p) \/ WriteConfirmed(p) \/ ReplaceCodes(p)
         \/ TurnOff(p) \/ DeleteFactor(p) \/ Abandon(p)
  PROVE  Types'
<1>0. made.password \in Nat /\ made.password <= made.password
  BY DEF Types, RestOK
<1>1. CASE Enroll(p) \/ Confirm(p) \/ TurnOff(p)
  <2>1. \A place \in {"enroll", "confirm", "off"} : [at |-> place] \in FactorReq
    BY DEF FactorReq
  <2> QED
    BY <1>1, <2>1, BeginsPlain DEF Enroll, Confirm, TurnOff, factors
<1>2. CASE WriteSecret(p) \/ ReplaceCodes(p)
  <2>1. /\ End(p) /\ Sessions \subseteq Sessions'
        /\ made' = [made EXCEPT !.secret = @ + 1] \/ made' = [made EXCEPT !.set = @ + 1]
    BY <1>2 DEF WriteSecret, ReplaceCodes, Sessions
  <2>2. /\ made' \in [password : Nat, secret : Nat, set : Nat] /\ made'.password = made.password
        /\ made.secret \in Nat /\ made.set \in Nat /\ made.secret <= made'.secret /\ made.set <= made'.set
    BY <2>1 DEF Types, RestOK
  <2>3. ReqOK'
    BY <1>0, <2>1, <2>2, EndTypes
  <2>4. totp' \in [secret : 0 .. made'.secret, confirmed : BOOLEAN] /\ (totp'.confirmed => totp'.secret # 0)
    <3>1. CASE WriteSecret(p)
      <4>1. made'.secret = made.secret + 1 /\ totp' = [secret |-> made.secret + 1, confirmed |-> FALSE]
        BY <3>1 DEF WriteSecret, Types, RestOK
      <4> QED
        BY <2>2, <4>1
    <3>2. CASE ReplaceCodes(p)
      BY <2>2, <3>2 DEF ReplaceCodes, Types, FactorsOK
    <3> QED
      BY <1>2, <3>1, <3>2
  <2>5. recovery' \in [set : 0 .. made'.set, unused : BOOLEAN]
    <3>1. CASE WriteSecret(p)
      BY <2>2, <3>1 DEF WriteSecret, Types, FactorsOK
    <3>2. CASE ReplaceCodes(p)
      <4>1. made'.set = made.set + 1 /\ recovery' = [set |-> made.set + 1, unused |-> TRUE]
        BY <3>2 DEF ReplaceCodes, Types, RestOK
      <4> QED
        BY <2>2, <4>1
    <3> QED
      BY <1>2, <3>1, <3>2
  <2>6. UNCHANGED <<users, accepted, session, device, counts, cuts>>
    BY <1>2 DEF WriteSecret, ReplaceCodes
  <2>7. UsersOK' /\ SessionsOK'
    BY <2>2, <2>6 DEF users, Types, UsersOK, SessionsOK, Sessions
  <2>8. FactorsOK' /\ RestOK'
    BY <2>2, <2>4, <2>5, <2>6 DEF Types, FactorsOK, RestOK
  <2> QED
    BY <2>3, <2>7, <2>8 DEF Types
<1>3. CASE WriteConfirmed(p)
  <2>1. Sessions \subseteq Sessions' /\ made' = made /\ req[p] \in FactorReq
    BY <1>3, ReqKinds DEF WriteConfirmed, At, Sessions, Types
  <2>2. CASE End(p) /\ totp' = totp
    <3>1. ReqOK'
      BY <1>0, <2>1, <2>2, EndTypes
    <3> QED
      BY <1>3, <2>2, <3>1 DEF WriteConfirmed, users, Types, UsersOK, FactorsOK, SessionsOK, Sessions, RestOK
  <2>3. CASE Goto(p, "codes") /\ totp.secret # 0 /\ totp' = [totp EXCEPT !.confirmed = TRUE]
    <3> DEFINE r == [req[p] EXCEPT !.at = "codes"]
    <3>1. r \in FactorReq /\ r.at = "codes"
      BY <2>1 DEF FactorReq
    <3>2. r \in Requests /\ Fit(r, made'.password, Sessions')
      BY <3>1 DEF Requests, Fit
    <3>3. ReqOK'
      BY <1>0, <2>1, <2>3, <3>2, Goes
    <3>4. totp' \in [secret : 0 .. made.secret, confirmed : BOOLEAN] /\ totp'.secret # 0
      BY <2>3 DEF Types, FactorsOK
    <3> QED
      BY <1>3, <2>1, <3>3, <3>4
      DEF WriteConfirmed, users, Types, UsersOK, FactorsOK, SessionsOK, Sessions, RestOK
  <2> QED
    BY <1>3, <2>2, <2>3 DEF WriteConfirmed
<1>4. CASE DeleteFactor(p)
  <2>1. ReqOK'
    BY <1>0, <1>4, EndTypes DEF DeleteFactor, Sessions
  <2>2. made.secret \in Nat /\ made.set \in Nat /\ made' = made
    BY <1>4 DEF DeleteFactor, Types, RestOK
  <2>3. FactorsOK'
    BY <1>4, <2>2 DEF DeleteFactor, Types, FactorsOK
  <2> QED
    BY <1>4, <2>1, <2>3 DEF DeleteFactor, users, Types, UsersOK, SessionsOK, Sessions, RestOK
<1>5. CASE Abandon(p)
  <2>1. ReqOK'
    BY <1>0, <1>5, EndTypes DEF Abandon, Sessions
  <2>2. counts' \in [begun : 0 .. MaxRequests, abandoned : 0 .. MaxAbandoned]
    BY <1>5, AccountAssumption DEF Abandon, Types, RestOK, AccountAssumption
  <2> QED
    BY <1>5, <2>1, <2>2 DEF Abandon, users, factors, Types, UsersOK, FactorsOK, SessionsOK, Sessions, RestOK
<1> QED
  BY <1>1, <1>2, <1>3, <1>4, <1>5

(* The doors of the mail protocols, and those where nothing is counted.     *)
MailStep(p) ==
  \/ LoginByApp(p) \/ ImapLogin(p) \/ ImapGate(p) \/ ImapSucceeds(p) \/ ImapForgets(p)
  \/ SmtpAuthMiss(p) \/ ImapAppMiss(p) \/ OwnerMiss(p)

(* They touch the counters of the account and their own request, no more.   *)
LEMMA MailLeaves ==
  ASSUME NEW p \in Procs, MailStep(p)
  PROVE  /\ UNCHANGED <<password, weak, enabled, factors, session, device, made, cuts>>
         /\ \/ UNCHANGED <<failed, locked, guesses>>
            \/ failed' = 0 /\ locked' = FALSE /\ guesses' = 0
         /\ unheard' = unheard \/ unheard' = unheard + 1 \/ unheard' = 0
<1>1. CASE LoginByApp(p)
  BY <1>1 DEF LoginByApp, users
<1>2. CASE ImapLogin(p)
  BY <1>2 DEF ImapLogin, users
<1>3. CASE ImapGate(p)
  BY <1>3 DEF ImapGate, users
<1>4. CASE ImapSucceeds(p)
  BY <1>4 DEF ImapSucceeds
<1>5. CASE ImapForgets(p)
  BY <1>5 DEF ImapForgets
<1>6. CASE SmtpAuthMiss(p) \/ ImapAppMiss(p) \/ OwnerMiss(p)
  BY <1>6 DEF SmtpAuthMiss, ImapAppMiss, OwnerMiss, Miss
<1> QED
  BY <1>1, <1>2, <1>3, <1>4, <1>5, <1>6 DEF MailStep

LEMMA MailMoves ==
  ASSUME NEW p \in Procs, MailStep(p)
  PROVE  \/ End(p) /\ counts' = counts
         \/ req[p].at = "gate" /\ Goto(p, "noting") /\ counts' = counts
         \/ Begin(p, Idle)
         \/ ~locked /\ \E r \in ImapReq : Begin(p, r)
         \/ \E r \in LoginReq : r.at = "success" /\ Begin(p, r)
<1>1. CASE LoginByApp(p)
  <2>1. PICK d \in Devices \cup {NoDevice} :
          Begin(p, [at |-> "success", pw |-> 0, factor |-> [kind |-> "none", n |-> 0], dev |-> d])
    BY <1>1 DEF LoginByApp
  <2> DEFINE r == [at |-> "success", pw |-> 0, factor |-> [kind |-> "none", n |-> 0], dev |-> d]
  <2>2. r \in LoginReq /\ r.at = "success"
    BY DEF LoginReq, LoginPlaces
  <2> QED
    BY <2>1, <2>2
<1>2. CASE ImapLogin(p)
  <2>1. ~locked /\ \E place \in {"counting", "gate", "noting"} : Begin(p, [at |-> place])
    BY <1>2 DEF ImapLogin, LoginAllowed
  <2>2. \A place \in {"counting", "gate", "noting"} : [at |-> place] \in ImapReq
    BY DEF ImapReq
  <2> QED
    BY <2>1, <2>2
<1>3. CASE ImapGate(p)
  BY <1>3 DEF ImapGate, At
<1>4. CASE ImapSucceeds(p) \/ ImapForgets(p)
  BY <1>4 DEF ImapSucceeds, ImapForgets
<1>5. CASE SmtpAuthMiss(p) \/ ImapAppMiss(p) \/ OwnerMiss(p)
  BY <1>5 DEF SmtpAuthMiss, ImapAppMiss, OwnerMiss, Miss
<1> QED
  BY <1>1, <1>2, <1>3, <1>4, <1>5 DEF MailStep

LEMMA MailTypes == ASSUME Types, NEW p \in Procs, MailStep(p) PROVE Types'
<1>1. /\ UNCHANGED <<password, weak, enabled, factors, session, device, made, cuts>>
      /\ UNCHANGED <<failed, locked, guesses>> \/ (failed' = 0 /\ locked' = FALSE /\ guesses' = 0)
      /\ unheard' = unheard \/ unheard' = unheard + 1 \/ unheard' = 0
  BY MailLeaves
<1>2. UsersOK'
  <2>1. 0 \in 0 .. MaxFailures /\ unheard' \in Nat
    BY <1>1, AccountAssumption DEF Types, UsersOK, AccountAssumption
  <2>2. failed' \in 0 .. MaxFailures /\ locked' \in BOOLEAN /\ guesses' \in Nat
    <3>1. failed \in 0 .. MaxFailures /\ locked \in BOOLEAN /\ guesses \in Nat
      BY DEF Types, UsersOK
    <3>2. CASE UNCHANGED <<failed, locked, guesses>>
      BY <3>1, <3>2, Zenon
    <3>3. CASE failed' = 0 /\ locked' = FALSE /\ guesses' = 0
      BY <2>1, <3>3
    <3> QED
      BY <1>1, <3>2, <3>3
  <2>3. password' \in 1 .. made'.password /\ weak' \in BOOLEAN /\ enabled' \in BOOLEAN
    BY <1>1 DEF Types, UsersOK
  <2> QED
    BY <2>1, <2>2, <2>3, Zenon DEF UsersOK
<1>3. made.password \in Nat /\ made.password <= made.password /\ Sessions' = Sessions /\ made' = made
  BY <1>1 DEF Types, RestOK, Sessions
<1>4. ReqOK' /\ counts' \in [begun : 0 .. MaxRequests, abandoned : 0 .. MaxAbandoned]
  <2>1. CASE End(p) /\ counts' = counts
    <3>1. ReqOK'
      BY <1>3, <2>1, EndTypes
    <3> QED
      BY <2>1, <3>1 DEF Types, RestOK
  <2>2. CASE req[p].at = "gate" /\ Goto(p, "noting") /\ counts' = counts
    <3> DEFINE r == [req[p] EXCEPT !.at = "noting"]
    <3>1. req[p] \in ImapReq
      BY <2>2, ReqKinds DEF Types
    <3>2. r \in Requests /\ r.at = "noting"
      BY <3>1 DEF ImapReq, Requests
    <3>3. req' = [req EXCEPT ![p] = r]
      BY <2>2, GotoIs
    <3> HIDE DEF r
    <3>4. Fit(r, made'.password, Sessions')
      BY <3>2 DEF Fit
    <3>5. ReqOK'
      BY <1>3, <3>2, <3>3, <3>4, ReqStep
    <3> QED
      BY <2>2, <3>5 DEF Types, RestOK
  <2>3. ASSUME NEW r \in Requests, Begin(p, r), r.at \in {"idle", "counting", "gate", "noting", "success"}
        PROVE  ReqOK' /\ counts' \in [begun : 0 .. MaxRequests, abandoned : 0 .. MaxAbandoned]
    BY <1>1, <2>3, BeginTypes
  <2>4. Idle \in Requests /\ Idle.at = "idle"
    BY DEF Requests, Idle
  <2>5. \A r \in ImapReq : r \in Requests /\ r.at \in {"counting", "gate", "noting"}
    BY DEF Requests, ImapReq
  <2>6. \A r \in LoginReq : r \in Requests
    BY DEF Requests
  <2> QED
    BY <2>1, <2>2, <2>3, <2>4, <2>5, <2>6, MailMoves
<1> QED
  BY <1>1, <1>2, <1>3, <1>4 DEF factors, Types, FactorsOK, SessionsOK, Sessions, RestOK

LEMMA InitTypes == Init => Types
<1> SUFFICES ASSUME Init PROVE Types
  OBVIOUS
<1> USE AccountAssumption DEF AccountAssumption
<1>1. PICK on \in BOOLEAN :
        /\ totp = IF on THEN [secret |-> 1, confirmed |-> TRUE] ELSE [secret |-> 0, confirmed |-> FALSE]
        /\ recovery = IF on THEN [set |-> 1, unused |-> TRUE] ELSE [set |-> 0, unused |-> FALSE]
        /\ made = [password |-> 1, secret |-> IF on THEN 1 ELSE 0, set |-> IF on THEN 1 ELSE 0]
  BY DEF Init
<1>2. PICK d \in Devices :
        /\ session = <<[live |-> TRUE, dev |-> d, login |-> 1, until |-> 0]>>
        /\ device = [e \in Devices |-> IF e = d THEN "active" ELSE "unknown"]
  BY DEF Init
<1>3. UsersOK
  <2>1. 1 \in 1 .. made.password /\ 0 \in 0 .. MaxFailures /\ 0 \in Nat
    BY <1>1
  <2> QED
    BY <2>1, Zenon DEF Init, UsersOK
<1>4. FactorsOK
  <2>1. accepted \in [1 .. (MaxRequests + 1) -> Nat]
    BY DEF Init
  <2>2. CASE on
    <3>1. totp = [secret |-> 1, confirmed |-> TRUE] /\ recovery = [set |-> 1, unused |-> TRUE]
      BY <1>1, <2>2
    <3>2. made.secret = 1 /\ made.set = 1
      BY <1>1, <2>2
    <3> QED
      BY <2>1, <3>1, <3>2 DEF FactorsOK
  <2>3. CASE ~on
    <3>1. totp = [secret |-> 0, confirmed |-> FALSE] /\ recovery = [set |-> 0, unused |-> FALSE]
      BY <1>1, <2>3
    <3>2. made.secret = 0 /\ made.set = 0
      BY <1>1, <2>3
    <3> QED
      BY <2>1, <3>1, <3>2 DEF FactorsOK
  <2> QED
    BY <2>2, <2>3
<1>5. SessionsOK
  <2>1. [live |-> TRUE, dev |-> d, login |-> 1, until |-> 0] \in SessionRow
    BY DEF SessionRow
  <2> QED
    BY <1>2, <2>1 DEF SessionsOK, Sessions
<1>6. RestOK
  BY <1>1, <1>2 DEF Init, RestOK
<1>7. ReqOK
  BY DEF Init, ReqOK, Requests, Idle, Fit
<1> QED
  BY <1>3, <1>4, <1>5, <1>6, <1>7 DEF Types

LEMMA TypeStep == Types /\ [Next]_vars => Types'
<1> SUFFICES ASSUME Types, [Next]_vars PROVE Types'
  OBVIOUS
<1>1. CASE \E p \in Procs :
             \/ Login(p) \/ LoginFails(p) \/ Rehash(p) \/ AskFactor(p) \/ FindFactor(p) \/ Consume(p)
             \/ LoginSucceeds(p) \/ RegisterDevice(p)
  BY <1>1, LoginTypes
<1>2. CASE \E p \in Procs :
             OpenSession(p) \/ Refresh(p) \/ RefreshUser(p) \/ Claim(p) \/ Rotate(p) \/ Logout(p) \/ EndSession(p)
  BY <1>2, SessionTypes
<1>3. CASE \E p \in Procs :
             ChangePassword(p) \/ ResetPassword(p) \/ Disable(p) \/ Unlink(p)
             \/ WritePassword(p) \/ WriteDisabled(p) \/ WriteUnlinked(p)
             \/ StartRevoking(p) \/ FinishRevoking(p)
  BY <1>3, RevokeTypes
<1>4. CASE \E p \in Procs :
             Enroll(p) \/ WriteSecret(p) \/ Confirm(p) \/ WriteConfirmed(p) \/ ReplaceCodes(p)
             \/ TurnOff(p) \/ DeleteFactor(p) \/ Abandon(p)
  BY <1>4, FactorTypes
<1>8. CASE \E p \in Procs : MailStep(p)
  BY <1>8, MailTypes
<1>5. CASE Unlock
  BY <1>5 DEF Unlock, factors, Types, UsersOK, FactorsOK, SessionsOK, Sessions, RestOK, ReqOK
<1>6. CASE Enable
  BY <1>6 DEF Enable, factors, Types, UsersOK, FactorsOK, SessionsOK, Sessions, RestOK, ReqOK
<1>7. CASE UNCHANGED vars
  BY <1>7 DEF vars, users, factors, Types, UsersOK, FactorsOK, SessionsOK, Sessions, RestOK, ReqOK
<1> QED
  BY <1>1, <1>2, <1>3, <1>4, <1>5, <1>6, <1>7, <1>8 DEF Next, MailStep
-----------------------------------------------------------------------------
(* Where a request goes; the others stay.                                   *)

LEMMA Ends ==
  ASSUME Types, NEW p \in Procs, End(p)
  PROVE  req'[p].at = "idle" /\ \A q \in Procs : q # p => req'[q] = req[q]
BY DEF End, Idle, Types, ReqOK

LEMMA GoesTo ==
  ASSUME Types, NEW p \in Procs, NEW place, Goto(p, place)
  PROVE  req'[p].at = place /\ \A q \in Procs : q # p => req'[q] = req[q]
<1>1. req[p] \in Requests
  BY DEF Types, ReqOK
<1>2. [req[p] EXCEPT !.at = place].at = place
  BY <1>1 DEF Requests, Idle, LoginReq, RefreshReq, LogoutReq, AccountReq, UnlinkReq, RevokingReq, FactorReq, ImapReq
<1>3. req' = [req EXCEPT ![p] = [req[p] EXCEPT !.at = place]]
  BY GotoIs
<1> QED
  BY <1>2, <1>3 DEF Types, ReqOK

LEMMA Begins ==
  ASSUME Types, NEW p \in Procs, NEW r, Begin(p, r)
  PROVE  req[p] = Idle /\ req'[p] = r /\ \A q \in Procs : q # p => req'[q] = req[q]
BY DEF Begin, Types, ReqOK
-----------------------------------------------------------------------------
(* One heir, and a clean cut.                                               *)

Rotating(p) == req[p].at = "rotating"

(* A rotation holds the lock of a live row, and no two hold the same one.   *)
LocksHeld ==
  /\ \A p \in Procs : Rotating(p) => session[req[p].sess].live
  /\ \A p, q \in Procs : Rotating(p) /\ Rotating(q) /\ req[p].sess = req[q].sess => p = q

(* The revocations under way that have not chosen row i: each of them will  *)
(* count as one more, and row i survives them all.                          *)
Missing(i) == {p \in Procs : /\ req[p].at = "revoking" /\ req[p].scope = "account"
                             /\ i \notin req[p].rows}
Overtakes ==
  \A i \in Sessions : session[i].live => cuts + Cardinality(Missing(i)) <= session[i].until

Heirs == OneLivePerLogin /\ LocksHeld /\ Overtakes

LEMMA RowFields ==
  ASSUME Types
  PROVE  /\ cuts \in Nat /\ Len(session) \in Nat /\ Sessions = 1 .. Len(session)
         /\ \A i \in Sessions : /\ session[i].until \in Nat /\ session[i].live \in BOOLEAN
                                /\ session[i].login \in 1 .. Len(session)
<1>1. session \in Seq(SessionRow) /\ cuts \in Nat /\ \A i \in Sessions : session[i].login \in 1 .. Len(session)
  BY DEF Types, SessionsOK, RestOK
<1>2. Len(session) \in Nat /\ Sessions = 1 .. Len(session)
  BY <1>1 DEF Sessions
<1>3. \A i \in Sessions : session[i] \in SessionRow
  BY <1>1, <1>2
<1> QED
  BY <1>1, <1>2, <1>3 DEF SessionRow

LEMMA MissingCounted ==
  ASSUME NEW i
  PROVE  /\ IsFiniteSet(Missing(i)) /\ Cardinality(Missing(i)) \in Nat
         /\ Missing(i) \subseteq Cutting /\ Cardinality(Missing(i)) <= Cardinality(Cutting)
<1>1. Missing(i) \subseteq Cutting
  BY DEF Missing, Cutting, At
<1> QED
  BY <1>1, CuttersCounted, FS_Subset, FS_CardinalityType

LEMMA OvertakesGivesCutOff == Types /\ Overtakes => CutOff
<1> SUFFICES ASSUME Types, Overtakes, NEW i \in Sessions, Live(i) PROVE cuts <= session[i].until
  BY DEF CutOff
<1>1. session[i].until \in Nat /\ cuts \in Nat
  BY RowFields
<1>2. cuts + Cardinality(Missing(i)) <= session[i].until
  BY DEF Overtakes, Live
<1> QED
  BY <1>1, <1>2, MissingCounted

(* Rows stay as they are, but for those that are ended; p leaves its place. *)
LEMMA OvertakesStays ==
  ASSUME Types, Overtakes, NEW p \in Procs, \A q \in Procs : q # p => req'[q] = req[q],
         req'[p].at # "revoking", cuts' = cuts,
         \A i \in Sessions' : session'[i].live =>
           \/ i \in Sessions /\ session[i].live /\ session'[i].until = session[i].until
           \/ session'[i].until = cuts + Cardinality(Cutting)
  PROVE  Overtakes'
<1> SUFFICES ASSUME NEW i \in Sessions', session'[i].live
             PROVE  cuts' + Cardinality(Missing(i))' <= session'[i].until
  BY DEF Overtakes
<1>1. Missing(i)' \subseteq Missing(i)
  BY DEF Missing
<1>2. /\ Cardinality(Missing(i)') <= Cardinality(Missing(i)) /\ Cardinality(Missing(i)') \in Nat
      /\ Cardinality(Missing(i)) \in Nat /\ Cardinality(Missing(i)) <= Cardinality(Cutting)
      /\ Cardinality(Cutting) \in Nat
  BY <1>1, MissingCounted, CuttersCounted, FS_Subset, FS_CardinalityType
<1>3. cuts \in Nat /\ \A j \in Sessions : session[j].until \in Nat
  BY RowFields
<1>4. CASE i \in Sessions /\ session[i].live /\ session'[i].until = session[i].until
  <2>1. cuts + Cardinality(Missing(i)) <= session[i].until
    BY <1>4 DEF Overtakes
  <2> QED
    BY <1>2, <1>3, <1>4, <2>1
<1>5. CASE session'[i].until = cuts + Cardinality(Cutting)
  BY <1>2, <1>3, <1>5
<1> QED
  BY <1>4, <1>5

(* A step of p that leaves the rows alone, and takes no lock.               *)
LEMMA Quiet ==
  ASSUME Types, Heirs, NEW p \in Procs, \A q \in Procs : q # p => req'[q] = req[q],
         req'[p].at # "revoking", req'[p].at # "rotating", session' = session, cuts' = cuts
  PROVE  Heirs'
<1>1. OneLivePerLogin'
  BY DEF Heirs, OneLivePerLogin, Sessions, Live
<1>2. LocksHeld'
  BY DEF Heirs, LocksHeld, Rotating
<1>3. Overtakes'
  BY OvertakesStays DEF Heirs, Sessions
<1> QED
  BY <1>1, <1>2, <1>3 DEF Heirs

(* The steps of requests that are neither login's last nor a rotation nor a *)
(* revocation of rows.                                                      *)
LEMMA QuietSteps ==
  ASSUME Types, Heirs, NEW p \in Procs,
         \/ Login(p) \/ LoginFails(p) \/ Rehash(p) \/ AskFactor(p) \/ FindFactor(p) \/ Consume(p)
         \/ LoginSucceeds(p) \/ RegisterDevice(p) \/ Refresh(p) \/ RefreshUser(p) \/ Logout(p)
         \/ ChangePassword(p) \/ ResetPassword(p) \/ Disable(p) \/ Unlink(p)
         \/ WritePassword(p) \/ WriteDisabled(p) \/ WriteUnlinked(p)
         \/ Enroll(p) \/ WriteSecret(p) \/ Confirm(p) \/ WriteConfirmed(p) \/ ReplaceCodes(p)
         \/ TurnOff(p) \/ DeleteFactor(p) \/ Abandon(p)
  PROVE  Heirs'
<1>1. session' = session /\ cuts' = cuts
  BY DEF Login, LoginFails, Rehash, AskFactor, FindFactor, Consume, LoginSucceeds, RegisterDevice, Refresh,
         RefreshUser, Logout, ChangePassword, ResetPassword, Disable, Unlink, WritePassword,
         WriteDisabled, WriteUnlinked, Enroll, WriteSecret, Confirm, WriteConfirmed, ReplaceCodes,
         TurnOff, DeleteFactor, Abandon
<1>2. \/ End(p)
      \/ \E place \in LoginPlaces \cup {"claim", "revoke", "codes"} : Goto(p, place)
      \/ \E r : Begin(p, r) /\ r.at \notin {"revoking", "rotating"}
  <2>1. CASE Login(p) \/ Refresh(p) \/ Logout(p) \/ ChangePassword(p) \/ ResetPassword(p) \/ Disable(p) \/ Unlink(p)
             \/ Enroll(p) \/ Confirm(p) \/ TurnOff(p)
    <3>1. CASE Login(p)
      <4>1. PICK pw \in 0 .. made.password, f \in Factors, d \in Devices \cup {NoDevice} :
              Begin(p, [at |-> IF pw # password THEN "wrong" ELSE IF weak THEN "rehash" ELSE "factor",
                        pw |-> pw, factor |-> f, dev |-> d])
        BY <3>1 DEF Login
      <4> DEFINE r == [at |-> IF pw # password THEN "wrong" ELSE IF weak THEN "rehash" ELSE "factor",
                       pw |-> pw, factor |-> f, dev |-> d]
      <4>2. Begin(p, r) /\ r.at \notin {"revoking", "rotating"}
        BY <4>1
      <4> QED
        BY <4>2
    <3>2. CASE Refresh(p)
      <4>1. PICK i \in Sessions :
              Begin(p, [at |-> IF Live(i) THEN "user" ELSE "revoke", sess |-> i, scope |-> "account"])
        BY <3>2 DEF Refresh
      <4> DEFINE r == [at |-> IF Live(i) THEN "user" ELSE "revoke", sess |-> i, scope |-> "account"]
      <4>2. Begin(p, r) /\ r.at \notin {"revoking", "rotating"}
        BY <4>1
      <4> QED
        BY <4>2
    <3>3. CASE Logout(p) \/ Unlink(p)
      <4>1. \/ \E i : Begin(p, [at |-> "logout", sess |-> i])
            \/ \E d : Begin(p, [at |-> "unlink", scope |-> "device", dev |-> d])
        BY <3>3 DEF Logout, Unlink
      <4>2. /\ \A i : [at |-> "logout", sess |-> i].at = "logout"
            /\ \A d : [at |-> "unlink", scope |-> "device", dev |-> d].at = "unlink"
        OBVIOUS
      <4> QED
        BY <4>1, <4>2
    <3>4. CASE ChangePassword(p) \/ ResetPassword(p) \/ Disable(p)
      <4>1. \E place \in {"password", "disable"} : Begin(p, [at |-> place, scope |-> "account"])
        BY <3>4 DEF ChangePassword, ResetPassword, Disable
      <4>2. \A place : [at |-> place, scope |-> "account"].at = place
        OBVIOUS
      <4> QED
        BY <4>1, <4>2
    <3>5. CASE Enroll(p) \/ Confirm(p) \/ TurnOff(p)
      <4>1. \E place \in {"enroll", "confirm", "off"} : Begin(p, [at |-> place])
        BY <3>5 DEF Enroll, Confirm, TurnOff
      <4>2. \A place : [at |-> place].at = place
        OBVIOUS
      <4> QED
        BY <4>1, <4>2
    <3> QED
      BY <2>1, <3>1, <3>2, <3>3, <3>4, <3>5
  <2>2. CASE LoginFails(p) \/ Rehash(p) \/ AskFactor(p) \/ FindFactor(p) \/ Consume(p)
             \/ LoginSucceeds(p) \/ RegisterDevice(p)
    BY <2>2 DEF LoginFails, Rehash, AskFactor, FindFactor, Consume, LoginSucceeds, RegisterDevice,
                LoginPlaces, Guessing
  <2>3. CASE RefreshUser(p) \/ WritePassword(p) \/ WriteDisabled(p) \/ WriteUnlinked(p)
             \/ WriteSecret(p) \/ WriteConfirmed(p) \/ ReplaceCodes(p) \/ DeleteFactor(p) \/ Abandon(p)
    BY <2>3 DEF RefreshUser, WritePassword, WriteDisabled, WriteUnlinked, WriteSecret, WriteConfirmed,
                ReplaceCodes, DeleteFactor, Abandon
  <2> QED
    BY <2>1, <2>2, <2>3
<1>3. req'[p].at \notin {"revoking", "rotating"} /\ \A q \in Procs : q # p => req'[q] = req[q]
  <2>1. CASE End(p)
    BY <2>1, Ends
  <2>2. CASE \E place \in LoginPlaces \cup {"claim", "revoke", "codes"} : Goto(p, place)
    BY <2>2, GoesTo DEF LoginPlaces, Guessing
  <2>3. CASE \E r : Begin(p, r) /\ r.at \notin {"revoking", "rotating"}
    BY <2>3, Begins
  <2> QED
    BY <1>2, <2>1, <2>2, <2>3
<1> QED
  BY <1>1, <1>3, Quiet

(* Where the request of a mail protocol goes.                               *)
LEMMA MailAt ==
  ASSUME Types, NEW p \in Procs, MailStep(p)
  PROVE  /\ req'[p].at \in {"idle", "counting", "gate", "noting", "success"}
         /\ req'[p].at = "counting" => ~locked
         /\ \A q \in Procs : q # p => req'[q] = req[q]
<1>1. CASE End(p)
  BY <1>1, Ends
<1>2. CASE Goto(p, "noting")
  BY <1>2, GoesTo
<1>3. CASE Begin(p, Idle)
  BY <1>3, Begins DEF Idle
<1>4. CASE ~locked /\ \E r \in ImapReq : Begin(p, r)
  BY <1>4, Begins DEF ImapReq
<1>5. CASE \E r \in LoginReq : r.at = "success" /\ Begin(p, r)
  BY <1>5, Begins
<1> QED
  BY <1>1, <1>2, <1>3, <1>4, <1>5, MailMoves

LEMMA MailQuiet == ASSUME Types, Heirs, NEW p \in Procs, MailStep(p) PROVE Heirs'
<1>1. session' = session /\ cuts' = cuts
  BY MailLeaves
<1>2. /\ req'[p].at # "revoking" /\ req'[p].at # "rotating"
      /\ \A q \in Procs : q # p => req'[q] = req[q]
  BY MailAt
<1> QED
  BY <1>1, <1>2, Quiet

(* A new row with a login of its own. *)
LEMMA OpenKeeps == ASSUME Types, Heirs, NEW p \in Procs, OpenSession(p) PROVE Heirs'
<1> DEFINE row == NewSession(req[p].dev, Len(session) + 1)
           n == Len(session)
<1>1. req'[p].at = "idle" /\ \A q \in Procs : q # p => req'[q] = req[q]
  BY Ends DEF OpenSession
<1>2. row.login = n + 1 /\ row.until = cuts + Cardinality(Cutting)
  BY DEF NewSession
<1>3. /\ n \in Nat /\ Sessions = 1 .. n /\ Sessions' = 1 .. (n + 1)
      /\ \A j \in 1 .. n : session'[j] = session[j]
      /\ session'[n + 1] = row
  <2>1. req[p].dev \in Devices \cup {NoDevice}
    BY ReqKinds DEF OpenSession, At, Types, LoginReq, LoginPlaces
  <2>2. row \in SessionRow /\ session \in Seq(SessionRow)
    BY <2>1, CuttersCounted DEF NewSession, SessionRow, Types, RestOK, SessionsOK
  <2>3. session' = Append(session, row)
    BY DEF OpenSession
  <2> HIDE DEF row
  <2> QED
    BY <2>2, <2>3, AppendedRow DEF Sessions
<1> HIDE DEF row, n
<1>4. \A i \in Sessions : session[i].login \in 1 .. n
  BY RowFields DEF n
<1>5. OneLivePerLogin'
  <2> SUFFICES ASSUME NEW i \in Sessions', NEW j \in Sessions', session'[i].live, session'[j].live,
                      session'[i].login = session'[j].login
               PROVE  i = j
    BY DEF OneLivePerLogin, Live
  <2>1. \A k \in Sessions' : k \in Sessions \/ k = n + 1
    BY <1>3
  <2>2. CASE i \in Sessions /\ j \in Sessions
    BY <1>3, <2>2 DEF Heirs, OneLivePerLogin, Live
  <2>3. CASE i \notin Sessions \/ j \notin Sessions
    BY <1>2, <1>3, <1>4, <2>1, <2>3
  <2> QED
    BY <2>2, <2>3
<1>6. LocksHeld'
  <2>1. \A q \in Procs : Rotating(q) => req[q].sess \in Sessions
    BY DEF Rotating, Types, ReqOK, Fit
  <2> QED
    BY <1>1, <1>3, <2>1 DEF Heirs, LocksHeld, Rotating
<1>7. Overtakes'
  <2>1. \A i \in Sessions' : \/ i \in Sessions /\ session'[i] = session[i]
                             \/ session'[i].until = cuts + Cardinality(Cutting)
    BY <1>2, <1>3
  <2> QED
    BY <1>1, <2>1, OvertakesStays DEF Heirs, OpenSession
<1> QED
  BY <1>5, <1>6, <1>7 DEF Heirs

(* The heir of a live row takes over its login, under the row's lock.       *)
LEMMA RotateKeeps == ASSUME Types, Heirs, NEW p \in Procs, Rotate(p) PROVE Heirs'
<1> DEFINE o == req[p].sess
           s == [session EXCEPT ![o].live = FALSE]
           row == NewSession(session[o].dev, session[o].login)
           n == Len(session)
<1>1. req'[p].at = "idle" /\ \A q \in Procs : q # p => req'[q] = req[q]
  BY Ends DEF Rotate
<1>2. row.login = session[o].login /\ row.until = cuts + Cardinality(Cutting)
  BY DEF NewSession
<1>3. o \in Sessions /\ session[o].live /\ Rotating(p)
  BY DEF Rotate, At, Types, ReqOK, Fit, Heirs, LocksHeld, Rotating
<1>4. /\ s \in Seq(SessionRow) /\ Len(s) = n /\ DOMAIN s = Sessions
      /\ \A j \in Sessions : /\ s[j].live = (IF j = o THEN FALSE ELSE session[j].live)
                             /\ s[j].until = session[j].until
                             /\ s[j].login = session[j].login /\ s[j].dev = session[j].dev
  BY <1>3, EndedRow DEF Types
<1>5. /\ n \in Nat /\ Sessions = 1 .. n /\ Sessions' = 1 .. (n + 1)
      /\ \A j \in 1 .. n : session'[j] = s[j]
      /\ session'[n + 1] = row
  <2>1. session \in [Sessions -> SessionRow] /\ n \in Nat /\ Sessions = 1 .. n
    BY DEF Types, SessionsOK, Sessions
  <2>2. session[o] \in SessionRow /\ session[o].login \in Nat
    BY <1>3, <2>1 DEF SessionRow
  <2>3. row \in SessionRow
    BY <2>2, CuttersCounted DEF NewSession, SessionRow, Types, RestOK
  <2>4. session' = Append(s, row)
    BY DEF Rotate
  <2> HIDE DEF row, s
  <2> QED
    BY <1>4, <2>1, <2>3, <2>4, AppendedRow DEF Sessions
<1> HIDE DEF row, s, n, o
<1>6. OneLivePerLogin'
  <2> SUFFICES ASSUME NEW i \in Sessions', NEW j \in Sessions', session'[i].live, session'[j].live,
                      session'[i].login = session'[j].login
               PROVE  i = j
    BY DEF OneLivePerLogin, Live
  <2>1. \A k \in Sessions' : k \in Sessions \/ k = n + 1
    BY <1>5
  <2>2. \A k \in Sessions : session'[k].live => k # o /\ session[k].live /\ session'[k].login = session[k].login
    BY ZenonT(60), <1>4, <1>5
  <2>3. \A k \in Sessions : session'[k].live => session[k].login # session[o].login
    BY <1>3, <2>2 DEF Heirs, OneLivePerLogin, Live
  <2>4. CASE i \in Sessions /\ j \in Sessions
    BY <2>2, <2>4 DEF Heirs, OneLivePerLogin, Live
  <2>5. CASE i \notin Sessions \/ j \notin Sessions
    BY <1>2, <1>5, <2>1, <2>2, <2>3, <2>5
  <2> QED
    BY <2>4, <2>5
<1>7. LocksHeld'
  <2>1. \A q \in Procs : Rotating(q) => req[q].sess \in Sessions
    BY DEF Rotating, Types, ReqOK, Fit
  <2>2. \A q \in Procs : Rotating(q) /\ q # p => req[q].sess # o
    BY <1>3 DEF Heirs, LocksHeld, o
  <2>3. ASSUME NEW q \in Procs, Rotating(q)'
        PROVE  q # p /\ Rotating(q) /\ req'[q] = req[q] /\ session'[req'[q].sess].live
    <3>1. q # p /\ Rotating(q) /\ req'[q] = req[q]
      BY <1>1, <2>3 DEF Rotating
    <3>2. req[q].sess \in Sessions /\ req[q].sess # o /\ session[req[q].sess].live
      BY <2>1, <2>2, <3>1 DEF Heirs, LocksHeld
    <3>3. session'[req[q].sess] = s[req[q].sess] /\ s[req[q].sess].live = session[req[q].sess].live
      BY <1>4, <1>5, <3>2
    <3> QED
      BY <3>1, <3>2, <3>3
  <2> QED
    BY <2>3 DEF Heirs, LocksHeld
<1>8. Overtakes'
  <2>0. \A j \in Sessions : s[j].live => j # o /\ session[j].live
    BY <1>4
  <2>1. \A i \in Sessions' : session'[i].live =>
          \/ i \in Sessions /\ session[i].live /\ session'[i].until = session[i].until
          \/ session'[i].until = cuts + Cardinality(Cutting)
    <3> SUFFICES ASSUME NEW i \in Sessions', session'[i].live, i \in Sessions
                 PROVE  session[i].live /\ session'[i].until = session[i].until
      BY <1>2, <1>5
    <3>1. session'[i] = s[i]
      BY <1>5
    <3> QED
      BY <1>4, <2>0, <3>1
  <2> QED
    BY <1>1, <2>1, OvertakesStays DEF Heirs, Rotate
<1> QED
  BY <1>6, <1>7, <1>8 DEF Heirs

LEMMA ClaimKeeps == ASSUME Types, Heirs, NEW p \in Procs, Claim(p) PROVE Heirs'
<1>1. CASE End(p)
  BY <1>1, Ends, Quiet DEF Claim
<1>2. CASE Goto(p, "rotating") /\ Live(req[p].sess)
  <2>1. req'[p].at = "rotating" /\ \A q \in Procs : q # p => req'[q] = req[q]
    BY <1>2, GoesTo
  <2>2. req'[p].sess = req[p].sess
    <3>1. req[p] \in RefreshReq
      BY ReqKinds DEF Claim, At, Types
    <3>2. [req[p] EXCEPT !.at = "rotating"].sess = req[p].sess
      BY <3>1 DEF RefreshReq
    <3>3. req' = [req EXCEPT ![p] = [req[p] EXCEPT !.at = "rotating"]]
      BY <1>2, GotoIs
    <3> QED
      BY <3>2, <3>3 DEF Types, ReqOK
  <2>3. session' = session /\ cuts' = cuts /\ Free(req[p].sess, p)
    BY DEF Claim
  <2>4. \A q \in Procs : q # p /\ Rotating(q) => req[q].sess # req[p].sess
    BY <2>3 DEF Free, LockedBy, At, Rotating
  <2>5. LocksHeld'
    BY <1>2, <2>1, <2>2, <2>3, <2>4 DEF Heirs, LocksHeld, Rotating, Live
  <2>6. OneLivePerLogin'
    BY <2>3 DEF Heirs, OneLivePerLogin, Sessions, Live
  <2>7. Overtakes'
    BY <2>1, <2>3, OvertakesStays DEF Heirs, Sessions
  <2> QED
    BY <2>5, <2>6, <2>7 DEF Heirs
<1> QED
  BY <1>1, <1>2 DEF Claim, Rotatable

(* Rows are ended that no rotation has locked. *)
LEMMA EndingKeepsHeirs ==
  ASSUME Types, Heirs, NEW p \in Procs, \A q \in Procs : q # p => req'[q] = req[q],
         req'[p].at # "rotating", Sessions' = Sessions,
         \A i \in Sessions : /\ session'[i].login = session[i].login
                             /\ session'[i].live => session[i].live
                             /\ session[i].live /\ ~session'[i].live => Free(i, p)
  PROVE  OneLivePerLogin' /\ LocksHeld'
<1>1. OneLivePerLogin'
  BY DEF Heirs, OneLivePerLogin, Live
<1>2. LocksHeld'
  <2>1. \A q \in Procs : Rotating(q) => req[q].sess \in Sessions /\ session[req[q].sess].live
    BY DEF Rotating, Types, ReqOK, Fit, Heirs, LocksHeld
  <2>2. \A q \in Procs : Rotating(q) /\ q # p => ~Free(req[q].sess, p)
    BY DEF Free, LockedBy, At, Rotating
  <2>3. \A q \in Procs : Rotating(q)' => q # p /\ Rotating(q) /\ req'[q] = req[q]
    BY DEF Rotating
  <2>4. \A q \in Procs : Rotating(q)' => session'[req'[q].sess].live
    <3> SUFFICES ASSUME NEW q \in Procs, Rotating(q)' PROVE session'[req'[q].sess].live
      OBVIOUS
    <3>1. q # p /\ Rotating(q) /\ req'[q] = req[q]
      BY <2>3
    <3>2. req[q].sess \in Sessions /\ session[req[q].sess].live /\ ~Free(req[q].sess, p)
      BY <2>1, <2>2, <3>1
    <3> QED
      BY <3>1, <3>2
  <2> QED
    BY <2>3, <2>4 DEF Heirs, LocksHeld
<1> QED
  BY <1>1, <1>2

LEMMA EndSessionKeeps == ASSUME Types, Heirs, NEW p \in Procs, EndSession(p) PROVE Heirs'
<1>1. req'[p].at = "idle" /\ \A q \in Procs : q # p => req'[q] = req[q]
  BY Ends DEF EndSession
<1>2. req[p].sess \in Sessions /\ Free(req[p].sess, p) /\ cuts' = cuts
  BY DEF EndSession, At, Types, ReqOK, Fit
<1>3. session' = [session EXCEPT ![req[p].sess].live = FALSE]
  BY DEF EndSession
<1>4. /\ DOMAIN session' = Sessions
      /\ \A j \in Sessions : /\ session'[j].live = (IF j = req[p].sess THEN FALSE ELSE session[j].live)
                             /\ session'[j].until = session[j].until
                             /\ session'[j].login = session[j].login
  BY <1>2, <1>3, EndedRow DEF Types
<1>5. Sessions' = Sessions
  BY <1>4 DEF Sessions
<1>6. OneLivePerLogin' /\ LocksHeld'
  BY ZenonT(60), <1>1, <1>2, <1>4, <1>5, EndingKeepsHeirs
<1>7. Overtakes'
  BY <1>1, <1>2, <1>4, <1>5, OvertakesStays DEF Heirs
<1> QED
  BY <1>6, <1>7 DEF Heirs

(* A revocation chooses every live row that is its to revoke. *)
LEMMA StartKeeps == ASSUME Types, Heirs, NEW p \in Procs, StartRevoking(p) PROVE Heirs'
<1> DEFINE rows == {i \in Sessions : Live(i) /\ (req[p].scope = "account" \/ session[i].dev = req[p].dev)}
           r == [at |-> "revoking", scope |-> req[p].scope, rows |-> rows]
<1>1. req' = [req EXCEPT ![p] = r]
  BY DEF StartRevoking, Types, ReqOK
<1>2. r.at = "revoking" /\ r.scope = req[p].scope /\ r.rows = rows
  OBVIOUS
<1> HIDE DEF r
<1>3. req'[p] = r /\ \A q \in Procs : q # p => req'[q] = req[q]
  BY <1>1 DEF Types, ReqOK
<1>4. session' = session /\ cuts' = cuts /\ Sessions' = Sessions
  BY DEF StartRevoking, Sessions
<1>5. OneLivePerLogin' /\ LocksHeld'
  BY <1>2, <1>3, <1>4, EndingKeepsHeirs
<1>6. Overtakes'
  <2> SUFFICES ASSUME NEW i \in Sessions, session[i].live
               PROVE  cuts + Cardinality(Missing(i)') <= session[i].until
    BY <1>4 DEF Overtakes
  <2>1. req[p].scope = "account" => i \in rows
    BY DEF Live
  <2>2. Missing(i)' \subseteq Missing(i)
    <3> SUFFICES ASSUME NEW q \in Missing(i)' PROVE q \in Missing(i)
      OBVIOUS
    <3>1. q \in Procs /\ req'[q].at = "revoking" /\ req'[q].scope = "account" /\ i \notin req'[q].rows
      BY DEF Missing
    <3>2. q # p
      BY <1>2, <1>3, <2>1, <3>1
    <3> QED
      BY <1>3, <3>1, <3>2 DEF Missing
  <2>3. /\ Cardinality(Missing(i)') <= Cardinality(Missing(i)) /\ Cardinality(Missing(i)') \in Nat
        /\ Cardinality(Missing(i)) \in Nat
    BY <2>2, MissingCounted, FS_Subset, FS_CardinalityType
  <2>4. cuts + Cardinality(Missing(i)) <= session[i].until
    BY DEF Heirs, Overtakes
  <2>5. cuts \in Nat /\ session[i].until \in Nat
    BY RowFields
  <2> QED
    BY <2>3, <2>4, <2>5
<1> QED
  BY <1>5, <1>6 DEF Heirs

(* A revocation that finishes counts as one more, and the rows that it      *)
(* leaves live were missing from it.                                        *)
LEMMA FinishKeeps == ASSUME Types, Heirs, NEW p \in Procs, FinishRevoking(p) PROVE Heirs'
<1>1. req'[p].at = "idle" /\ \A q \in Procs : q # p => req'[q] = req[q]
  BY Ends DEF FinishRevoking
<1>2. session' = [i \in Sessions |-> [session[i] EXCEPT !.live = @ /\ i \notin req[p].rows]]
  BY DEF FinishRevoking
<1>3. session \in [Sessions -> SessionRow]
  BY DEF Types, SessionsOK, Sessions
<1>4. Sessions' = Sessions
  BY <1>2 DEF Sessions
<1>5. ASSUME NEW i \in Sessions
      PROVE  /\ session'[i].live = (session[i].live /\ i \notin req[p].rows)
             /\ session'[i].until = session[i].until /\ session'[i].login = session[i].login
  <2>1. session'[i] = [session[i] EXCEPT !.live = @ /\ i \notin req[p].rows]
    BY <1>2
  <2> QED
    BY <1>3, <2>1 DEF SessionRow
<1>6. \A i \in req[p].rows : Free(i, p)
  BY DEF FinishRevoking
<1>7. OneLivePerLogin' /\ LocksHeld'
  BY <1>1, <1>4, <1>5, <1>6, EndingKeepsHeirs
<1>8. Overtakes'
  <2> SUFFICES ASSUME NEW i \in Sessions, session'[i].live
               PROVE  cuts' + Cardinality(Missing(i)') <= session'[i].until
    BY <1>4 DEF Overtakes
  <2>1. session[i].live /\ i \notin req[p].rows /\ session'[i].until = session[i].until
    BY <1>5
  <2>2. cuts + Cardinality(Missing(i)) <= session[i].until /\ cuts \in Nat /\ session[i].until \in Nat
    BY <2>1, RowFields DEF Heirs, Overtakes
  <2>3. Missing(i)' \subseteq Missing(i) \ {p}
    BY <1>1 DEF Missing
  <2>4. Missing(i)' \subseteq Missing(i)
    BY <2>3
  <2>5. IsFiniteSet(Missing(i)) /\ Cardinality(Missing(i)) \in Nat
    BY MissingCounted
  <2>6. Cardinality(Missing(i)') \in Nat /\ Cardinality(Missing(i)') <= Cardinality(Missing(i))
    BY <2>4, <2>5, FS_Subset, FS_CardinalityType
  <2>7. CASE req[p].scope = "account"
    <3>1. p \in Missing(i) /\ cuts' = cuts + 1
      BY <2>1, <2>7 DEF FinishRevoking, At, Missing
    <3>2. /\ IsFiniteSet(Missing(i) \ {p})
          /\ Cardinality(Missing(i) \ {p}) = Cardinality(Missing(i)) - 1
      BY <2>5, <3>1, FS_RemoveElement
    <3>3. Cardinality(Missing(i)') <= Cardinality(Missing(i)) - 1
      BY <2>3, <3>2, FS_Subset
    <3> QED
      BY <2>1, <2>2, <2>5, <2>6, <3>1, <3>3
  <2>8. CASE req[p].scope # "account"
    <3>1. cuts' = cuts
      BY <2>8 DEF FinishRevoking
    <3> QED
      BY <2>1, <2>2, <2>5, <2>6, <3>1
  <2> QED
    BY <2>7, <2>8
<1> QED
  BY <1>7, <1>8 DEF Heirs

LEMMA HeirsStep == Types /\ Heirs /\ [Next]_vars => Heirs'
<1> SUFFICES ASSUME Types, Heirs, [Next]_vars PROVE Heirs'
  OBVIOUS
<1>1. CASE \E p \in Procs :
         \/ Login(p) \/ LoginFails(p) \/ Rehash(p) \/ AskFactor(p) \/ FindFactor(p) \/ Consume(p)
         \/ LoginSucceeds(p) \/ RegisterDevice(p) \/ Refresh(p) \/ RefreshUser(p) \/ Logout(p)
         \/ ChangePassword(p) \/ ResetPassword(p) \/ Disable(p) \/ Unlink(p)
         \/ WritePassword(p) \/ WriteDisabled(p) \/ WriteUnlinked(p)
         \/ Enroll(p) \/ WriteSecret(p) \/ Confirm(p) \/ WriteConfirmed(p) \/ ReplaceCodes(p)
         \/ TurnOff(p) \/ DeleteFactor(p) \/ Abandon(p)
  BY <1>1, QuietSteps
<1>2. CASE \E p \in Procs : \/ OpenSession(p) \/ Claim(p) \/ Rotate(p) \/ EndSession(p)
                            \/ StartRevoking(p) \/ FinishRevoking(p)
  BY <1>2, OpenKeeps, ClaimKeeps, RotateKeeps, EndSessionKeeps, StartKeeps, FinishKeeps
<1>3. CASE Unlock \/ Enable \/ UNCHANGED vars
  <2>1. req' = req /\ session' = session /\ cuts' = cuts
    BY <1>3 DEF Unlock, Enable, vars
  <2> QED
    BY <2>1 DEF Heirs, OneLivePerLogin, Sessions, Live, LocksHeld, Rotating, Overtakes, Missing
<1>4. CASE \E p \in Procs : MailStep(p)
  BY <1>4, MailQuiet
<1> QED
  BY <1>1, <1>2, <1>3, <1>4 DEF Next, MailStep

LEMMA HeirsInit == Init => Heirs
<1> SUFFICES ASSUME Init PROVE Heirs
  OBVIOUS
<1>1. Sessions = {1} /\ session[1].until = 0 /\ cuts = 0
  BY DEF Init, Sessions
<1>2. \A p \in Procs : req[p].at = "idle"
  BY DEF Init, Idle
<1>3. \A i \in Sessions : Missing(i) = {}
  BY <1>2 DEF Missing
<1>4. OneLivePerLogin
  BY <1>1 DEF OneLivePerLogin
<1>5. LocksHeld
  BY <1>2 DEF LocksHeld, Rotating
<1>6. Overtakes
  BY <1>1, <1>3, FS_EmptySet DEF Overtakes
<1> QED
  BY <1>4, <1>5, <1>6 DEF Heirs

(* Rotation leaves one heir: a login never has two live sessions, however   *)
(* many requests present its refresh token at once (auth.rs, rotate).       *)
THEOREM OneHeir == Spec => []OneLivePerLogin
<1>1. Init => Types /\ Heirs
  BY InitTypes, HeirsInit
<1>2. (Types /\ Heirs) /\ [Next]_vars => (Types /\ Heirs)'
  BY TypeStep, HeirsStep
<1>3. Types /\ Heirs => OneLivePerLogin
  BY DEF Heirs
<1> QED
  BY <1>1, <1>2, <1>3, PTL DEF Spec

(* An account-wide revocation ends every session that was committed when    *)
(* its statement began, and their heirs (auth.rs, revoke_all_for_user).     *)
THEOREM CleanCut == Spec => []CutOff
<1>1. Init => Types /\ Heirs
  BY InitTypes, HeirsInit
<1>2. (Types /\ Heirs) /\ [Next]_vars => (Types /\ Heirs)'
  BY TypeStep, HeirsStep
<1>3. Types /\ Heirs => CutOff
  BY OvertakesGivesCutOff DEF Heirs
<1> QED
  BY <1>1, <1>2, <1>3, PTL DEF Spec
-----------------------------------------------------------------------------
(* What is used up.                                                         *)

(* Requests past the check that may still answer with a wrong credential.   *)
Countable == Guessing \cup {"counting"}
Guessers == {p \in Procs : req[p].at \in Countable}

GuessInv ==
  /\ ~locked => guesses < MaxFailures /\ guesses <= failed
  /\ locked => guesses + Cardinality(Guessers) <= MaxFailures + Cardinality(Procs) - 1

CodesInv ==
  /\ recovery.unused /\ recovery.set \in DOMAIN accepted => accepted[recovery.set] = 0
  /\ \A c \in DOMAIN accepted : c > made.set => accepted[c] = 0
  /\ RecoverySpentOnce

LEMMA GuessersCounted ==
  /\ IsFiniteSet(Guessers) /\ Cardinality(Guessers) \in Nat
  /\ IsFiniteSet(Procs) /\ Cardinality(Procs) \in Nat /\ Cardinality(Guessers) <= Cardinality(Procs)
<1>1. Guessers \subseteq Procs
  BY DEF Guessers
<1> QED
  BY <1>1, AccountAssumption, FS_Subset, FS_CardinalityType DEF AccountAssumption

LEMMA FewerGuessers ==
  ASSUME Guessers' \subseteq Guessers
  PROVE  Cardinality(Guessers)' \in Nat /\ Cardinality(Guessers)' <= Cardinality(Guessers)
BY GuessersCounted, FS_Subset, FS_CardinalityType

LEMMA GuessTypes ==
  ASSUME Types
  PROVE  guesses \in Nat /\ failed \in Nat /\ failed <= MaxFailures /\ MaxFailures \in Nat /\ MaxFailures > 0
<1>1. MaxFailures \in Nat \ {0} /\ failed \in 0 .. MaxFailures /\ guesses \in Nat
  BY AccountAssumption DEF AccountAssumption, Types, UsersOK
<1> QED
  BY <1>1

(* A step that answers no guess and lets none past the check.               *)
LEMMA GuessStays ==
  ASSUME Types, GuessInv, UNCHANGED <<guesses, failed, locked>>, locked => Guessers' \subseteq Guessers
  PROVE  GuessInv'
<1>1. CASE ~locked
  BY <1>1 DEF GuessInv
<1>2. CASE locked
  <2>1. guesses + Cardinality(Guessers) <= MaxFailures + Cardinality(Procs) - 1
    BY <1>2 DEF GuessInv
  <2>2. Cardinality(Guessers)' \in Nat /\ Cardinality(Guessers)' <= Cardinality(Guessers)
    BY <1>2, FewerGuessers
  <2>3. guesses + Cardinality(Guessers)' <= MaxFailures + Cardinality(Procs) - 1
    BY <2>1, <2>2, GuessersCounted, GuessTypes
  <2> QED
    BY <1>2, <2>3 DEF GuessInv
<1> QED
  BY <1>1, <1>2

LEMMA LoginFailsCounts == ASSUME Types, GuessInv, NEW p \in Procs, LoginFails(p) PROVE GuessInv'
<1>1. req'[p].at = "idle" /\ \A q \in Procs : q # p => req'[q] = req[q]
  BY Ends DEF LoginFails
<1>2. p \in Guessers /\ Guessers' \subseteq Guessers \ {p}
  BY <1>1 DEF LoginFails, At, Guessers, Countable, Guessing
<1>3. IsFiniteSet(Guessers \ {p}) /\ Cardinality(Guessers \ {p}) = Cardinality(Guessers) - 1
  BY <1>2, GuessersCounted, FS_RemoveElement
<1>4. Cardinality(Guessers') \in Nat /\ Cardinality(Guessers') <= Cardinality(Guessers) - 1
  BY <1>2, <1>3, FS_Subset, FS_CardinalityType
<1>5. /\ failed' = (IF failed < MaxFailures THEN failed + 1 ELSE failed)
      /\ guesses' = guesses + 1
      /\ locked' = (locked \/ failed + 1 >= MaxFailures)
  BY DEF LoginFails
<1>6. ASSUME ~locked' PROVE guesses' < MaxFailures /\ guesses' <= failed'
  <2>1. ~locked /\ ~(failed + 1 >= MaxFailures)
    BY <1>5, <1>6
  <2>2. guesses <= failed
    BY <2>1 DEF GuessInv
  <2> QED
    BY <1>5, <2>1, <2>2, GuessTypes
<1>7. ASSUME locked' PROVE guesses' + Cardinality(Guessers') <= MaxFailures + Cardinality(Procs) - 1
  <2>1. CASE locked
    <3>1. guesses + Cardinality(Guessers) <= MaxFailures + Cardinality(Procs) - 1
      BY <2>1 DEF GuessInv
    <3> QED
      BY <1>4, <1>5, <3>1, GuessTypes, GuessersCounted
  <2>2. CASE ~locked
    <3>1. guesses < MaxFailures
      BY <2>2 DEF GuessInv
    <3> QED
      BY <1>4, <1>5, <3>1, GuessTypes, GuessersCounted
  <2> QED
    BY <2>1, <2>2
<1> QED
  BY <1>6, <1>7 DEF GuessInv

LEMMA GuessStep == Types /\ GuessInv /\ [Next]_vars => GuessInv'
<1> SUFFICES ASSUME Types, GuessInv, [Next]_vars PROVE GuessInv'
  OBVIOUS
<1>1. ASSUME NEW p \in Procs, LoginSucceeds(p) \/ Unlock PROVE GuessInv'
  <2>1. guesses' = 0 /\ locked' = FALSE /\ failed' \in Nat
    BY <1>1, GuessTypes DEF LoginSucceeds, Unlock
  <2>2. 0 < MaxFailures /\ 0 <= failed'
    BY <2>1, GuessTypes
  <2> QED
    BY <2>1, <2>2 DEF GuessInv
<1>2. ASSUME NEW p \in Procs, LoginFails(p) PROVE GuessInv'
  BY <1>2, LoginFailsCounts
<1>3. ASSUME NEW p \in Procs, Login(p) PROVE GuessInv'
  <2>1. ~locked /\ UNCHANGED <<guesses, failed, locked>>
    BY <1>3 DEF Login, LoginAllowed, users
  <2> QED
    BY <2>1 DEF GuessInv
<1>4. ASSUME NEW p \in Procs,
             Rehash(p) \/ AskFactor(p) \/ FindFactor(p) \/ Consume(p) \/ RegisterDevice(p)
      PROVE  GuessInv'
  <2>1. UNCHANGED <<guesses, failed, locked>>
    BY <1>4 DEF Rehash, AskFactor, FindFactor, Consume, RegisterDevice, users
  <2>2. \/ End(p)
        \/ req[p].at \in Guessing /\ \E place \in LoginPlaces : Goto(p, place)
        \/ Goto(p, "open")
    BY <1>4 DEF Rehash, AskFactor, FindFactor, Consume, RegisterDevice, At, Guessing, LoginPlaces
  <2>3. (req'[p].at \in Countable => req[p].at \in Countable) /\ \A q \in Procs : q # p => req'[q] = req[q]
    <3>1. CASE End(p)
      BY <3>1, Ends DEF Countable, Guessing
    <3>2. CASE req[p].at \in Guessing /\ \E place \in LoginPlaces : Goto(p, place)
      BY <3>2, GoesTo DEF Countable
    <3>3. CASE Goto(p, "open")
      BY <3>3, GoesTo DEF Countable, Guessing
    <3> QED
      BY <2>2, <3>1, <3>2, <3>3
  <2>4. Guessers' \subseteq Guessers
    BY <2>3 DEF Guessers
  <2> QED
    BY <2>1, <2>4, GuessStays
<1>5. ASSUME NEW p \in Procs,
             \/ OpenSession(p) \/ RefreshUser(p) \/ Claim(p) \/ Rotate(p) \/ EndSession(p)
             \/ WritePassword(p) \/ WriteDisabled(p) \/ WriteUnlinked(p) \/ FinishRevoking(p)
             \/ WriteSecret(p) \/ WriteConfirmed(p) \/ ReplaceCodes(p) \/ DeleteFactor(p) \/ Abandon(p)
      PROVE  GuessInv'
  <2>1. UNCHANGED <<guesses, failed, locked>>
    BY <1>5 DEF OpenSession, RefreshUser, Claim, Rotate, EndSession, WritePassword, WriteDisabled,
                WriteUnlinked, FinishRevoking, WriteSecret, WriteConfirmed, ReplaceCodes, DeleteFactor,
                Abandon, users
  <2>2. End(p) \/ \E place \in {"claim", "rotating", "revoke", "codes"} : Goto(p, place)
    BY <1>5 DEF OpenSession, RefreshUser, Claim, Rotate, EndSession, WritePassword, WriteDisabled,
                WriteUnlinked, FinishRevoking, WriteSecret, WriteConfirmed, ReplaceCodes, DeleteFactor, Abandon
  <2>3. req'[p].at \notin Countable /\ \A q \in Procs : q # p => req'[q] = req[q]
    <3>1. CASE End(p)
      BY <3>1, Ends DEF Countable, Guessing
    <3>2. CASE \E place \in {"claim", "rotating", "revoke", "codes"} : Goto(p, place)
      BY <3>2, GoesTo DEF Countable, Guessing
    <3> QED
      BY <2>2, <3>1, <3>2
  <2>4. Guessers' \subseteq Guessers
    BY <2>3 DEF Guessers
  <2> QED
    BY <2>1, <2>4, GuessStays
<1>6. ASSUME NEW p \in Procs,
             \/ Refresh(p) \/ Logout(p) \/ ChangePassword(p) \/ ResetPassword(p) \/ Disable(p) \/ Unlink(p)
             \/ Enroll(p) \/ Confirm(p) \/ TurnOff(p)
      PROVE  GuessInv'
  <2>1. UNCHANGED <<guesses, failed, locked>>
    BY <1>6 DEF Refresh, Logout, ChangePassword, ResetPassword, Disable, Unlink, Enroll, Confirm, TurnOff, users
  <2>2. \E r : Begin(p, r) /\ r.at \notin Countable
    <3>1. CASE Refresh(p)
      <4>1. PICK i \in Sessions :
              Begin(p, [at |-> IF Live(i) THEN "user" ELSE "revoke", sess |-> i, scope |-> "account"])
        BY <3>1 DEF Refresh
      <4> DEFINE r == [at |-> IF Live(i) THEN "user" ELSE "revoke", sess |-> i, scope |-> "account"]
      <4>2. Begin(p, r) /\ r.at \notin Countable
        BY <4>1 DEF Countable, Guessing
      <4> QED
        BY <4>2
    <3>2. CASE ~Refresh(p)
      <4>1. \/ \E i : Begin(p, [at |-> "logout", sess |-> i])
            \/ \E d : Begin(p, [at |-> "unlink", scope |-> "device", dev |-> d])
            \/ \E place \in {"password", "disable"} : Begin(p, [at |-> place, scope |-> "account"])
            \/ \E place \in {"enroll", "confirm", "off"} : Begin(p, [at |-> place])
        BY <1>6, <3>2 DEF Logout, ChangePassword, ResetPassword, Disable, Unlink, Enroll, Confirm, TurnOff
      <4>2. /\ \A i : [at |-> "logout", sess |-> i].at = "logout"
            /\ \A d : [at |-> "unlink", scope |-> "device", dev |-> d].at = "unlink"
            /\ \A place : [at |-> place, scope |-> "account"].at = place
            /\ \A place : [at |-> place].at = place
        OBVIOUS
      <4> QED
        BY <4>1, <4>2 DEF Countable, Guessing
    <3> QED
      BY <3>1, <3>2
  <2>3. req'[p].at \notin Countable /\ \A q \in Procs : q # p => req'[q] = req[q]
    BY <2>2, Begins
  <2>4. Guessers' \subseteq Guessers
    BY <2>3 DEF Guessers
  <2> QED
    BY <2>1, <2>4, GuessStays
<1>7. ASSUME NEW p \in Procs, StartRevoking(p) PROVE GuessInv'
  <2>1. /\ UNCHANGED <<guesses, failed, locked>>
        /\ req'[p].at = "revoking" /\ \A q \in Procs : q # p => req'[q] = req[q]
    BY <1>7 DEF StartRevoking, users, Types, ReqOK
  <2>2. Guessers' \subseteq Guessers
    BY <2>1 DEF Guessers, Countable, Guessing
  <2> QED
    BY <2>1, <2>2, GuessStays
<1>8. CASE Unlock
  <2>1. guesses' = 0 /\ locked' = FALSE /\ failed' = failed
    BY <1>8 DEF Unlock
  <2>2. 0 < MaxFailures /\ 0 <= failed'
    BY <2>1, GuessTypes
  <2> QED
    BY <2>1, <2>2 DEF GuessInv
<1>9. CASE Enable \/ UNCHANGED vars
  <2>1. req' = req /\ UNCHANGED <<guesses, failed, locked>>
    BY <1>9 DEF Enable, vars, users
  <2>2. Guessers' \subseteq Guessers
    BY <2>1 DEF Guessers
  <2> QED
    BY <2>1, <2>2, GuessStays
<1>10. ASSUME NEW p \in Procs, MailStep(p) PROVE GuessInv'
  <2>1. CASE failed' = 0 /\ locked' = FALSE /\ guesses' = 0
    <3>1. 0 < MaxFailures
      BY GuessTypes
    <3> QED
      BY <2>1, <3>1 DEF GuessInv
  <2>2. CASE UNCHANGED <<failed, locked, guesses>>
    <3>1. locked => Guessers' \subseteq Guessers
      <4>1. /\ req'[p].at \in {"idle", "counting", "gate", "noting", "success"}
            /\ req'[p].at = "counting" => ~locked
            /\ \A q \in Procs : q # p => req'[q] = req[q]
        BY <1>10, MailAt
      <4> QED
        BY <4>1 DEF Guessers, Countable, Guessing
    <3> QED
      BY <2>2, <3>1, GuessStays
  <2> QED
    BY <1>10, <2>1, <2>2, MailLeaves
<1> QED
  BY <1>1, <1>2, <1>3, <1>4, <1>5, <1>6, <1>7, <1>8, <1>9, <1>10 DEF Next, MailStep

LEMMA CodesStep == Types /\ CodesInv /\ [Next]_vars => CodesInv'
<1> SUFFICES ASSUME Types, CodesInv, [Next]_vars PROVE CodesInv'
  OBVIOUS
<1>0. /\ accepted \in [1 .. (MaxRequests + 1) -> Nat] /\ made.set \in Nat /\ recovery.set \in 0 .. made.set
      /\ DOMAIN accepted = 1 .. (MaxRequests + 1) /\ DOMAIN accepted \subseteq Nat
  BY DEF Types, FactorsOK, RestOK
<1>1. ASSUME NEW p \in Procs, Consume(p) PROVE CodesInv'
  <2>1. CASE UNCHANGED <<recovery, accepted>>
    BY <1>1, <2>1 DEF Consume, CodesInv, RecoverySpentOnce
  <2>2. CASE /\ Spendable(req[p].factor)
             /\ recovery' = [recovery EXCEPT !.unused = FALSE]
             /\ accepted' = [accepted EXCEPT ![recovery.set] = @ + 1]
    <3>1. recovery.unused /\ recovery' = [recovery EXCEPT !.unused = FALSE] /\ made' = made
      BY <1>1, <2>2 DEF Spendable, Consume
    <3>2. recovery'.unused = FALSE
      BY <3>1 DEF Types, FactorsOK
    <3>3. /\ DOMAIN accepted' = DOMAIN accepted
          /\ \A c \in DOMAIN accepted : accepted'[c] = IF c = recovery.set THEN accepted[c] + 1 ELSE accepted[c]
      BY <1>0, <2>2
    <3>4. ASSUME NEW c \in DOMAIN accepted PROVE (c > made.set => accepted'[c] = 0) /\ accepted'[c] <= 1
      <4>1. c > made.set => c # recovery.set
        BY <1>0
      <4>2. c = recovery.set => accepted[c] = 0
        BY <3>1, <3>4 DEF CodesInv
      <4>3. (c > made.set => accepted[c] = 0) /\ accepted[c] <= 1
        BY <3>4 DEF CodesInv, RecoverySpentOnce
      <4> QED
        BY <3>3, <4>1, <4>2, <4>3
    <3> QED
      BY <3>1, <3>2, <3>3, <3>4 DEF CodesInv, RecoverySpentOnce
  <2> QED
    BY <1>1, <2>1, <2>2 DEF Consume
<1>2. ASSUME NEW p \in Procs, ReplaceCodes(p) PROVE CodesInv'
  <2>1. accepted' = accepted /\ recovery' = [set |-> made.set + 1, unused |-> TRUE] /\ made'.set = made.set + 1
    BY <1>2 DEF ReplaceCodes, Types, RestOK
  <2>2. recovery'.set \in DOMAIN accepted' => accepted'[recovery'.set] = 0
    <3>1. recovery'.set = made.set + 1 /\ made.set + 1 > made.set
      BY <1>0, <2>1
    <3> QED
      BY <2>1, <3>1 DEF CodesInv
  <2>3. \A c \in DOMAIN accepted' : c > made'.set => accepted'[c] = 0
    <3>1. \A c \in DOMAIN accepted : c > made'.set => c > made.set
      BY <1>0, <2>1
    <3> QED
      BY <2>1, <3>1 DEF CodesInv
  <2> QED
    BY <2>1, <2>2, <2>3 DEF CodesInv, RecoverySpentOnce
<1>3. ASSUME NEW p \in Procs, DeleteFactor(p) PROVE CodesInv'
  BY <1>3 DEF DeleteFactor, CodesInv, RecoverySpentOnce
<1>4. CASE UNCHANGED <<recovery, accepted>> /\ made'.set = made.set
  BY <1>4 DEF CodesInv, RecoverySpentOnce
<1>5. ASSUME NEW p \in Procs, WritePassword(p) \/ WriteSecret(p)
      PROVE  UNCHANGED <<recovery, accepted>> /\ made'.set = made.set
  BY <1>5 DEF WritePassword, WriteSecret, factors, Types, RestOK
<1>6. ASSUME NEW p \in Procs,
             \/ Login(p) \/ LoginFails(p) \/ Rehash(p) \/ AskFactor(p) \/ FindFactor(p)
             \/ LoginSucceeds(p) \/ RegisterDevice(p) \/ OpenSession(p)
             \/ Refresh(p) \/ RefreshUser(p) \/ Claim(p) \/ Rotate(p) \/ Logout(p) \/ EndSession(p)
             \/ ChangePassword(p) \/ ResetPassword(p) \/ Disable(p) \/ Unlink(p)
             \/ WriteDisabled(p) \/ WriteUnlinked(p) \/ StartRevoking(p) \/ FinishRevoking(p)
             \/ Enroll(p) \/ Confirm(p) \/ WriteConfirmed(p) \/ TurnOff(p) \/ Abandon(p)
      PROVE  UNCHANGED <<recovery, accepted, made>>
  BY <1>6 DEF Login, LoginFails, Rehash, AskFactor, FindFactor, LoginSucceeds, RegisterDevice, OpenSession,
              Refresh, RefreshUser, Claim, Rotate, Logout, EndSession, ChangePassword, ResetPassword,
              Disable, Unlink, WriteDisabled, WriteUnlinked, StartRevoking, FinishRevoking, Enroll,
              Confirm, WriteConfirmed, TurnOff, Abandon, factors
<1>7. CASE Unlock \/ Enable \/ UNCHANGED vars
  BY <1>4, <1>7 DEF Unlock, Enable, vars, factors
<1>8. ASSUME NEW p \in Procs, MailStep(p) PROVE UNCHANGED <<recovery, accepted, made>>
  BY <1>8, MailLeaves DEF factors
<1> QED
  BY <1>1, <1>2, <1>3, <1>4, <1>5, <1>6, <1>7, <1>8 DEF Next, MailStep

LEMMA SpentInit == Init => GuessInv /\ CodesInv
<1> SUFFICES ASSUME Init PROVE GuessInv /\ CodesInv
  OBVIOUS
<1>1. locked = FALSE /\ guesses = 0 /\ failed = 0 /\ MaxFailures > 0
  BY InitTypes, GuessTypes DEF Init
<1>2. GuessInv
  BY <1>1 DEF GuessInv
<1>3. DOMAIN accepted = 1 .. (MaxRequests + 1) /\ \A c \in DOMAIN accepted : accepted[c] = 0
  BY DEF Init
<1>4. CodesInv
  BY <1>3 DEF CodesInv, RecoverySpentOnce
<1> QED
  BY <1>2, <1>4

LEMMA SpentGivesSpentOnce == Types /\ GuessInv /\ CodesInv => SpentOnce
<1> SUFFICES ASSUME Types, GuessInv, CodesInv PROVE SpentOnce
  OBVIOUS
<1>1. GuessesBounded
  <2>1. CASE locked
    BY <2>1, GuessersCounted, GuessTypes DEF GuessInv, GuessesBounded
  <2>2. CASE ~locked
    BY <2>2, GuessersCounted, GuessTypes DEF GuessInv, GuessesBounded
  <2> QED
    BY <2>1, <2>2
<1> QED
  BY <1>1, TypesGiveTypeOK DEF SpentOnce, CodesInv

(* Between two lock-outs no more wrong credentials are answered by the      *)
(* checks that count them than the limit and the requests already past the  *)
(* check, and a recovery code lets one login in (service.rs,                *)
(* login_with_factor; ferroma-imap auth.rs; mfa.rs, consume).               *)
THEOREM UsedUpOnce == Spec => []SpentOnce
<1>1. Init => Types /\ GuessInv /\ CodesInv
  BY InitTypes, SpentInit
<1>2. (Types /\ GuessInv /\ CodesInv) /\ [Next]_vars => (Types /\ GuessInv /\ CodesInv)'
  BY TypeStep, GuessStep, CodesStep
<1>3. Types /\ GuessInv /\ CodesInv => SpentOnce
  BY SpentGivesSpentOnce
<1> QED
  BY <1>1, <1>2, <1>3, PTL DEF Spec
=============================================================================
