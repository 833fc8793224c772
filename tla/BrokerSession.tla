--------------------------- MODULE BrokerSession ---------------------------
(***************************************************************************)
(* The session of the gateway with the broker: login, the file of tokens   *)
(* and codes (src/gateway/brokers/shoonya/_token_cache.py, adapter.py) and *)
(* the requests that connect, disconnect and log in again                  *)
(* (src/gateway/app/routers/legacy_auth.py).  The requests of one account  *)
(* run in threads; every change of the file is a read and a later write,   *)
(* and nothing holds a lock.                                               *)
(*                                                                         *)
(* A token is known by what it is worth: "live" is the one the broker      *)
(* honours, "dead" one of today it does not, "old" one of an earlier day.  *)
(* A code is known by the request whose browser login obtained it; the     *)
(* broker takes each code once.                                            *)
(***************************************************************************)
EXTENDS Integers

CONSTANTS Requests, MaxMishaps   \* bound on ended sessions, failures, overlaps, disconnects

ASSUME SessionAssumption == MaxMishaps \in Nat

Absent == "none"
Tokens == {Absent, "live", "dead", "old"}
Codes == Requests \cup {Absent, "spent", "old"}

VARIABLES
  file,      \* token_store.json: the entry of the account
  auth,      \* the token of the _auth singleton
  req,       \* each request: what it is doing and what it holds
  mishaps

sessionVars == <<file, auth, req, mishaps>>

NoEntry == [token |-> Absent, code |-> Absent]
NoWork == [job |-> Absent, at |-> "idle", again |-> FALSE, snap |-> NoEntry,
           code |-> Absent, token |-> Absent]
SessionInit ==
  /\ file = NoEntry /\ auth = Absent /\ req = [r \in Requests |-> NoWork] /\ mishaps = 0

-----------------------------------------------------------------------------
\* The file

Writing == {"dropped", "minted", "kept", "cleared"}
\* load: the file, or, while another request writes it, nothing
Loads(r) == {file} \cup (IF \E q \in Requests \ {r} : req[q].at \in Writing THEN {NoEntry} ELSE {})

Turns(r, s) == req' = [req EXCEPT ![r] = s]
Goes(r, at) == Turns(r, [req[r] EXCEPT !.at = at])
Ends(r) == Turns(r, NoWork)

\* the read of a read-modify-write
ReadsFor(r, from, to, change(_)) ==
  /\ req[r].at = from
  /\ \E f \in Loads(r) : Turns(r, [req[r] EXCEPT !.at = to, !.snap = change(f)])
  /\ UNCHANGED <<file, auth, mishaps>>
\* and the write
Writes(r, from, to) ==
  /\ req[r].at = from /\ file' = req[r].snap
  /\ Turns(r, [req[r] EXCEPT !.at = to, !.snap = NoEntry])
  /\ UNCHANGED <<auth, mishaps>>

-----------------------------------------------------------------------------
\* Requests

\* A request that overlaps another, and a connect with a session already held,
\* happen a bounded number of times
Overlaps(r) == \E q \in Requests \ {r} : req[q].at # "idle"
Counted(bounded) ==
  IF bounded THEN mishaps < MaxMishaps /\ mishaps' = mishaps + 1 ELSE UNCHANGED mishaps

\* user_details_legacy: the details, with the token that is held
UserAsks(r) ==
  /\ req[r].at = "idle" /\ auth # Absent /\ Counted(Overlaps(r))
  /\ Turns(r, [NoWork EXCEPT !.job = "user", !.at = "details", !.token = auth])
  /\ UNCHANGED <<file, auth>>
\* a token that is not honoured is an error of the session: once per request the
\* user is logged in again
DetailsAnswer(r) ==
  /\ req[r].at = "details"
  /\ IF req[r].token # "live" /\ req[r].job = "user" THEN Goes(r, "drop") ELSE Ends(r)
  /\ UNCHANGED <<file, auth, mishaps>>
\* connect_legacy
ConnectAsks(r) ==
  /\ req[r].at = "idle" /\ Counted(Overlaps(r) \/ auth # Absent)
  /\ Turns(r, [NoWork EXCEPT !.job = "connect", !.at = "login"])
  /\ UNCHANGED <<file, auth>>

\* The broker honours one session: these are the references to it once it has
\* ended, and to the codes once r has a new one or its code is spent
Worth(t) == IF t = "live" THEN "dead" ELSE t
SpentBy(c, r) == IF c = r THEN "spent" ELSE c
EntryAfter(f, w(_), c(_)) == [token |-> w(f.token), code |-> c(f.code)]
After(w(_), c(_)) ==
  /\ file' = EntryAfter(file, w, c) /\ auth' = w(auth)
Others(w(_), c(_)) ==
  [q \in Requests |-> [req[q] EXCEPT !.snap = EntryAfter(@, w, c), !.code = c(@), !.token = w(@)]]

\* refreshSession: invalidate_session, then login
KeepsCached(r) == ReadsFor(r, "drop", "dropped", LAMBDA f : f)  \* mutant: drops nothing
DropRead(r) == ReadsFor(r, "drop", "dropped", LAMBDA f : [f EXCEPT !.token = Absent])
DropWrite(r) == Writes(r, "dropped", "login")
\* get_cached_session
CachedToday(f) == IF f.token \in {"live", "dead"} THEN f.token ELSE Absent
\* _login_sync: the cached token, if it is of today; nobody asks the broker
Login(r) ==
  /\ req[r].at = "login"
  /\ \E f \in Loads(r) :
       IF CachedToday(f) # Absent
       THEN Turns(r, [req[r] EXCEPT !.at = "take", !.token = f.token])
       ELSE Goes(r, "code")
  /\ UNCHANGED <<file, auth, mishaps>>
\* a cached code of today, or a login in the browser
CachedCode(r) ==
  /\ req[r].at = "code"
  /\ \E f \in Loads(r) :
       IF f.code \in {Absent, "old"} THEN Goes(r, "browser")
       ELSE Turns(r, [req[r] EXCEPT !.at = "exchange", !.code = f.code])
  /\ UNCHANGED <<file, auth, mishaps>>
Same(t) == t
BrowserLogin(r) ==
  LET spent(c) == SpentBy(c, r)
  IN
  /\ req[r].at = "browser"
  /\ After(Same, spent)
  /\ req' = [Others(Same, spent) EXCEPT ![r].at = "mint", ![r].code = r]
  /\ UNCHANGED mishaps
\* cache_oauth_code
MintRead(r) == ReadsFor(r, "mint", "minted", LAMBDA f : [f EXCEPT !.code = req[r].code])
MintWrite(r) == Writes(r, "minted", "exchange")

\* /GenAcsTok: the code is worth a token, which ends the session before it.  The
\* answer may be lost.
Exchange(r, heard) ==
  LET c == req[r].code
      spent(x) == SpentBy(x, c)
  IN
  /\ req[r].at = "exchange" /\ c # "spent"
  /\ After(Worth, spent)
  /\ IF heard
     THEN req' = [Others(Worth, spent) EXCEPT ![r].at = "keep", ![r].token = "live"]
          /\ UNCHANGED mishaps
     ELSE req' = [Others(Worth, spent) EXCEPT ![r] = NoWork]
          /\ mishaps < MaxMishaps /\ mishaps' = mishaps + 1
\* a used code is refused, another may be; after the first used one a new code
\* is tried
ExchangeRefused(r) ==
  LET used == req[r].code = "spent" IN
  /\ req[r].at = "exchange"
  /\ used \/ mishaps < MaxMishaps
  /\ mishaps' = IF used THEN mishaps ELSE mishaps + 1
  /\ Turns(r, [req[r] EXCEPT !.at = "clear", !.again = used /\ ~@,
                               !.job = IF used /\ ~req[r].again THEN @ ELSE Absent])
  /\ UNCHANGED <<file, auth>>
\* invalidate_oauth_code
ClearRead(r) == ReadsFor(r, "clear", "cleared", LAMBDA f : [f EXCEPT !.code = Absent])
ClearWrite(r) ==
  /\ req[r].at = "cleared" /\ file' = req[r].snap
  /\ IF req[r].job = Absent THEN Ends(r)
     ELSE Turns(r, [req[r] EXCEPT !.at = "code", !.snap = NoEntry, !.code = Absent])
  /\ UNCHANGED <<auth, mishaps>>

\* cache_session
KeepRead(r) == ReadsFor(r, "keep", "kept", LAMBDA f : [f EXCEPT !.token = req[r].token])
KeepWrite(r) == Writes(r, "kept", "take")
\* _auth becomes the session; the user's request asks a second time
Takes(r) ==
  /\ req[r].at = "take" /\ auth' = req[r].token
  /\ IF req[r].job = "user"
     THEN Turns(r, [NoWork EXCEPT !.job = "second", !.at = "details", !.token = auth'])
     ELSE Ends(r)
  /\ UNCHANGED <<file, mishaps>>

\* a call or the browser fails, or an answer of the details is lost
Fails(r) ==
  /\ req[r].at \in {"details", "browser", "exchange"}
  /\ mishaps < MaxMishaps /\ mishaps' = mishaps + 1
  /\ Ends(r) /\ UNCHANGED <<file, auth>>
\* disconnect_legacy logs the token out and keeps the file
LogsOff ==
  /\ auth # Absent /\ mishaps < MaxMishaps /\ mishaps' = mishaps + 1
  /\ LET w(t) == IF auth = "live" THEN Worth(t) ELSE t
     IN file' = EntryAfter(file, w, Same) /\ req' = Others(w, Same)
  /\ auth' = Absent
\* The user logs in elsewhere, or a night passes
SessionEnds ==
  /\ mishaps < MaxMishaps /\ mishaps' = mishaps + 1
  /\ After(Worth, Same) /\ req' = Others(Worth, Same)
Night ==
  LET old(t) == IF t = Absent THEN Absent ELSE "old"
  IN
  /\ mishaps < MaxMishaps /\ mishaps' = mishaps + 1
  /\ After(old, old)
  /\ req' = [q \in Requests |-> [req[q] EXCEPT !.snap = EntryAfter(@, old, old),
               !.code = IF @ = Absent THEN Absent ELSE "spent", !.token = old(@)]]

\* The gateway dies, perhaps in the middle of a write, and starts again: with
\* GATEWAY_AUTO_RECONNECT the cached token of today becomes the session
Restart ==
  /\ mishaps < MaxMishaps /\ mishaps' = mishaps + 1
  /\ \E f \in UNION {Loads(r) : r \in Requests} : file' = f /\ auth' \in {Absent, CachedToday(f)}
  /\ req' = [r \in Requests |-> NoWork]

Works(r) ==
  \/ DetailsAnswer(r) \/ DropRead(r) \/ DropWrite(r) \/ Login(r) \/ CachedCode(r)
  \/ BrowserLogin(r) \/ MintRead(r) \/ MintWrite(r) \/ Exchange(r, TRUE) \/ ExchangeRefused(r)
  \/ ClearRead(r) \/ ClearWrite(r) \/ KeepRead(r) \/ KeepWrite(r) \/ Takes(r)
SessionNext ==
  \/ LogsOff \/ SessionEnds \/ Night \/ Restart
  \/ \E r \in Requests : UserAsks(r) \/ ConnectAsks(r) \/ Works(r) \/ Fails(r) \/ Exchange(r, FALSE)

\* Requests are answered; the user connects when disconnected, and the page keeps
\* asking for the details.
SessionFairness ==
  /\ \A r \in Requests : WF_sessionVars(Works(r))
  /\ WF_sessionVars(\E r \in Requests : UserAsks(r))
  /\ WF_sessionVars(auth = Absent /\ \E r \in Requests : ConnectAsks(r))
SessionSpec == SessionInit /\ [][SessionNext]_sessionVars /\ SessionFairness

-----------------------------------------------------------------------------
SessionTypeOK ==
  /\ file \in [token : Tokens, code : Codes] /\ auth \in Tokens
  /\ \A r \in Requests : req[r].token \in Tokens /\ req[r].code \in Codes

\* However requests race for the file and for the one session the broker grants,
\* and whatever is lost or dies: after any request, once the mishaps are over, the gateway
\* comes to hold the token the broker honours, and keeps it.
SessionHeals == (\E r \in Requests : req[r].at # "idle") ~> [](auth = "live")
=============================================================================
