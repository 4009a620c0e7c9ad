------------------------------ MODULE Accounts ------------------------------
(***************************************************************************)
(* Accounts and sessions (app/api/main.py, auth.py, db.py): signup, login, *)
(* logout, requests that write a row for the signed-in user, the limited   *)
(* resolution of company names, and the erasure of an account.  Requests   *)
(* run in threads of their own; each transaction is a step.                *)
(*                                                                         *)
(* Abstracted: a password is right or wrong as the environment chooses;    *)
(* tokens are never guessed; the tables of a user are two, one that        *)
(* delete_user_account empties (the watchlist) and one that it does not    *)
(* (the portfolio).  Jobs and their files belong to ResearchJobs.          *)
(***************************************************************************)
EXTENDS Naturals, FiniteSets

CONSTANTS
  Emails,
  Users,      \* bound: accounts that ever exist; an id is never used twice
  Tokens,     \* bound: sessions that ever exist
  Requests,   \* bound: requests under way at one time
  None,
  SessionTTL, \* SESSION_TTL_SECONDS in ticks
  Window,     \* RATE_LIMIT_WINDOW_SECONDS in ticks
  Limit,      \* TICKER_RESOLUTION_RATE_LIMIT
  MaxClock    \* bound: ticks of the clock

VARIABLES
  \* tables
  accounts,  \* users: rows of id and email
  sessions,  \* rows of token, user and expiry
  rows,      \* rows of user and table
  attempts,  \* ticker_resolution_attempts, numbered per user
  \* requests
  request,
  \* history
  used,      \* ids and tokens handed out so far
  erased,    \* erased accounts
  overtaken, \* requests of an account that were under way when it was erased, or came by a stray
  strays,    \* tokens of sessions that such requests opened
  late,      \* rows that such requests stored
  answers,   \* kinds of answers given to signups
  clock

erasure == <<erased, overtaken, strays, late>>
vars == <<accounts, sessions, rows, attempts, request, used, erasure, answers, clock>>

EmptiedTables == {"watchlist"}
KeptTables == {"portfolio"}
TableNames == EmptiedTables \cup KeptTables
Kinds == {"signup", "login", "delete", "write", "resolve"}
Idle == [kind |-> "idle", email |-> None, user |-> None, table |-> None, since |-> 0]
SigningUp(e) == [kind |-> "signup", email |-> e, user |-> None, table |-> None, since |-> 0]
SigningIn(u) == [kind |-> "login", email |-> None, user |-> u, table |-> None, since |-> 0]

TypeOK ==
  /\ accounts \subseteq [id : Users, email : Emails]
  /\ sessions \subseteq [token : Tokens, user : Users, expires : 0..(MaxClock + SessionTTL)]
  /\ rows \subseteq Users \X TableNames
  /\ attempts \subseteq [user : Users, at : 0..MaxClock, no : Nat \ {0}]
  /\ request \in [Requests -> {Idle} \cup
       [kind : Kinds, email : Emails \cup {None}, user : Users \cup {None},
        table : TableNames \cup {None}, since : 0..MaxClock]]
  /\ used \subseteq Users \cup Tokens
  /\ erased \subseteq Users /\ overtaken \subseteq Requests
  /\ strays \subseteq Tokens /\ late \subseteq Users \X TableNames
  /\ answers \subseteq {"ok", "taken", "failed"}
  /\ clock \in 0..MaxClock

Init ==
  /\ accounts = {} /\ sessions = {} /\ rows = {}
  /\ attempts = {}
  /\ request = [q \in Requests |-> Idle]
  /\ used = {} /\ answers = {}
  /\ erased = {} /\ overtaken = {} /\ strays = {} /\ late = {}
  /\ clock = 0

AccountOf(e) == {a \in accounts : a.email = e}
Become(q, r) == request' = [request EXCEPT ![q] = r]
End(q) == Become(q, Idle) /\ overtaken' = overtaken \ {q}

\* get_session: the row of the token, if it has not expired.
SessionsOf(u) == {s \in sessions : s.user = u /\ s.expires >= clock}

-----------------------------------------------------------------------------
(* Signing up, in and out.  A definition called a variant is deliberately       *)
(* wrong: it belongs to no behaviour and shows which property such a bug breaks. *)

\* The check of the email; the password is hashed after it.
Signup(q, e) ==
  /\ request[q] = Idle
  /\ IF AccountOf(e) # {}
       THEN answers' = answers \cup {"taken"} /\ UNCHANGED request
       ELSE Become(q, SigningUp(e)) /\ UNCHANGED answers
  /\ UNCHANGED <<accounts, sessions, rows, attempts, used, erasure, clock>>

\* create_user: the unique column refuses a second account of an email, and the
\* exception is answered as an internal error.
SignupInsert(q) ==
  /\ request[q].kind = "signup"
  /\ \/ /\ AccountOf(request[q].email) = {}
        /\ \E u \in Users \ used :
             /\ accounts' = accounts \cup {[id |-> u, email |-> request[q].email]}
             /\ used' = used \cup {u}
             /\ Become(q, SigningIn(u))
        /\ answers' = answers \cup {"ok"}
        /\ UNCHANGED overtaken
     \/ /\ AccountOf(request[q].email) # {}
        /\ End(q)
        /\ answers' = answers \cup {"failed"}
        /\ UNCHANGED <<accounts, used>>
  /\ UNCHANGED <<sessions, rows, attempts, erased, strays, late, clock>>

\* The row is read, then the password is compared with it, slowly.
Login(q, e) ==
  /\ request[q] = Idle
  /\ \E a \in AccountOf(e) : Become(q, SigningIn(a.id))
  /\ UNCHANGED <<accounts, sessions, rows, attempts, used, erasure, answers, clock>>

\* create_session, for a signup or a login.
CreateSession(q) ==
  /\ request[q].kind = "login"
  /\ \E t \in Tokens \ used :
       /\ sessions' = sessions \cup
            {[token |-> t, user |-> request[q].user, expires |-> clock + SessionTTL]}
       /\ used' = used \cup {t}
       /\ strays' = IF q \in overtaken THEN strays \cup {t} ELSE strays
  /\ End(q)
  /\ UNCHANGED <<accounts, rows, attempts, erased, late, answers, clock>>

Logout(t) ==
  /\ \E s \in sessions : s.token = t
  /\ sessions' = {s \in sessions : s.token # t}
  /\ UNCHANGED <<accounts, rows, attempts, request, used, erasure, answers, clock>>

-----------------------------------------------------------------------------
(* Requests of a signed-in user *)

\* The request of a signed-in user is under way.
Enter(q, u, kind, table) ==
  /\ request[q] = Idle
  /\ Become(q, [kind |-> kind, email |-> None, user |-> u, table |-> table, since |-> clock])
  /\ overtaken' = IF \E s \in SessionsOf(u) : s.token \in strays
                  THEN overtaken \cup {q} ELSE overtaken
  /\ UNCHANGED <<accounts, sessions, rows, attempts, used, erased, strays, late, answers, clock>>

\* Variant: a session is good whether or not it has expired.
AdmitExpired(q, u, kind, table) == (\E s \in sessions : s.user = u) /\ Enter(q, u, kind, table)

\* get_current_user lets the request through.
Admit(q, u, kind, table) == SessionsOf(u) # {} /\ Enter(q, u, kind, table)

\* add_watchlist_item and its like; the quote is looked up before it.
Write(q) ==
  /\ request[q].kind = "write"
  /\ LET row == <<request[q].user, request[q].table>>
     IN  /\ rows' = rows \cup {row}
         /\ late' = IF q \in overtaken THEN late \cup {row} ELSE late
  /\ End(q)
  /\ UNCHANGED <<accounts, sessions, attempts, used, erased, strays, answers, clock>>

Attempts(u) == {a \in attempts : a.user = u}

\* Attempts inside the window that ends at a time.
Recent(u, until) == {a \in Attempts(u) : a.at + Window > until}

Attempt(u) == [user |-> u, at |-> clock, no |-> Cardinality(Attempts(u)) + 1]

\* Variant: the attempts are counted when the request comes in.
ClaimOutdated(q) ==
  LET u == request[q].user
  IN  /\ request[q].kind = "resolve"
      /\ attempts' = IF Cardinality({a \in Recent(u, request[q].since) :
                                        a.at < request[q].since}) < Limit
                     THEN attempts \cup {Attempt(u)} ELSE attempts
      /\ End(q)
      /\ UNCHANGED <<accounts, sessions, rows, used, erased, strays, late, answers, clock>>

\* claim_ticker_resolution_attempt: counted and recorded in one transaction; the
\* window starts where it did when the quote lookup had missed.
Claim(q) ==
  LET u == request[q].user
  IN  /\ request[q].kind = "resolve"
      /\ attempts' = IF Cardinality(Recent(u, request[q].since)) < Limit
                     THEN attempts \cup {Attempt(u)} ELSE attempts
      /\ End(q)
      /\ UNCHANGED <<accounts, sessions, rows, used, erased, strays, late, answers, clock>>

\* The requests of u under way are overtaken by its erasure; this one is done.
Overtake(q, u) ==
  /\ Become(q, Idle)
  /\ overtaken' = (overtaken \cup {p \in Requests : request[p].user = u}) \ {q}

\* delete_user_account, after the password was confirmed: one transaction.
Erase(q) ==
  LET u == request[q].user
  IN  /\ request[q].kind = "delete"
      /\ accounts' = {a \in accounts : a.id # u}
      /\ sessions' = {s \in sessions : s.user # u}
      /\ rows' = {r \in rows : r[1] # u \/ r[2] \in KeptTables}
      /\ erased' = erased \cup {u}
      /\ Overtake(q, u)
      /\ UNCHANGED <<attempts, used, strays, late, answers, clock>>

Tick ==
  /\ clock < MaxClock /\ clock' = clock + 1
  /\ UNCHANGED <<accounts, sessions, rows, attempts, request, used, erasure, answers>>

\* What a signed-in user asks for; an account is deleted while it is there.
Ask(q, u) ==
  \/ Admit(q, u, "resolve", None)
  \/ \E t \in TableNames : Admit(q, u, "write", t)
  \/ (\E a \in accounts : a.id = u) /\ Admit(q, u, "delete", None)

Next ==
  \/ \E q \in Requests :
       \/ \E e \in Emails : Signup(q, e) \/ Login(q, e)
       \/ \E u \in Users : Ask(q, u)
       \/ SignupInsert(q) \/ CreateSession(q) \/ Write(q) \/ Claim(q) \/ Erase(q)
  \/ \E t \in Tokens : Logout(t)
  \/ Tick

Spec == Init /\ [][Next]_vars

-----------------------------------------------------------------------------
(* Safety *)

\* However requests run side by side, no more than Limit resolutions fall into any
\* window of time.
ResolutionsWithinLimit ==
  \A u \in Users, t \in 0..MaxClock :
    Cardinality({a \in Attempts(u) : a.at <= t /\ a.at + Window > t}) <= Limit

\* Of an erased account nothing is left in the tables that its erasure empties, and nothing
\* acts for it, but what was under way when it was erased: the rows that those requests store,
\* the sessions that they open, and what comes by such a session while it lasts.
ErasureHolds ==
  \A u \in erased :
    /\ \A a \in accounts : a.id # u
    /\ \A s \in sessions : s.user = u => s.token \in strays
    /\ \A r \in rows : r[1] = u => r[2] \in KeptTables \/ r \in late
    /\ \A q \in Requests : request[q].user = u => q \in overtaken

\* The erasure removes "this user and everything scoped to them".
ErasureIsComplete ==
  \A u \in erased : \A r \in rows \ late : r[1] # u

\* A signup whose email is taken is told so, not answered with an internal error.
ConflictsAreReported == "failed" \notin answers
=============================================================================
