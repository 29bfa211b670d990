------------------------------ MODULE Sessions ------------------------------
(***************************************************************************)
(* Logins of birdseye-web: the session store (birdseye_web/sessions.py),   *)
(* the login and logout pages (routes_auth.py), and what every other page  *)
(* does with a session first (context.py), with the identity provider      *)
(* (IdP) that grants codes and refresh tokens.                             *)
(*                                                                         *)
(* A request runs up to its next await in one step; requests of the same   *)
(* browser or of several interleave there, each with the copy of the       *)
(* session that it got. The id of a session is the request that made it,   *)
(* and so are its state, its codes and its tokens.                         *)
(***************************************************************************)
EXTENDS Naturals, FiniteSets

CONSTANTS
  MaxRequests, \* bound: the requests made, numbered as they come
  Browsers,    \* each has one cookie
  MaxTime,     \* bound of the clock
  MaxAge,      \* session_hours
  PendingTTL,  \* PENDING_TTL
  MaxPending,  \* MAX_PENDING
  TokenLife,   \* expires_in
  Leeway,      \* a token is refreshed this long before it expires
  Rotates,     \* the IdP gives a new refresh token each time
  Nobody       \* no session, no token

ASSUME SessionConstants ==
  /\ MaxRequests \in Nat /\ MaxPending \in Nat \ {0}
  /\ MaxAge \in Nat /\ PendingTTL \in Nat /\ TokenLife \in Nat
  /\ Rotates \in BOOLEAN /\ Leeway < TokenLife
  /\ Nobody \notin 1..MaxRequests

Requests == 1..MaxRequests

VARIABLES
  now,
  items,    \* SessionStore._items
  cookie,   \* [Browsers -> a session's id]
  req,      \* [Requests -> the request]
  codes,    \* IdP: the logins that a code was given for and not yet used
  grants    \* IdP: the refresh tokens it accepts

sessionVars == <<now, items, cookie, req, codes, grants>>

Unborn == [sid |-> Nobody, born |-> 0, state |-> Nobody, signed |-> FALSE,
           refresh |-> Nobody, until |-> 0]

Unsent == [pc |-> "none", kind |-> "none", by |-> Nobody, s |-> Unborn]

NoSessions == [x \in {} |-> Unborn]

(* {**self._items, session.sid: session}                                    *)
Stored(store, s) == [x \in DOMAIN store \cup {s.sid} |-> IF x = s.sid THEN s ELSE store[x]]

-----------------------------------------------------------------------------
(* Slips: plausible errors, none of which is in the code.                  *)

(* The session is stored even if it was dropped meanwhile.                 *)
PutBack(store, s) == Stored(store, s)

-----------------------------------------------------------------------------
(* sessions.py                                                             *)

Alive(s) == now - s.born <= IF s.signed THEN MaxAge ELSE PendingTTL

Dropped(store, sids) == [x \in DOMAIN store \ sids |-> store[x]]

(* get                                                                     *)
Found(sid) == sid \in DOMAIN items /\ Alive(items[sid])

Pending(store) == {x \in DOMAIN store : ~store[x].signed}

Purged(store) == Dropped(store, {x \in DOMAIN store : ~Alive(store[x])})

(* The oldest are dropped where there are too many.                        *)
Capped(store) ==
  LET excess == CHOOSE old \in SUBSET Pending(store) :
        /\ Cardinality(old) = IF Cardinality(Pending(store)) > MaxPending
                              THEN Cardinality(Pending(store)) - MaxPending ELSE 0
        /\ \A x \in old, y \in Pending(store) \ old : store[x].born <= store[y].born
  IN  Dropped(store, excess)

Created(s) == Capped(Stored(Purged(items), s))

Updated(store, s) == IF s.sid \in DOMAIN store THEN Stored(store, s) ELSE store

Rotated(store, old, s) == Stored(Dropped(store, {old}), s)

-----------------------------------------------------------------------------
(* The requests.                                                           *)

SessionInit ==
  /\ now = 0 /\ items = NoSessions /\ codes = {} /\ grants = {}
  /\ cookie = [b \in Browsers |-> Nobody]
  /\ req = [q \in Requests |-> Unsent]

Sends(q, b, kind, pc, s) ==
  /\ req[q].pc = "none" /\ \A p \in 1..(q - 1) : req[p].pc # "none"
  /\ req' = [req EXCEPT ![q] = [pc |-> pc, kind |-> kind, by |-> b, s |-> s]]

Finishes(q) == req' = [req EXCEPT ![q].pc = "done", ![q].s = Unborn]

OfCookie(b) == IF Found(cookie[b]) THEN items[cookie[b]] ELSE Unborn

Tick == now < MaxTime /\ now' = now + 1 /\ UNCHANGED <<items, cookie, req, codes, grants>>

(* /login: a browser that is signed in stays so; any other gets a pending  *)
(* session and is sent to the IdP.                                         *)
Login(q, b) ==
  /\ IF OfCookie(b).signed THEN Sends(q, b, "login", "done", Unborn) /\ UNCHANGED items
     ELSE LET s == [Unborn EXCEPT !.sid = q, !.born = now, !.state = q]
          IN  Sends(q, b, "login", "discover", s) /\ items' = Updated(Created([s EXCEPT !.state = Nobody]), s)
  /\ UNCHANGED <<now, cookie, codes, grants>>

Redirected(q) ==
  /\ req[q].pc = "discover" /\ Finishes(q)
  /\ cookie' = [cookie EXCEPT ![req[q].by] = q]
  /\ UNCHANGED <<now, items, codes, grants>>

(* The user signs in at the IdP, which sends the browser back with a code. *)
Consents(st) ==
  /\ req[st].kind = "login" /\ req[st].pc = "done" /\ st \in {cookie[b] : b \in Browsers}
  /\ codes' = codes \cup {st}
  /\ UNCHANGED <<now, items, cookie, req, grants>>

(* The callback, with a code, or with an error of the IdP.                 *)
Callback(q, b, st, refused) ==
  LET s == OfCookie(b)
  IN  /\ IF s.state = Nobody \/ s.state # st
         THEN Sends(q, b, "callback", "done", Unborn) /\ UNCHANGED items
         ELSE IF refused
         THEN Sends(q, b, "callback", "done", Unborn) /\ items' = Dropped(items, {s.sid})
         ELSE Sends(q, b, "callback", "exchange", s) /\ UNCHANGED items
      /\ UNCHANGED <<now, cookie, codes, grants>>

(* A code is good once.                                                    *)
Exchanged(q) ==
  /\ req[q].pc = "exchange" /\ req[q].s.state \in codes
  /\ codes' = codes \ {req[q].s.state} /\ grants' = grants \cup {q}
  /\ req' = [req EXCEPT ![q].pc = "me"]
  /\ UNCHANGED <<now, items, cookie>>

(* NetBird knows the user: a new id for the session, and the cookie of it. *)
SignsIn(q) ==
  LET s == [Unborn EXCEPT !.sid = q, !.born = now, !.signed = TRUE, !.refresh = q,
                          !.until = now + TokenLife]
  IN  /\ req[q].pc = "me" /\ Finishes(q)
      /\ items' = Rotated(items, req[q].s.sid, s)
      /\ cookie' = [cookie EXCEPT ![req[q].by] = q]
      /\ UNCHANGED <<now, codes, grants>>

(* A page or the logout: the session first.                                *)
Visit(q, b, kind) ==
  LET s == OfCookie(b)
      next == IF ~s.signed THEN "done"
              ELSE IF s.until - now > Leeway THEN "page"
              ELSE IF s.refresh = Nobody THEN "done" ELSE "refresh"
  IN  /\ Sends(q, b, kind, next, s)
      /\ UNCHANGED <<now, items, cookie, codes, grants>>

(* The IdP answers with new tokens; the request goes on with them.         *)
Granted(q) ==
  /\ req[q].pc = "refresh" /\ req[q].s.refresh \in grants
  /\ grants' = IF Rotates THEN (grants \ {req[q].s.refresh}) \cup {q} ELSE grants
  /\ req' = [req EXCEPT ![q].pc = "granted"]
  /\ UNCHANGED <<now, items, cookie, codes>>

Refreshed(q) ==
  LET s == [req[q].s EXCEPT !.refresh = IF Rotates THEN q ELSE @, !.until = now + TokenLife]
  IN  /\ req[q].pc = "granted"
      /\ items' = Updated(items, s)
      /\ req' = [req EXCEPT ![q].pc = "page", ![q].s = s]
      /\ UNCHANGED <<now, cookie, codes, grants>>

(* A call to the IdP or to NetBird fails, or its answer is lost: an error  *)
(* page, or "sign in again"; the session stays.                            *)
CallLost(q) ==
  /\ req[q].pc \in {"discover", "exchange", "me", "refresh", "granted", "page"} /\ Finishes(q)
  /\ UNCHANGED <<now, items, cookie, codes, grants>>

Served(q) ==
  /\ req[q].pc = "page" /\ req[q].kind = "page" /\ Finishes(q)
  /\ UNCHANGED <<now, items, cookie, codes, grants>>

(* NetBird no longer takes the token.                                      *)
Unauthorized(q) ==
  /\ req[q].pc = "page" /\ req[q].kind = "page" /\ Finishes(q)
  /\ items' = Dropped(items, {req[q].s.sid})
  /\ UNCHANGED <<now, cookie, codes, grants>>

Logout(q) ==
  /\ req[q].pc = "page" /\ req[q].kind = "logout"
  /\ req' = [req EXCEPT ![q].pc = "bye"]
  /\ items' = Dropped(items, {req[q].s.sid})
  /\ UNCHANGED <<now, cookie, codes, grants>>

LoggedOut(q) ==
  /\ req[q].pc = "bye" /\ Finishes(q)
  /\ cookie' = [cookie EXCEPT ![req[q].by] = Nobody]
  /\ UNCHANGED <<now, items, codes, grants>>

(* Sessions are in memory only.                                            *)
WebRestarts ==
  /\ items' = NoSessions
  /\ req' = [q \in Requests |-> IF req[q].pc = "none" THEN req[q] ELSE [req[q] EXCEPT !.pc = "done", !.s = Unborn]]
  /\ UNCHANGED <<now, cookie, codes, grants>>

SessionNext ==
  \/ Tick \/ WebRestarts
  \/ \E q \in Requests :
       \/ \E b \in Browsers :
            \/ Login(q, b) \/ Visit(q, b, "page") \/ Visit(q, b, "logout")
            \/ \E st \in Requests, refused \in BOOLEAN : Callback(q, b, st, refused)
       \/ Redirected(q) \/ Consents(q) \/ Exchanged(q) \/ SignsIn(q)
       \/ Granted(q) \/ Refreshed(q) \/ CallLost(q) \/ Served(q) \/ Unauthorized(q)
       \/ Logout(q) \/ LoggedOut(q)

SessionSpec == SessionInit /\ [][SessionNext]_sessionVars

-----------------------------------------------------------------------------
(* Properties.                                                             *)

SignedIn(sid) == Found(sid) /\ items[sid].signed

(* A session is signed in only by the callback that made it: not by a late *)
(* answer to a request of a session that was logged out, dropped, replaced *)
(* or is too old ("a dropped one (logout) stays dropped", sessions.py:91), *)
(* and never under an id that was known before the login (rotate).         *)
SignInsFinal ==
  [][\A sid \in Requests :
       (SignedIn(sid)' /\ ~SignedIn(sid)) => req[sid].pc = "me" /\ req'[sid].pc = "done"]_sessionVars

SessionTypes ==
  /\ DOMAIN items \subseteq Requests /\ codes \subseteq Requests /\ grants \subseteq Requests
  /\ Cardinality(Pending(items)) <= MaxPending
  /\ \A sid \in DOMAIN items :
       items[sid].sid = sid /\ (items[sid].signed => items[sid].state = Nobody)
=============================================================================
