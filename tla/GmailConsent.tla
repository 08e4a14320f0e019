---------------------------- MODULE GmailConsent ----------------------------
(***************************************************************************)
(* Connecting and disconnecting a Gmail account: the signed state, the     *)
(* consent screen, the callback that exchanges a code for a refresh token  *)
(* and stores it encrypted, and the disconnect that deletes the row and    *)
(* revokes the token.  GmailSync has what happens to a row in between.     *)
(*                                                                         *)
(* A step is one statement and its commit, or one call to Google.  A code  *)
(* and the refresh token it is exchanged for have one name.  Signatures,   *)
(* nonces and ciphertexts stand for what they protect: a state is its user *)
(* and its time, a ciphertext is its token and the key it was made with.   *)
(* Nothing binds a code to the state it was asked for with: a callback has *)
(* the two as parameters of their own, and so have the actions here.       *)
(***************************************************************************)
EXTENDS Integers

CONSTANTS
  Users,      \* users of the application
  Accounts,   \* Google accounts
  Tokens,     \* codes, and the refresh tokens they are exchanged for
  Conns,      \* ids of gmail_connections rows
  Callbacks,  \* processes that handle GET /callback
  Removers,   \* processes that handle DELETE
  None,       \* no token, no user
  Fresh,      \* the row of an id that was not drawn yet
  Gone,       \* the row of an id that was deleted
  StateTtl,   \* _STATE_TTL_SECONDS
  MaxTime,    \* bound: the clock
  MaxKey      \* bound: encryption keys, the first one is 1

ASSUME ConsentAssumption ==
  /\ StateTtl \in Nat /\ MaxTime \in Nat /\ MaxKey \in Nat \ {0}
  /\ None \notin Users \cup Accounts \cup Tokens \cup Conns
  /\ Fresh # Gone

VARIABLES
  clock,     \* seconds
  key,       \* GMAIL_TOKEN_ENCRYPTION_KEY
  issued,    \* states that were signed: user and time
  grant,     \* what Google knows of each code and its token
  ended,     \* tokens that Google ended because it ended all of their account (history)
  conn,      \* the gmail_connections table
  callback,  \* the callback that each process handles
  remover    \* the disconnect that each process handles

vars == <<clock, key, issued, grant, ended, conn, callback, remover>>

Connections == [user : Users, account : Accounts, token : Tokens, key : 1..MaxKey]
States == [user : Users, at : 0..MaxTime]

Grant(s, g) == [status |-> s, account |-> g]
NoGrant == Grant("none", None)

\* user is that of the state which the callback has verified.
Call(pc, t, u) == [pc |-> pc, token |-> t, user |-> u]
IdleCallback == Call("idle", None, None)
Removal(pc, i, t) == [pc |-> pc, id |-> i, token |-> t]
IdleRemover == Removal("idle", None, None)

Connected(i) == conn[i] \notin {Fresh, Gone}

Init ==
  /\ clock = 0 /\ key = 1 /\ issued = {} /\ ended = {}
  /\ grant = [t \in Tokens |-> NoGrant]
  /\ conn = [i \in Conns |-> Fresh]
  /\ callback = [c \in Callbacks |-> IdleCallback]
  /\ remover = [d \in Removers |-> IdleRemover]

-----------------------------------------------------------------------------
(* Connecting. *)

\* GET /connect: build_consent_url signs a state.
Connect(u) ==
  /\ issued' = issued \cup {[user |-> u, at |-> clock]}
  /\ UNCHANGED <<clock, key, grant, ended, conn, callback, remover>>

\* Google's consent screen, as often as a user opens a URL: a code.
Consent(g, t) ==
  /\ issued # {} /\ grant[t] = NoGrant
  /\ grant' = [grant EXCEPT ![t] = Grant("code", g)]
  /\ UNCHANGED <<clock, key, issued, ended, conn, callback, remover>>

StateIsFresh(s) == clock - s.at <= StateTtl /\ s.at - clock <= StateTtl

\* A redirect arrives, perhaps again, with a code and a state: _verify_state, or
\* ?reason=bad_state.
VerifyState(c, t, s) ==
  /\ callback[c].pc = "idle" /\ grant[t].status # "none"
  /\ s \in issued /\ StateIsFresh(s)
  /\ callback' = [callback EXCEPT ![c] = Call("exchange", t, s.user)]
  /\ UNCHANGED <<clock, key, issued, grant, ended, conn, remover>>

\* The token endpoint takes each code once.
ExchangeCode(c) ==
  LET t == callback[c].token IN
  /\ callback[c].pc = "exchange" /\ grant[t].status = "code"
  /\ grant' = [grant EXCEPT ![t].status = "live"]
  /\ callback' = [callback EXCEPT ![c].pc = "store"]
  /\ UNCHANGED <<clock, key, issued, ended, conn, remover>>

\* The code is spent or the answer has no refresh token: ?reason=exchange_failed.
\* The call itself fails: nothing catches httpx.HTTPError, and the answer is 500.
ExchangeFails(c) ==
  /\ callback[c].pc = "exchange"
  /\ callback' = [callback EXCEPT ![c] = IdleCallback]
  /\ UNCHANGED <<clock, key, issued, grant, ended, conn, remover>>

\* uq_gmail_user_account.
IsConnectionOf(i, u, g) == Connected(i) /\ conn[i].user = u /\ conn[i].account = g

\* upsert_connection: INSERT ... ON CONFLICT (user, account) DO UPDATE.
StoreToken(c) ==
  LET t == callback[c].token
      u == callback[c].user
      g == grant[t].account
  IN
  /\ callback[c].pc = "store"
  /\ \E i \in Conns :
       /\ \/ IsConnectionOf(i, u, g)
          \/ conn[i] = Fresh /\ \A j \in Conns : ~IsConnectionOf(j, u, g)
       /\ conn' = [conn EXCEPT ![i] = [user |-> u, account |-> g, token |-> t, key |-> key]]
  /\ callback' = [callback EXCEPT ![c] = IdleCallback]
  /\ UNCHANGED <<clock, key, issued, grant, ended, remover>>

\* The userinfo call, the encryption or the INSERT fails: the token is live at
\* Google and nobody has it.
StoreFails(c) ==
  /\ callback[c].pc = "store"
  /\ callback' = [callback EXCEPT ![c] = IdleCallback]
  /\ UNCHANGED <<clock, key, issued, grant, ended, conn, remover>>

-----------------------------------------------------------------------------
(* Disconnecting. *)

\* Fernet refuses what another key has encrypted.
Decrypted(i) == IF conn[i].key = key THEN conn[i].token ELSE None

\* get_connection and decrypt_secret.
ReadConnection(d, i) ==
  /\ remover[d].pc = "idle" /\ Connected(i)
  /\ remover' = [remover EXCEPT ![d] = Removal("select", i, Decrypted(i))]
  /\ UNCHANGED <<clock, key, issued, grant, ended, conn, callback>>

\* Mutant: the delete is not committed.
RemovedUncommitted(i) == conn

Removed(i) == [conn EXCEPT ![i] = Gone]

\* Mutant: the token is handed to Google without a look at it.
RevokeAnyway(d) == Removal("revoke", None, remover[d].token)

\* A token that could not be decrypted is not revoked.
RevokeNext(d) == IF remover[d].token = None THEN IdleRemover ELSE Removal("revoke", None, remover[d].token)

\* delete_connection SELECTs the row again, whatever token it has by now.
SelectForDelete(d) ==
  /\ remover[d].pc = "select" /\ Connected(remover[d].id)
  /\ remover' = [remover EXCEPT ![d] = Removal("delete", remover[d].id, remover[d].token)]
  /\ UNCHANGED <<clock, key, issued, grant, ended, conn, callback>>

\* Another disconnect was first: the exception leaves the route.
ConnectionIsGone(d) ==
  /\ remover[d].pc = "select" /\ ~Connected(remover[d].id)
  /\ remover' = [remover EXCEPT ![d] = IdleRemover]
  /\ UNCHANGED <<clock, key, issued, grant, ended, conn, callback>>

\* DELETE by id; a row that went since is a warning of the ORM, no error.
DeleteConnection(d) ==
  /\ remover[d].pc = "delete"
  /\ conn' = Removed(remover[d].id)
  /\ remover' = [remover EXCEPT ![d] = RevokeNext(d)]
  /\ UNCHANGED <<clock, key, issued, grant, ended, callback>>

LiveOf(g) == {t \in Tokens : grant[t] = Grant("live", g)}
Revoked(S) == [t \in Tokens |->
  IF t \in S /\ grant[t].status = "live" THEN Grant("revoked", grant[t].account) ELSE grant[t]]

\* Google ends the token, or with it everything that the account has granted.
RevokeToken(d) ==
  LET t == remover[d].token
      others == LiveOf(grant[t].account) \ {t}
  IN
  /\ remover[d].pc = "revoke"
  /\ \/ grant' = Revoked({t}) /\ ended' = ended
     \/ grant' = Revoked({t} \cup others) /\ ended' = ended \cup others
  /\ remover' = [remover EXCEPT ![d] = IdleRemover]
  /\ UNCHANGED <<clock, key, issued, conn, callback>>

\* Best effort: a network error or an unexpected status is logged, and the
\* answer is 204 all the same.
RevokeFails(d) ==
  /\ remover[d].pc = "revoke"
  /\ remover' = [remover EXCEPT ![d] = IdleRemover]
  /\ UNCHANGED <<clock, key, issued, grant, ended, conn, callback>>

-----------------------------------------------------------------------------
(* The surroundings. *)

\* The user ends the grant in the settings of the Google account.
UserRevokes(g) ==
  /\ grant' = Revoked(LiveOf(g))
  /\ ended' = ended \cup LiveOf(g)
  /\ UNCHANGED <<clock, key, issued, conn, callback, remover>>

\* The processes die and start again, with the key that is now in their
\* environment.
Restart(k) ==
  /\ k \in key..MaxKey /\ key' = k
  /\ callback' = [c \in Callbacks |-> IdleCallback]
  /\ remover' = [d \in Removers |-> IdleRemover]
  /\ UNCHANGED <<clock, issued, grant, ended, conn>>

Tick ==
  /\ clock < MaxTime /\ clock' = clock + 1
  /\ UNCHANGED <<key, issued, grant, ended, conn, callback, remover>>

CallbackStep(c) ==
  \/ \E t \in Tokens, s \in issued : VerifyState(c, t, s)
  \/ ExchangeCode(c) \/ ExchangeFails(c) \/ StoreToken(c) \/ StoreFails(c)

RemoverStep(d) ==
  \/ \E i \in Conns : ReadConnection(d, i)
  \/ SelectForDelete(d) \/ ConnectionIsGone(d) \/ DeleteConnection(d)
  \/ RevokeToken(d) \/ RevokeFails(d)

Next ==
  \/ \E u \in Users : Connect(u)
  \/ \E g \in Accounts, t \in Tokens : Consent(g, t)
  \/ \E c \in Callbacks : CallbackStep(c)
  \/ \E d \in Removers : RemoverStep(d)
  \/ \E g \in Accounts : UserRevokes(g)
  \/ \E k \in 1..MaxKey : Restart(k)
  \/ Tick

Spec == Init /\ [][Next]_vars

-----------------------------------------------------------------------------
Grants == [status : {"code", "live", "revoked"}, account : Accounts]

\* Types; a request that is under way has what it needs for its next step.
TypeOK ==
  /\ clock \in 0..MaxTime /\ key \in 1..MaxKey
  /\ issued \subseteq States /\ ended \subseteq Tokens
  /\ grant \in [Tokens -> Grants \cup {NoGrant}]
  /\ conn \in [Conns -> Connections \cup {Fresh, Gone}]
  /\ callback \in [Callbacks -> {IdleCallback} \cup
       [pc : {"exchange", "store"}, token : Tokens, user : Users]]
  /\ remover \in [Removers -> {IdleRemover}
       \cup [pc : {"select", "delete"}, id : Conns, token : Tokens \cup {None}]
       \cup [pc : {"revoke"}, id : {None}, token : Tokens]]

\* The places in which a token can be: a row, a callback that is about to store
\* it, the disconnects that are about to revoke it (two of one row may be).
Holders(t) ==
  {<<"row", i>> : i \in {x \in Conns : Connected(x) /\ conn[x].token = t}}
    \cup {<<"callback", c>> : c \in {x \in Callbacks : callback[x].pc = "store" /\ callback[x].token = t}}
    \cup {<<"removers">> : d \in {x \in Removers : remover[x].pc = "revoke" /\ remover[x].token = t}}

\* A token is in one place at a time: no two rows share one, and what a
\* disconnect is about to revoke is neither in the table nor on its way there
\* (disconnect deletes before it revokes, codes are exchanged once).
TokensHaveOneHolder == \A t \in Tokens : \A a, b \in Holders(t) : a = b

\* No disconnect revokes the token of a row that stays: it is live, unless Google
\* ended it together with everything that its account had granted.
RowTokensAreLive ==
  \A i \in Conns :
    Connected(i) => grant[conn[i].token].status = "live" \/ conn[i].token \in ended
=============================================================================
