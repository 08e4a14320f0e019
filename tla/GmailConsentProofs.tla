------------------------- MODULE GmailConsentProofs -------------------------
(***************************************************************************)
(* The properties of GmailConsent for any number of users, accounts,       *)
(* tokens, rows, callbacks and disconnects, and for any lifetime of a      *)
(* state.  ConsentInv adds to them what a request relies on between two of *)
(* its statements.                                                         *)
(***************************************************************************)
EXTENDS GmailConsent, TLAPS

Exchanged(t) == grant[t].status \in {"live", "revoked"}
LiveOrEnded(t) == grant[t].status = "live" \/ t \in ended

\* What a callback relies on between the check, the exchange and the upsert.
CallbacksHold ==
  \A c \in Callbacks :
    LET t == callback[c].token IN
    /\ callback[c].pc = "exchange" => grant[t].status # "none"
    /\ callback[c].pc = "store" => Exchanged(t) /\ LiveOrEnded(t)

\* A row has its account's token, which is live unless Google ended all of the account.
RowsHold ==
  \A i \in Conns : Connected(i) =>
    LET t == conn[i].token IN
    /\ Exchanged(t) /\ LiveOrEnded(t)
    /\ grant[t].account = conn[i].account

\* What a disconnect has read is in its row or nowhere; what it is about to
\* revoke is nowhere.
RemoversHold ==
  \A d \in Removers : remover[d].pc # "idle" /\ remover[d].token # None =>
    LET t == remover[d].token IN
    /\ Exchanged(t)
    /\ \A c \in Callbacks : callback[c].pc = "store" => callback[c].token # t
    /\ \A i \in Conns : Connected(i) /\ conn[i].token = t =>
         remover[d].pc # "revoke" /\ remover[d].id = i

\* Rows and callbacks do not share tokens.
TokensAreApart ==
  /\ \A i, j \in Conns : Connected(i) /\ Connected(j) /\ conn[i].token = conn[j].token => i = j
  /\ \A b, c \in Callbacks :
       callback[b].pc = "store" /\ callback[c].pc = "store" /\ callback[b].token = callback[c].token
         => b = c
  /\ \A i \in Conns, c \in Callbacks :
       Connected(i) /\ callback[c].pc = "store" => conn[i].token # callback[c].token

ConsentInv ==
  TypeOK /\ CallbacksHold /\ RowsHold /\ RemoversHold /\ TokensAreApart

USE DEF Connections, States, Grant, NoGrant, Call, IdleCallback, Removal, IdleRemover,
        Connected, Grants

\* Init holds them all.
LEMMA InitInv == Init => ConsentInv
PROOF
  BY ConsentAssumption
  DEF Init, ConsentInv, TypeOK, CallbacksHold, RowsHold, RemoversHold,
      TokensAreApart, Exchanged, LiveOrEnded

\* Google ends tokens; whose they are stays.
LEMMA RevokedGrants ==
  ASSUME TypeOK, NEW S, grant' = Revoked(S), NEW t \in Tokens
  PROVE  /\ grant'[t].account = grant[t].account
         /\ grant'[t].status = IF t \in S /\ grant[t].status = "live" THEN "revoked"
                                                                   ELSE grant[t].status
PROOF
  BY DEF TypeOK, Revoked

\* Types.
LEMMA TypeStep == ConsentInv /\ Next => TypeOK'
PROOF
<1> SUFFICES ASSUME ConsentInv, Next PROVE TypeOK'
  OBVIOUS
<1> USE ConsentAssumption DEF ConsentInv, TypeOK
<1>1. ASSUME NEW u \in Users, Connect(u) PROVE TypeOK'
  BY <1>1 DEF Connect
<1>2. ASSUME NEW g \in Accounts, NEW t \in Tokens, Consent(g, t) PROVE TypeOK'
  BY <1>2 DEF Consent
<1>3. ASSUME NEW c \in Callbacks, CallbackStep(c) PROVE TypeOK'
  <2>1. ASSUME NEW t \in Tokens, NEW s \in issued, VerifyState(c, t, s) PROVE TypeOK'
    BY <2>1 DEF VerifyState
  <2>2. CASE ExchangeCode(c)
    BY <2>2 DEF ExchangeCode
  <2>3. CASE ExchangeFails(c) \/ StoreFails(c)
    BY <2>3 DEF ExchangeFails, StoreFails
  <2>4. CASE StoreToken(c)
    <3>1. /\ callback[c].token \in Tokens /\ callback[c].user \in Users
          /\ grant[callback[c].token] \in Grants
      BY <2>4 DEF StoreToken, CallbacksHold, Exchanged
    <3> QED
      BY <2>4, <3>1 DEF StoreToken
  <2> QED
    BY <1>3, <2>1, <2>2, <2>3, <2>4 DEF CallbackStep
<1>4. ASSUME NEW d \in Removers, RemoverStep(d) PROVE TypeOK'
  <2>1. ASSUME NEW i \in Conns, ReadConnection(d, i) PROVE TypeOK'
    BY <2>1 DEF ReadConnection, Decrypted
  <2>2. CASE SelectForDelete(d) \/ ConnectionIsGone(d)
    BY <2>2 DEF SelectForDelete, ConnectionIsGone
  <2>3. CASE DeleteConnection(d)
    BY <2>3 DEF DeleteConnection, Removed, RevokeNext
  <2>4. CASE RevokeToken(d)
    <3>1. remover[d].token \in Tokens /\ grant[remover[d].token] \in Grants
      BY <2>4 DEF RevokeToken, RemoversHold, Exchanged
    <3> QED
      BY <2>4, <3>1 DEF RevokeToken, Revoked, LiveOf
  <2>5. CASE RevokeFails(d)
    BY <2>5 DEF RevokeFails
  <2> QED
    BY <1>4, <2>1, <2>2, <2>3, <2>4, <2>5 DEF RemoverStep
<1>5. ASSUME NEW g \in Accounts, UserRevokes(g) PROVE TypeOK'
  BY <1>5 DEF UserRevokes, Revoked, LiveOf
<1>6. ASSUME NEW k \in 1..MaxKey, Restart(k) PROVE TypeOK'
  BY <1>6 DEF Restart
<1>7. ASSUME Tick PROVE TypeOK'
  BY <1>7 DEF Tick
<1> QED
  BY <1>1, <1>2, <1>3, <1>4, <1>5, <1>6, <1>7 DEF Next

\* The rest of the invariant, action by action.
LEMMA ConsentStep == ConsentInv /\ Next => ConsentInv'
PROOF
<1> SUFFICES ASSUME ConsentInv, Next PROVE ConsentInv'
  OBVIOUS
<1>0. TypeOK /\ TypeOK'
  BY TypeStep DEF ConsentInv
<1> DEFINE Rest == CallbacksHold /\ RowsHold /\ RemoversHold /\ TokensAreApart
<1> USE ConsentAssumption, <1>0 DEF TypeOK, ConsentInv, Exchanged, LiveOrEnded
<1>1. ASSUME NEW u \in Users, Connect(u) PROVE Rest'
  BY <1>1 DEF Connect, CallbacksHold, RowsHold, RemoversHold, TokensAreApart
<1>2. ASSUME NEW g \in Accounts, NEW t \in Tokens, Consent(g, t) PROVE Rest'
  <2>1. CallbacksHold'
    BY <1>2 DEF Consent, CallbacksHold
  <2>2. RowsHold'
    BY <1>2 DEF Consent, RowsHold
  <2>3. RemoversHold'
    BY <1>2 DEF Consent, RemoversHold
  <2>4. TokensAreApart'
    BY <1>2 DEF Consent, TokensAreApart
  <2> QED
    BY <2>1, <2>2, <2>3, <2>4
<1>3. ASSUME NEW c \in Callbacks, NEW t \in Tokens, NEW s \in issued, VerifyState(c, t, s) PROVE Rest'
  <2>1. CallbacksHold'
    BY <1>3 DEF VerifyState, CallbacksHold
  <2>2. RemoversHold'
    BY <1>3 DEF VerifyState, RemoversHold
  <2>3. TokensAreApart'
    BY <1>3 DEF VerifyState, TokensAreApart
  <2>4. RowsHold'
    BY <1>3 DEF VerifyState, RowsHold
  <2> QED
    BY <2>1, <2>2, <2>3, <2>4
<1>4. ASSUME NEW c \in Callbacks, ExchangeCode(c) PROVE Rest'
  <2>1. CallbacksHold'
    BY <1>4 DEF ExchangeCode, CallbacksHold
  <2>2. RowsHold'
    BY <1>4 DEF ExchangeCode, RowsHold
  <2>3. RemoversHold'
    BY <1>4 DEF ExchangeCode, RemoversHold
  <2>4. TokensAreApart'
    BY <1>4 DEF ExchangeCode, TokensAreApart, CallbacksHold, RowsHold
  <2> QED
    BY <2>1, <2>2, <2>3, <2>4
<1>5. ASSUME NEW c \in Callbacks, ExchangeFails(c) \/ StoreFails(c) PROVE Rest'
  <2>1. CallbacksHold'
    BY <1>5 DEF ExchangeFails, StoreFails, CallbacksHold
  <2>2. RemoversHold'
    BY <1>5 DEF ExchangeFails, StoreFails, RemoversHold
  <2>3. TokensAreApart'
    BY <1>5 DEF ExchangeFails, StoreFails, TokensAreApart
  <2>4. RowsHold'
    BY <1>5 DEF ExchangeFails, StoreFails, RowsHold
  <2> QED
    BY <2>1, <2>2, <2>3, <2>4
<1>6. ASSUME NEW c \in Callbacks, StoreToken(c) PROVE Rest'
  <2>1. PICK i \in Conns :
           conn' = [conn EXCEPT ![i] = [user |-> callback[c].user,
             account |-> grant[callback[c].token].account, token |-> callback[c].token, key |-> key]]
    BY <1>6 DEF StoreToken
  <2>2. CallbacksHold'
    BY <1>6 DEF StoreToken, CallbacksHold
  <2>3. RowsHold'
    BY <1>6, <2>1 DEF StoreToken, RowsHold, CallbacksHold
  <2>4. callback[c].pc = "store" /\ callback' = [callback EXCEPT ![c] = IdleCallback]
           /\ UNCHANGED <<grant, remover>>
    BY <1>6 DEF StoreToken
  <2>5. \A j \in Conns : j # i => conn'[j] = conn[j]
    BY <2>1
  <2>6. conn'[i].token = callback[c].token
    BY <2>1
  <2>7. RemoversHold'
    BY <2>4, <2>5, <2>6 DEF RemoversHold
  <2>8. \A j \in Conns : Connected(j) => conn[j].token # callback[c].token
    BY <2>4 DEF TokensAreApart
  <2>9. \A j, k \in Conns :
           Connected(j)' /\ Connected(k)' /\ conn'[j].token = conn'[k].token => j = k
    BY <2>5, <2>6, <2>8 DEF TokensAreApart
  <2>10. \A j \in Conns, b \in Callbacks :
           Connected(j)' /\ callback'[b].pc = "store" => conn'[j].token # callback'[b].token
    BY <2>4, <2>5, <2>6 DEF TokensAreApart
  <2>11. TokensAreApart'
    BY <2>4, <2>9, <2>10 DEF TokensAreApart
  <2> QED
    BY <2>2, <2>3, <2>7, <2>11
<1>7. ASSUME NEW d \in Removers, NEW i \in Conns, ReadConnection(d, i) PROVE Rest'
  <2>1. RemoversHold'
    BY <1>7 DEF ReadConnection, RemoversHold, RowsHold, TokensAreApart, Decrypted
  <2>2. CallbacksHold' /\ RowsHold' /\ TokensAreApart'
    BY <1>7 DEF ReadConnection, CallbacksHold, RowsHold, TokensAreApart
  <2> QED
    BY <2>1, <2>2
<1>8. ASSUME NEW d \in Removers, SelectForDelete(d) \/ ConnectionIsGone(d) \/ RevokeFails(d) PROVE Rest'
  <2>1. RemoversHold'
    BY <1>8 DEF SelectForDelete, ConnectionIsGone, RevokeFails, RemoversHold
  <2>2. UNCHANGED <<issued, grant, ended, conn, callback>>
    BY <1>8 DEF SelectForDelete, ConnectionIsGone, RevokeFails
  <2>3. CallbacksHold'
    BY <2>2 DEF CallbacksHold
  <2>4. RowsHold' /\ TokensAreApart'
    BY <2>2 DEF RowsHold, TokensAreApart
  <2> QED
    BY <2>1, <2>3, <2>4
<1>9. ASSUME NEW d \in Removers, DeleteConnection(d) PROVE Rest'
  <2>1. RowsHold'
    BY <1>9 DEF DeleteConnection, Removed, RowsHold
  <2>2. RemoversHold'
    BY <1>9 DEF DeleteConnection, Removed, RemoversHold, RevokeNext
  <2>3. TokensAreApart'
    BY <1>9 DEF DeleteConnection, Removed, TokensAreApart
  <2>4. CallbacksHold'
    BY <1>9 DEF DeleteConnection, Removed, CallbacksHold
  <2> QED
    BY <2>1, <2>2, <2>3, <2>4
<1>10. ASSUME NEW d \in Removers, RevokeToken(d) PROVE Rest'
  <2> DEFINE t == remover[d].token
  <2>1. /\ remover[d].pc = "revoke" /\ t \in Tokens
        /\ remover' = [remover EXCEPT ![d] = IdleRemover]
        /\ UNCHANGED <<clock, key, issued, conn, callback>>
    BY <1>10 DEF RevokeToken
  <2>2. \A x \in Tokens : /\ grant'[x].account = grant[x].account /\ (Exchanged(x)' <=> Exchanged(x))
                          /\ (grant'[x].status = "none" <=> grant[x].status = "none")
                          /\ (LiveOrEnded(x) => LiveOrEnded(x)' \/ x = t)
    BY <1>10, RevokedGrants DEF RevokeToken, LiveOf
  <2>3. \A c \in Callbacks : callback[c].pc = "store" => callback[c].token # t
    BY <2>1 DEF RemoversHold
  <2>4. CallbacksHold'
    BY <2>1, <2>2, <2>3 DEF CallbacksHold
  <2>5. \A i \in Conns : Connected(i) => conn[i].token # t
    BY <2>1 DEF RemoversHold
  <2>6. RowsHold'
    BY <2>1, <2>2, <2>5 DEF RowsHold
  <2>7. RemoversHold'
    BY <2>1, <2>2 DEF RemoversHold
  <2>8. TokensAreApart'
    BY <2>1 DEF TokensAreApart
  <2> QED
    BY <2>4, <2>6, <2>7, <2>8
<1>11. ASSUME NEW g \in Accounts, UserRevokes(g) PROVE Rest'
  <2>1. UNCHANGED <<clock, key, issued, conn, callback, remover>>
    BY <1>11 DEF UserRevokes
  <2>2. \A x \in Tokens : /\ grant'[x].account = grant[x].account /\ (Exchanged(x)' <=> Exchanged(x))
                          /\ (grant'[x].status = "none" <=> grant[x].status = "none")
                          /\ (LiveOrEnded(x) => LiveOrEnded(x)')
    BY <1>11, RevokedGrants DEF UserRevokes, LiveOf
  <2>3. CallbacksHold'
    BY <2>1, <2>2 DEF CallbacksHold
  <2>4. RowsHold'
    BY <2>1, <2>2 DEF RowsHold
  <2>5. RemoversHold'
    BY <2>1, <2>2 DEF RemoversHold
  <2>6. TokensAreApart'
    BY <2>1 DEF TokensAreApart
  <2> QED
    BY <2>3, <2>4, <2>5, <2>6
<1>12. ASSUME NEW k \in 1..MaxKey, Restart(k) PROVE Rest'
  <2>1. CallbacksHold'
    BY <1>12 DEF Restart, CallbacksHold
  <2>2. RemoversHold'
    BY <1>12 DEF Restart, RemoversHold
  <2>3. TokensAreApart'
    BY <1>12 DEF Restart, TokensAreApart
  <2>4. RowsHold'
    BY <1>12 DEF Restart, RowsHold
  <2> QED
    BY <2>1, <2>2, <2>3, <2>4
<1>13. ASSUME Tick PROVE Rest'
  BY <1>13 DEF Tick, CallbacksHold, RowsHold, RemoversHold, TokensAreApart
<1> QED
  BY <1>1, <1>2, <1>3, <1>4, <1>5, <1>6, <1>7, <1>8, <1>9, <1>10, <1>11, <1>12, <1>13
  DEF Next, CallbackStep, RemoverStep

-----------------------------------------------------------------------------
\* ConsentInv holds in every reachable state.
THEOREM Safety == Spec => []ConsentInv
PROOF
<1>1. ConsentInv /\ UNCHANGED vars => ConsentInv'
  BY DEF vars, ConsentInv, TypeOK, CallbacksHold, RowsHold, RemoversHold,
         TokensAreApart, Exchanged, LiveOrEnded
<1> QED
  BY InitInv, ConsentStep, <1>1, PTL DEF Spec

\* Requests, rows and grants are well typed, however many there are.
THEOREM TypeCorrect == Spec => []TypeOK
PROOF
  BY Safety, PTL DEF ConsentInv

\* A token is in one row, or with one callback, or with disconnects (disconnect,
\* upsert_connection).
THEOREM OneHolder == Spec => []TokensHaveOneHolder
PROOF
<1>1. ASSUME ConsentInv, NEW t \in Tokens, NEW a \in Holders(t), NEW b \in Holders(t)
      PROVE a = b
  <2> DEFINE InRow(i) == Connected(i) /\ conn[i].token = t
             InStore(c) == callback[c].pc = "store" /\ callback[c].token = t
             InRevoke(d) == remover[d].pc = "revoke" /\ remover[d].token = t
             In(x) == \/ \E i \in Conns : x = <<"row", i>> /\ InRow(i)
                      \/ \E c \in Callbacks : x = <<"callback", c>> /\ InStore(c)
                      \/ \E d \in Removers : x = <<"removers">> /\ InRevoke(d)
  <2>1. In(a) /\ In(b)
    BY <1>1 DEF Holders
  <2>2. \A i, j \in Conns : InRow(i) /\ InRow(j) => i = j
    BY <1>1 DEF ConsentInv, TokensAreApart
  <2>3. \A c, e \in Callbacks : InStore(c) /\ InStore(e) => c = e
    BY <1>1 DEF ConsentInv, TokensAreApart
  <2>4. \A i \in Conns, c \in Callbacks : ~(InRow(i) /\ InStore(c))
    BY <1>1 DEF ConsentInv, TokensAreApart
  <2>5. None # t
    BY <1>1, ConsentAssumption
  <2>6. \A d \in Removers, i \in Conns : ~(InRevoke(d) /\ InRow(i))
    BY <1>1, <2>5 DEF ConsentInv, RemoversHold
  <2>7. \A d \in Removers, c \in Callbacks : ~(InRevoke(d) /\ InStore(c))
    BY <1>1, <2>5 DEF ConsentInv, RemoversHold
  <2> QED
    BY <2>1, <2>2, <2>3, <2>4, <2>6, <2>7
<1>2. ConsentInv => TokensHaveOneHolder
  BY <1>1 DEF TokensHaveOneHolder
<1> QED
  BY <1>2, Safety, PTL

\* No disconnect revokes what a row holds: its token is live unless Google ended it with
\* all that its account had granted (disconnect, revoke_refresh_token).
THEOREM RowsAreLive == Spec => []RowTokensAreLive
PROOF
<1>1. ConsentInv => RowTokensAreLive
  BY DEF ConsentInv, RowsHold, LiveOrEnded, RowTokensAreLive
<1> QED
  BY <1>1, Safety, PTL
=============================================================================
