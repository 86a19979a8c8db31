------------------------------ MODULE AmoConnection -----------------------------
(***************************************************************************)
(* The workspace's connection to amoCRM: one row with the account and its  *)
(* encrypted tokens, written by the OAuth callback, by disconnect and by   *)
(* AmoTokenManager, which refreshes tokens over HTTP with no lock held on  *)
(* the row.  Each process has a lock of its own, no two processes share it. *)
(*                                                                         *)
(* amoCRM replaces the refresh token with every use: the tokens of an      *)
(* account are numbered, and only the last number is good.                 *)
(***************************************************************************)
EXTENDS Naturals

CONSTANTS
    Account,        \* amoCRM accounts
    State,          \* OAuth states, one for each authorization started
    Process,        \* processes that refresh tokens
    MaxToken,       \* bound on the numbers of tokens
    MaxVersion      \* bound on the version of the row

VARIABLES
    connection,     \* the row of amocrm_connections
    oauth,          \* oauth[s]: the state and the callback that consumed it
    refresh,        \* refresh[p]: the refresh that runs in p
    amo,            \* amo[a]: the last token number of the account
    lost,           \* accounts whose last tokens went missing, or under older ones
    crossed         \* a write has met a row that changed since it was read

vars == <<connection, oauth, refresh, amo, lost, crossed>>

NoTokens == [account |-> "none", number |-> 0]
Tokens == [account : Account, number : 1..MaxToken]

Idle == [stage |-> "idle"]

TypeOK ==
    /\ connection \in [status : {"absent", "connected", "disconnected"},
                       account : Account \cup {"none"}, tokens : Tokens \cup {NoTokens},
                       version : 0..MaxVersion]
    /\ oauth \in [State -> [stage : {"none", "issued", "used"}]
                    \cup [stage : {"consumed"}]
                    \cup [stage : {"exchanged"}, tokens : Tokens]
                    \cup [stage : {"loaded"}, tokens : Tokens, version : 0..MaxVersion,
                          status : {"absent", "connected", "disconnected"}]]
    /\ refresh \in [Process -> {Idle} \cup [stage : {"loaded", "received"}, tokens : Tokens,
                                            version : 0..MaxVersion]]
    /\ amo \in [Account -> 0..MaxToken]
    /\ lost \subseteq Account /\ crossed \in BOOLEAN

Init ==
    /\ connection = [status |-> "absent", account |-> "none", tokens |-> NoTokens, version |-> 0]
    /\ oauth = [s \in State |-> [stage |-> "none"]]
    /\ refresh = [p \in Process |-> Idle]
    /\ amo = [a \in Account |-> 0]
    /\ lost = {}
    /\ crossed = FALSE

Proceeds(s, record) == oauth' = [oauth EXCEPT ![s] = record]
Continues(p, record) == refresh' = [refresh EXCEPT ![p] = record]

(* The bound of the model. *)
MayBump(version) == version < MaxVersion

(* amoCRM answers with new tokens of the account. *)
Issued(a) ==
    /\ amo[a] < MaxToken
    /\ amo' = [amo EXCEPT ![a] = @ + 1]

-------------------------------------------------------------------------------
(* Connecting. *)

StartOAuth(s) ==
    /\ oauth[s].stage = "none"
    /\ Proceeds(s, [stage |-> "issued"])
    /\ UNCHANGED <<connection, refresh, amo, lost, crossed>>

(* UPDATE ... WHERE consumed_at IS NULL, committed before anything else *)
ConsumeState(s) ==
    /\ oauth[s].stage = "issued"
    /\ Proceeds(s, [stage |-> "consumed"])
    /\ UNCHANGED <<connection, refresh, amo, lost, crossed>>

Exchange(s, a) ==
    /\ oauth[s].stage = "consumed"
    /\ Issued(a)
    /\ Proceeds(s, [stage |-> "exchanged", tokens |-> [account |-> a, number |-> amo'[a]]])
    /\ UNCHANGED <<connection, refresh, lost, crossed>>

LoadConnection(s) ==
    /\ oauth[s].stage = "exchanged"
    /\ Proceeds(s, [stage |-> "loaded", tokens |-> oauth[s].tokens,
                    version |-> connection.version, status |-> connection.status])
    /\ UNCHANGED <<connection, refresh, amo, lost, crossed>>

(* The columns whose values changed since the row was loaded are written:  *)
(* a status that was "connected" then is not written now.  An insert that  *)
(* meets a row fails on the unique key.                                    *)
OauthCallback(s) ==
    /\ oauth[s].stage = "loaded" /\ MayBump(oauth[s].version)
    /\ LET q == oauth[s]
           refused == q.status = "absent" /\ connection.status # "absent"
       IN  /\ connection' = IF refused THEN connection
                            ELSE [status |-> IF q.status = "connected" THEN connection.status
                                             ELSE "connected",
                                  account |-> q.tokens.account, tokens |-> q.tokens,
                                  version |-> q.version + 1]
           /\ crossed' = (crossed \/ (~refused /\ q.version # connection.version))
           /\ lost' = IF refused \/ q.tokens.number # amo[q.tokens.account]
                      THEN lost \cup {q.tokens.account}
                      ELSE lost \ {q.tokens.account}
    /\ Proceeds(s, [stage |-> "used"])
    /\ UNCHANGED <<refresh, amo>>

(* A refusal, a wrong account, an error or the end of the request: the     *)
(* state stays used.                                                       *)
AbandonCallback(s) ==
    /\ oauth[s].stage \in {"consumed", "exchanged", "loaded"}
    /\ lost' = IF oauth[s].stage = "consumed" THEN lost ELSE lost \cup {oauth[s].tokens.account}
    /\ Proceeds(s, [stage |-> "used"])
    /\ UNCHANGED <<connection, refresh, amo, crossed>>

Disconnect(expected) ==
    /\ connection.status # "absent" /\ connection.version = expected
    /\ MayBump(expected)
    /\ connection' = [connection EXCEPT !.status = "disconnected", !.tokens = NoTokens,
                                        !.version = expected + 1]
    /\ UNCHANGED <<oauth, refresh, amo, lost, crossed>>

-------------------------------------------------------------------------------
(* AmoTokenManager.snapshot when the access token is about to expire, or   *)
(* was refused.                                                            *)

Load(p) ==
    /\ refresh[p] = Idle
    /\ connection.status = "connected"
    /\ Continues(p, [stage |-> "loaded", tokens |-> connection.tokens,
                     version |-> connection.version])
    /\ UNCHANGED <<connection, oauth, amo, lost, crossed>>

(* refresh_oauth_tokens: a token that was used before is refused. *)
RefreshTokens(p) ==
    /\ refresh[p].stage = "loaded"
    /\ LET a == refresh[p].tokens.account
       IN  IF refresh[p].tokens.number = amo[a]
           THEN /\ Issued(a)
                /\ Continues(p, [refresh[p] EXCEPT !.stage = "received", !.tokens.number = @ + 1])
           ELSE Continues(p, Idle) /\ UNCHANGED amo
    /\ UNCHANGED <<connection, oauth, lost, crossed>>

(* Faulty variant of StoreTokens: a disconnected row takes the tokens and  *)
(* is connected again.                                                     *)
StoreTokensAnyStatus(p) ==
    /\ refresh[p].stage = "received" /\ MayBump(connection.version)
    /\ connection' = [connection EXCEPT !.status = "connected", !.version = @ + 1]
    /\ Continues(p, Idle)
    /\ UNCHANGED <<oauth, amo, lost, crossed>>

(* The row is found by its id, connected, and locked; whether it still is  *)
(* the connection that was read is not compared.                           *)
StoreTokens(p) ==
    /\ refresh[p].stage = "received"
    /\ connection.status = "connected" /\ MayBump(connection.version)
    /\ connection' = [connection EXCEPT !.tokens = refresh[p].tokens, !.version = @ + 1]
    /\ crossed' = (crossed \/ refresh[p].version # connection.version)
    /\ Continues(p, Idle)
    /\ UNCHANGED <<oauth, amo, lost>>

(* Disconnected meanwhile, a lost answer, an error, the end of the process *)
AbandonRefresh(p) ==
    /\ refresh[p] # Idle
    /\ lost' = IF refresh[p].stage = "received" THEN lost \cup {refresh[p].tokens.account}
               ELSE lost
    /\ Continues(p, Idle)
    /\ UNCHANGED <<connection, oauth, amo, crossed>>

Next ==
    \/ \E s \in State :
          \/ StartOAuth(s) \/ ConsumeState(s) \/ LoadConnection(s)
          \/ OauthCallback(s) \/ AbandonCallback(s)
          \/ \E a \in Account : Exchange(s, a)
    \/ Disconnect(connection.version)
    \/ \E p \in Process : Load(p) \/ RefreshTokens(p) \/ StoreTokens(p) \/ AbandonRefresh(p)

Spec == Init /\ [][Next]_vars

-------------------------------------------------------------------------------
(* Those who have tokens of the account newer than the row's *)
Carries(a) ==
    \/ \E p \in Process : refresh[p].stage = "received" /\ refresh[p].tokens.account = a
    \/ \E s \in State : /\ oauth[s].stage \in {"exchanged", "loaded"}
                        /\ oauth[s].tokens.account = a

(* A connected row always has tokens; and unless a write met a row that    *)
(* had changed since it was read, they are its account's, the last that    *)
(* amoCRM gave, or newer ones are under way or were lost.                  *)
CredentialsFit ==
    connection.status = "connected" =>
        /\ connection.tokens # NoTokens
        /\ ~crossed =>
              LET a == connection.tokens.account
              IN  /\ a = connection.account
                  /\ connection.tokens.number = amo[a] \/ a \in lost \/ Carries(a)
===============================================================================
