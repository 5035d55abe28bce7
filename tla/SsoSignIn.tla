----------------------------- MODULE SsoSignIn -----------------------------
(***************************************************************************)
(* Signing in with AIRAOS: the login page and the callback page of the     *)
(* console, GET /auth/login, POST /auth/callback and auth/airaos.ts. The   *)
(* tabs of one browser share its cookies. A flow stands for the state, the *)
(* nonce and the PKCE verifier made together, which live in three cookies  *)
(* that are always set and cleared together.                               *)
(*                                                                         *)
(* The identity provider is external: it gives a code for a flow, and      *)
(* takes a code once, with the verifier of its flow.                       *)
(***************************************************************************)
EXTENDS Naturals, Sequences, FiniteSets

CONSTANTS
  Tabs,
  Posts,        \* POSTs of /auth/callback in flight at once
  MaxFlows,     \* bound on the flows begun
  MaxCodes,     \* bound on the codes the provider gives
  MaxAttempts,  \* of the login page to read the methods, 9 in the code
  Claims,       \* of the tokens the provider may give: [amr, acr]
  NoTab

ASSUME NoTabAssumption == NoTab \notin Tabs
ASSUME SsoAssumption == MaxFlows \in Nat /\ MaxCodes \in Nat /\ MaxAttempts \in Nat \ {0}

VARIABLES
  flows,    \* how many flows the API has begun; they are numbered from 1
  jar,      \* the flow in the cookies, or 0
  codes,    \* what the provider has given
  tabs,
  posts,
  answered  \* history: flows one of whose callbacks this browser has an answer to

ssoVars == <<flows, jar, codes, tabs, posts, answered>>

Code == [flow : 1..MaxFlows, spent : BOOLEAN]

\* crossed, a history: something besides this tab's one pass through the flow has
\* touched its cookies or its code: another tab, going back, or a reload.
Tab == [page : {"methods", "login", "starting", "idp", "callback", "posting", "failed", "console"},
        tries : 1..MaxAttempts, flow : 0..MaxFlows, code : 0..MaxCodes,
        why : {"none", "provider", "network", "mismatch", "refused"}, crossed : BOOLEAN]
LoginPage == [page |-> "methods", tries |-> 1, flow |-> 0, code |-> 0,
              why |-> "none", crossed |-> FALSE]

Outcome == {"ok", "mismatch", "refused"}
Post == [step : {"idle", "sent"} \union Outcome, tab : Tabs \union {NoTab},
         code : 0..MaxCodes, state : 0..MaxFlows, cookie : 0..MaxFlows]
NoPost == [step |-> "idle", tab |-> NoTab, code |-> 0, state |-> 0, cookie |-> 0]

SsoTypeOK ==
  /\ flows \in 0..MaxFlows
  /\ jar \in 0..flows
  /\ codes \in Seq(Code) /\ Len(codes) <= MaxCodes
  /\ tabs \in [Tabs -> Tab]
  /\ posts \in [Posts -> Post]
  /\ answered \subseteq 1..flows

SsoInit ==
  /\ flows = 0 /\ jar = 0 /\ codes = <<>>
  /\ tabs = [t \in Tabs |-> LoginPage]
  /\ posts = [p \in Posts |-> NoPost]
  /\ answered = {}

----------------------------------------------------------------------------
\* The login page asks for the methods, again after an error that may pass.
MethodsArrive(t) ==
  /\ tabs[t].page = "methods"
  /\ tabs' = [tabs EXCEPT ![t].page = "login"]
  /\ UNCHANGED <<flows, jar, codes, posts, answered>>

MethodsFail(t) ==
  /\ tabs[t].page = "methods"
  /\ tabs[t].tries < MaxAttempts
  /\ tabs' = [tabs EXCEPT ![t].tries = @ + 1]
  /\ UNCHANGED <<flows, jar, codes, posts, answered>>

\* The last attempt or an error that stays: an error, and no way on but a reload.
MethodsGivenUp(t) ==
  /\ tabs[t].page = "methods"
  /\ tabs' = [tabs EXCEPT ![t].page = "failed", ![t].why = "network"]
  /\ UNCHANGED <<flows, jar, codes, posts, answered>>

\* startSso; the button is busy until an answer comes.
StartSso(t) ==
  /\ tabs[t].page = "login"
  /\ flows < MaxFlows
  /\ flows' = flows + 1
  /\ tabs' = [tabs EXCEPT ![t] = [LoginPage EXCEPT !.page = "starting", !.flow = flows + 1]]
  /\ UNCHANGED <<jar, codes, posts, answered>>

StartFails(t) ==
  /\ tabs[t].page = "starting"
  /\ tabs' = [tabs EXCEPT ![t].page = "login", ![t].flow = 0]
  /\ UNCHANGED <<flows, jar, codes, posts, answered>>

\* Another tab's answer sets or clears the cookies the tabs under way rely on.
Crossed(t) ==
  [u \in Tabs |-> IF u # t /\ tabs[u].page \in {"idp", "callback", "posting"}
                    THEN [tabs[u] EXCEPT !.crossed = TRUE] ELSE tabs[u]]

\* The answer to GET /auth/login sets the three cookies, and the tab leaves for AIRAOS.
Redirect(t) ==
  /\ tabs[t].page = "starting"
  /\ jar' = tabs[t].flow
  /\ tabs' = [Crossed(t) EXCEPT ![t].page = "idp"]
  /\ UNCHANGED <<flows, codes, posts, answered>>

----------------------------------------------------------------------------
\* At the provider.

RequestAuthorisation(t) ==
  /\ tabs[t].page = "idp"
  /\ Len(codes) < MaxCodes
  /\ codes' = Append(codes, [flow |-> tabs[t].flow, spent |-> FALSE])
  /\ tabs' = [tabs EXCEPT ![t].page = "callback", ![t].code = Len(codes) + 1]
  /\ UNCHANGED <<flows, jar, posts, answered>>

Decline(t) ==
  /\ tabs[t].page = "idp"
  /\ tabs' = [tabs EXCEPT ![t].page = "failed", ![t].why = "provider"]
  /\ UNCHANGED <<flows, jar, codes, posts, answered>>

\* The page that posted is left: nobody waits for the answer, whose cookies may still come.
Left(t) == [p \in Posts |-> IF posts[p].tab = t THEN [posts[p] EXCEPT !.tab = NoTab] ELSE posts[p]]

\* The browser's back button, from a callback page to the provider's.
GoBack(t) ==
  /\ tabs[t].page \in {"callback", "posting", "failed"}
  /\ tabs[t].flow # 0
  /\ tabs' = [tabs EXCEPT ![t].page = "idp", ![t].why = "none", ![t].crossed = TRUE]
  /\ posts' = Left(t)
  /\ UNCHANGED <<flows, jar, codes, answered>>

----------------------------------------------------------------------------
\* The callback page and POST /auth/callback.

\* Seeded bug: React's second run of the effect posts the code again.
ExchangedAgain(t) ==
  IF \E p \in Posts : posts[p].tab = t THEN "posting" ELSE "callback"

\* The effect of the page runs its exchange once for each time it is loaded. The POST
\* carries the cookies the browser has now.
Exchanged(t) == "posting"

PostCallback(t, p) ==
  /\ tabs[t].page = "callback"
  /\ posts[p].step = "idle"
  /\ p = CHOOSE q \in Posts : posts[q].step = "idle"
  /\ posts' = [posts EXCEPT ![p] =
       [step |-> "sent", tab |-> t, code |-> tabs[t].code, state |-> tabs[t].flow, cookie |-> jar]]
  /\ tabs' = [tabs EXCEPT ![t].page = Exchanged(t)]
  /\ UNCHANGED <<flows, jar, codes, answered>>

\* The page is loaded anew, while its POST goes on at the server.
ReloadLogin(t) ==
  /\ tabs[t].page \in {"posting", "failed"}
  /\ tabs[t].code # 0
  /\ tabs' = [tabs EXCEPT ![t].page = "callback", ![t].why = "none", ![t].crossed = TRUE]
  /\ posts' = Left(t)
  /\ UNCHANGED <<flows, jar, codes, answered>>

BackToSignIn(t) ==
  /\ tabs[t].page = "failed"
  /\ tabs' = [tabs EXCEPT ![t] = LoginPage]
  /\ UNCHANGED <<flows, jar, codes, posts, answered>>

\* The state in the body is the one in the cookie, and no cookie is missing.
OfThisBrowser(p) == posts[p].cookie # 0 /\ posts[p].state = posts[p].cookie

\* The provider takes a code once, with the verifier of its flow.
Exchangeable(p) == LET code == codes[posts[p].code] IN ~code.spent /\ code.flow = posts[p].cookie

Factors == {"pwd", "otp", "sms", "hwk", "swk", "face", "fpt"}

\* What `amr` and `acr` say of a second factor; a factor named twice counts as two.
HasMfaClaim(claims) ==
  LET methods == {claims.amr[i] : i \in 1..Len(claims.amr)}
      factors == {i \in 1..Len(claims.amr) : claims.amr[i] \in Factors}
  IN \/ methods \intersect {"mfa", "otp", "hwk"} # {}
     \/ Cardinality(factors) >= 2
     \/ claims.acr = "mfa"

Spend(p) == codes' = [codes EXCEPT ![posts[p].code].spent = TRUE]

RejectCallback(p) ==
  /\ posts[p].step = "sent"
  /\ ~OfThisBrowser(p) \/ ~Exchangeable(p)
  /\ posts' = [posts EXCEPT ![p].step = "mismatch"]
  /\ UNCHANGED <<flows, jar, codes, tabs, answered>>

\* exchangeCode, whose token has some claims, and createSession; the exchange is never retried.
CompleteCallback(p, claims) ==
  /\ posts[p].step = "sent"
  /\ OfThisBrowser(p) /\ Exchangeable(p)
  /\ HasMfaClaim(claims)
  /\ Spend(p)
  /\ posts' = [posts EXCEPT ![p].step = "ok"]
  /\ UNCHANGED <<flows, jar, tabs, answered>>

\* No second factor, an account that is deactivated or has no role, or an answer of the
\* provider that is lost when the code is spent already.
RefuseCallback(p) ==
  /\ posts[p].step = "sent"
  /\ OfThisBrowser(p) /\ Exchangeable(p)
  /\ Spend(p)
  /\ posts' = [posts EXCEPT ![p].step = "refused"]
  /\ UNCHANGED <<flows, jar, tabs, answered>>

\* Seeded bug: the flow's cookies are cleared with the session's cookie only.
ClearedOnSuccess(p) == IF posts[p].step = "ok" THEN 0 ELSE jar

\* The answer clears the cookies, whatever it says and whichever flow is in them.
ClearedJar(p) == 0

ReceiveCallback(p) ==
  LET t == posts[p].tab IN
  /\ posts[p].step \in Outcome
  /\ jar' = ClearedJar(p)
  /\ answered' = answered \union ({posts[p].cookie} \ {0})
  /\ tabs' = IF t = NoTab THEN Crossed(t)
             ELSE IF posts[p].step = "ok" THEN [Crossed(t) EXCEPT ![t].page = "console"]
             ELSE [Crossed(t) EXCEPT ![t].page = "failed", ![t].why = posts[p].step]
  /\ posts' = [posts EXCEPT ![p] = NoPost]
  /\ UNCHANGED <<flows, codes>>

\* The connection breaks, or the page that asked is gone and with it the answer.
LoseCallback(p) ==
  LET t == posts[p].tab IN
  /\ posts[p].step # "idle"
  /\ tabs' = IF t = NoTab THEN tabs
             ELSE [tabs EXCEPT ![t].page = "failed", ![t].why = "network"]
  /\ posts' = [posts EXCEPT ![p] = NoPost]
  /\ UNCHANGED <<flows, jar, codes, answered>>

SsoNext ==
  \/ \E t \in Tabs : \/ MethodsArrive(t) \/ MethodsFail(t) \/ MethodsGivenUp(t)
                     \/ StartSso(t) \/ StartFails(t) \/ Redirect(t) \/ Decline(t)
                     \/ RequestAuthorisation(t) \/ GoBack(t) \/ ReloadLogin(t) \/ BackToSignIn(t)
  \/ \E t \in Tabs, p \in Posts : PostCallback(t, p)
  \/ \E p \in Posts, claims \in Claims : CompleteCallback(p, claims)
  \/ \E p \in Posts : \/ RejectCallback(p) \/ RefuseCallback(p)
                      \/ ReceiveCallback(p) \/ LoseCallback(p)

SsoSpec == SsoInit /\ [][SsoNext]_ssoVars

----------------------------------------------------------------------------
\* An operator who goes through one sign-in at a time is never told to start again: a
\* tab ends with a mismatch of its state, cookies or code only after another tab's
\* answer touched the shared cookies, or after going back or reloading.
LoneSignInsAreNotMismatched ==
  \A t \in Tabs : tabs[t].why = "mismatch" => tabs[t].crossed

\* routes/auth.ts:75-76, "a leftover verifier is a replay opportunity": once a callback
\* has been answered, whatever it said, its flow is in the cookies no more.
AnsweredFlowsLeaveTheJar == jar \notin answered

\* What single sign-on promises tabs that share their cookies.
SsoPromise ==
  /\ SsoTypeOK
  /\ LoneSignInsAreNotMismatched
  /\ AnsweredFlowsLeaveTheJar

\* The invariant behind it. Flows and codes are numbered as they come.
NumbersAreGiven ==
  /\ \A t \in Tabs : /\ tabs[t].flow \in 0..flows /\ tabs[t].code \in 0..Len(codes)
                     /\ tabs[t].page \in {"starting", "idp", "callback", "posting"} => tabs[t].flow # 0
                     /\ tabs[t].page \in {"callback", "posting"} => tabs[t].code # 0
                     /\ tabs[t].page \in {"methods", "login", "starting"} => tabs[t].code = 0
                     /\ tabs[t].code # 0 => tabs[t].flow # 0
  /\ \A p \in Posts : /\ posts[p].cookie \in 0..flows /\ posts[p].code \in 0..Len(codes)
                      /\ posts[p].step # "idle" => posts[p].code # 0

\* A flow just begun is in no cookie and no callback yet, and is one tab's.
BegunFlowsAreFresh ==
  \A t \in Tabs : tabs[t].page = "starting" =>
    /\ tabs[t].flow # jar /\ tabs[t].flow \notin answered
    /\ \A p \in Posts : posts[p].cookie # tabs[t].flow
    /\ \A u \in Tabs \ {t} : tabs[u].page = "starting" => tabs[u].flow # tabs[t].flow

\* A code comes to one tab, and a tab waits for one answer at most, to its own code.
CodesAreOneTabs ==
  /\ \A t, u \in Tabs : t # u /\ tabs[t].code = tabs[u].code => tabs[t].code = 0
  /\ \A p \in Posts : LET t == posts[p].tab IN t # NoTab =>
       /\ tabs[t].page = "posting" /\ posts[p].step # "idle"
       /\ posts[p].code = tabs[t].code /\ posts[p].state = tabs[t].flow
       /\ \A q \in Posts \ {p} : posts[q].tab # t

\* A sign-in nothing has crossed has its cookies, and its code until it is spent on it.
Unspent(t) == codes[tabs[t].code].flow = tabs[t].flow /\ ~codes[tabs[t].code].spent

HoldsItsSignIn(t) ==
  /\ tabs[t].page \in {"idp", "callback"} => jar = tabs[t].flow
  /\ tabs[t].page = "callback" => Unspent(t)
  /\ tabs[t].page \in {"callback", "posting"} =>
       \A p \in Posts : posts[p].step # "idle" /\ posts[p].code = tabs[t].code => posts[p].tab = t
  /\ \A p \in Posts : posts[p].tab = t =>
       /\ posts[p].cookie = tabs[t].flow /\ posts[p].step # "mismatch"
       /\ posts[p].step = "sent" => Unspent(t)

LoneSignInsHold == \A t \in Tabs : ~tabs[t].crossed => HoldsItsSignIn(t)

SsoInvariant ==
  /\ SsoPromise
  /\ NumbersAreGiven
  /\ BegunFlowsAreFresh
  /\ CodesAreOneTabs
  /\ LoneSignInsHold
=============================================================================
