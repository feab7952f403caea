-------------------------------- MODULE SignIn --------------------------------
(***************************************************************************)
(* Signing in with a wallet: the tabs of one browser (WalletConnectButton, *)
(* useSession), which share its cookies and its wallet extension, and the  *)
(* api-server's routes under /api/auth, one action per database statement. *)
(* A signature and the body of a message are abstracted to the account     *)
(* that signed, the nonce and the expiry; the user row, whose email is the *)
(* wallet's address, is identified with the wallet.                        *)
(***************************************************************************)
EXTENDS Naturals, FiniteSets

CONSTANTS
    Tabs,       \* tabs of the browser
    Wallets,    \* accounts of its wallet extension
    NonceTtl,   \* NONCE_TTL_MS
    MaxAge,     \* SESSION_MAX_AGE_SECONDS
    UpdateAge,  \* SESSION_UPDATE_AGE_SECONDS
    MaxTime,    \* bound on the clock
    Budget      \* bounds on clicks, account switches and failures

Spending == {"click", "switch", "fault"}

ASSUME SignInAssumption ==
    /\ NonceTtl \in Nat \ {0} /\ MaxAge \in Nat \ {0}
    /\ UpdateAge \in 0..MaxAge /\ MaxTime \in Nat
    /\ Budget \in [Spending -> Nat]

None == "none"
ASSUME NoneIsNoWallet == None \notin Wallets

VARIABLES
    now,         \* the clock
    account,     \* the account the wallet offers, None while disconnected
    nonceCookie, \* cc_siwe_nonce: [nonce, expires], nonce 0 for none
    cookie,      \* cc_session: the session's token, 0 for none
    ui,          \* each tab's button: where it is and what it carries
    view,        \* each tab's session.data: the wallet shown, or None
    fetching,    \* each tab's request for the session: what it was answered
    users,       \* wallets with a row in users
    identities,  \* wallets whose user has a row in user_identities
    bound,       \* wallets with an active row in wallet_bindings
    sessions,    \* rows of sessions
    issued,      \* nonces and tokens drawn so far
    spent        \* how much of the budget is used

browser  == <<account, nonceCookie, cookie>>
database == <<users, identities, bound, sessions>>
vars == <<now, browser, ui, view, fetching, database, issued, spent>>

-----------------------------------------------------------------------------
(* Types                                                                     *)

\* "wallet" to "verification" and "logout" are the button's InteractionStep;
\* from "findUser" on the tab waits for the verify route, which is there.
Verifying == {"verification", "findUser", "createUser", "findIdentity",
              "createIdentity", "findBinding", "bind", "openSession", "answer"}
LoggingOut == {"logout", "endSession", "disconnect"}
Steps == {"idle", "wallet", "nonce", "signature"} \cup Verifying \cup LoggingOut

Ui == [step : Steps, auto : BOOLEAN, wallet : Wallets \cup {None}, signer : Wallets \cup {None},
       nonce : Nat, sent : Nat, expires : Nat, token : Nat, clean : BOOLEAN]
Resting == [step |-> "idle", auto |-> FALSE, wallet |-> None, signer |-> None,
            nonce |-> 0, sent |-> 0, expires |-> 0, token |-> 0, clean |-> TRUE]

NoFetch == "nothing"
NoNonce == [nonce |-> 0, expires |-> 0]
Session == [token : Nat, wallet : Wallets, expires : Nat]

-----------------------------------------------------------------------------
At(t, step)   == ui[t].step = step
Goto(t, step) == ui' = [ui EXCEPT ![t].step = step]

\* finally: the button rests, whatever happened.
Rest(t) == ui' = [ui EXCEPT ![t] = Resting]

Spend(what) == spent[what] < Budget[what] /\ spent' = [spent EXCEPT ![what] = @ + 1]

\* What GET /api/auth/session answers: the wallet of a session that has not
\* expired.  It does not renew the session.
Answer == IF \E s \in sessions : s.token = cookie /\ s.expires > now
          THEN (CHOOSE s \in sessions : s.token = cookie).wallet ELSE None

\* The route deletes the row of an expired session.
Swept == {s \in sessions : s.token = cookie => s.expires > now}

Init ==
    /\ now = 0
    /\ account = None
    /\ nonceCookie = NoNonce
    /\ cookie = 0
    /\ ui = [t \in Tabs |-> Resting]
    /\ view = [t \in Tabs |-> None]
    /\ fetching = [t \in Tabs |-> NoFetch]
    /\ users = {} /\ identities = {} /\ bound = {} /\ sessions = {}
    /\ issued = 0
    /\ spent = [what \in Spending |-> 0]

-----------------------------------------------------------------------------
(* The button                                                                *)

\* handlePrimaryAction: connect first when no wallet is connected.
Click(t) ==
    /\ ui[t].step \in {"idle", "wallet"}
    /\ Spend("click")
    /\ ui' = [ui EXCEPT ![t] =
                IF view[t] # None THEN [Resting EXCEPT !.step = "logout"]
                ELSE IF account = None THEN [Resting EXCEPT !.step = "wallet", !.auto = TRUE]
                ELSE [Resting EXCEPT !.step = "nonce", !.wallet = account]]
    /\ UNCHANGED <<now, browser, view, fetching, database, issued>>

\* The user picks an account in the extension: every tab sees it.
SwitchAccount(w) ==
    /\ w # account
    /\ account # None => Spend("switch")
    /\ account = None => UNCHANGED spent
    /\ account' = w
    /\ UNCHANGED <<now, nonceCookie, cookie, ui, view, fetching, database, issued>>

\* The effect that goes on to sign in once a wallet is connected.
Continue(t) ==
    /\ ui[t].auto /\ account # None /\ view[t] = None
    /\ ui[t].step \in {"idle", "wallet"}
    /\ ui' = [ui EXCEPT ![t] = [Resting EXCEPT !.step = "nonce", !.auto = TRUE,
                                               !.wallet = account]]
    /\ UNCHANGED <<now, browser, view, fetching, database, issued, spent>>

\* POST /api/auth/siwe/start: the nonce is kept in the cookie alone.
StartSiwe(t) ==
    /\ At(t, "nonce")
    /\ issued' = issued + 1
    /\ nonceCookie' = [nonce |-> issued', expires |-> now + NonceTtl]
    /\ ui' = [ui EXCEPT ![t].step = "signature", ![t].nonce = issued',
                        ![t].expires = now + NonceTtl]
    /\ UNCHANGED <<now, account, cookie, view, fetching, database, spent>>

\* The extension signs with the account it has by then; the request carries
\* the cookies of that moment, an expired one not.
SignMessage(t) ==
    /\ At(t, "signature")
    /\ ui' = [ui EXCEPT ![t].step = "verification", ![t].signer = account,
                        ![t].sent = IF nonceCookie.expires > now THEN nonceCookie.nonce ELSE 0]
    /\ UNCHANGED <<now, browser, view, fetching, database, issued, spent>>

RejectSignature(t) ==
    /\ At(t, "signature")
    /\ Rest(t)
    /\ UNCHANGED <<now, browser, view, fetching, database, issued, spent>>

-----------------------------------------------------------------------------
(* POST /api/auth/siwe/verify                                                *)

\* The checks of the message against the cookie, the clock and the signature.
Good(r) == r.sent # 0 /\ r.sent = r.nonce /\ r.expires > now /\ r.signer = r.wallet

Overlapping(t) == \E u \in Tabs \ {t} : ui[u].step \in Verifying \ {"verification"}

\* `clean`: no other verification was under way with this one (for the
\* properties only; no action depends on it).
CheckMessage(t) ==
    /\ At(t, "verification")
    /\ IF Good(ui[t])
       THEN ui' = [u \in Tabs |->
                     IF u = t THEN [ui[u] EXCEPT !.step = "findUser", !.clean = ~Overlapping(t)]
                     ELSE IF ui[u].step \in Verifying THEN [ui[u] EXCEPT !.clean = FALSE]
                     ELSE ui[u]]
       ELSE Rest(t)
    /\ UNCHANGED <<now, browser, view, fetching, database, issued, spent>>

Look(t, step, table, found, missing) ==
    /\ At(t, step)
    /\ Goto(t, IF ui[t].wallet \in table THEN found ELSE missing)
    /\ UNCHANGED <<now, browser, view, fetching, database, issued, spent>>

\* Mutants: the identity is not looked for; a wallet is taken for bound.
FindIdentityNever(t) == Look(t, "findIdentity", {}, "findBinding", "createIdentity")
FindBindingAlways(t) == Look(t, "findBinding", Wallets, "openSession", "bind")

\* getUserByEmail; the select of ensureUserIdentity; findActiveBinding.
FindUser(t)     == Look(t, "findUser", users, "findIdentity", "createUser")
FindIdentity(t) == Look(t, "findIdentity", identities, "findBinding", "createIdentity")
FindBinding(t)  == Look(t, "findBinding", bound, "openSession", "bind")

\* An insert under a unique index.  When another verification was faster it
\* fails, and with it the request: bindWallet's second look is made in a
\* transaction the violation has already aborted.
Insert(t, step, table, next) ==
    /\ At(t, step)
    /\ IF ui[t].wallet \in table
       THEN Rest(t) /\ UNCHANGED table
       ELSE Goto(t, next) /\ table' = table \cup {ui[t].wallet}

CreateUser(t) ==
    /\ Insert(t, "createUser", users, "findIdentity")
    /\ UNCHANGED <<now, browser, view, fetching, identities, bound, sessions, issued, spent>>

CreateIdentity(t) ==
    /\ Insert(t, "createIdentity", identities, "findBinding")
    /\ UNCHANGED <<now, browser, view, fetching, users, bound, sessions, issued, spent>>

Bind(t) ==
    /\ Insert(t, "bind", bound, "openSession")
    /\ UNCHANGED <<now, browser, view, fetching, users, identities, sessions, issued, spent>>

OpenSession(t) ==
    /\ At(t, "openSession")
    /\ issued' = issued + 1
    /\ sessions' = sessions \cup
          {[token |-> issued', wallet |-> ui[t].wallet, expires |-> now + MaxAge]}
    /\ ui' = [ui EXCEPT ![t].step = "answer", ![t].token = issued']
    /\ UNCHANGED <<now, browser, view, fetching, users, identities, bound, spent>>

\* The response sets the session's cookie and clears the nonce's; the button
\* refetches the session, a fetch under way is given up.
AnswerVerify(t) ==
    /\ At(t, "answer")
    /\ cookie' = ui[t].token
    /\ nonceCookie' = NoNonce
    /\ fetching' = [fetching EXCEPT ![t] = NoFetch]
    /\ Rest(t)
    /\ view' = [view EXCEPT ![t] = ui[t].wallet]
    /\ UNCHANGED <<now, account, database, issued, spent>>

\* A database call of the route fails.  A session that was opened is deleted
\* again, if that works.
VerifyFails(t) ==
    /\ ui[t].step \in Verifying
    /\ Spend("fault")
    /\ \/ UNCHANGED sessions
       \/ sessions' = {s \in sessions : s.token # ui[t].token}
    /\ Rest(t)
    /\ UNCHANGED <<now, browser, view, fetching, users, identities, bound, issued>>

-----------------------------------------------------------------------------
(* Sessions                                                                  *)

\* POST /api/auth/logout, requireSession: without a session it answers 401,
\* and the button shows the error and refetches nothing.
Logout(t) ==
    /\ At(t, "logout")
    /\ sessions' = Swept
    /\ IF Answer = None
       THEN Rest(t)
       ELSE ui' = [ui EXCEPT ![t].step = "endSession", ![t].token = cookie]
    /\ UNCHANGED <<now, browser, view, fetching, users, identities, bound, issued, spent>>

\* invalidateSession; the response clears the cookie.
EndSession(t) ==
    /\ At(t, "endSession")
    /\ sessions' = {s \in sessions : s.token # ui[t].token}
    /\ cookie' = 0
    /\ Goto(t, "disconnect")
    /\ UNCHANGED <<now, account, nonceCookie, view, fetching, users, identities, bound, issued,
                   spent>>

\* refetch, then disconnect the wallet.
Disconnect(t) ==
    /\ At(t, "disconnect")
    /\ view' = [view EXCEPT ![t] = Answer]
    /\ fetching' = [fetching EXCEPT ![t] = NoFetch]
    /\ account' = None
    /\ Rest(t)
    /\ UNCHANGED <<now, nonceCookie, cookie, database, issued, spent>>

\* Any other route's requireSession renews a session older than UpdateAge.
Visit ==
    /\ Answer # None
    /\ sessions' = {IF s.token = cookie /\ s.expires + UpdateAge <= now + MaxAge
                    THEN [s EXCEPT !.expires = now + MaxAge] ELSE s : s \in sessions}
    /\ sessions' # sessions
    /\ UNCHANGED <<now, browser, ui, view, fetching, users, identities, bound, issued, spent>>

\* A mutant: the interval runs only while nobody is signed in.
FetchWhileSignedOut(t) ==
    /\ fetching[t] = NoFetch
    /\ view[t] = None /\ Answer # None
    /\ fetching' = [fetching EXCEPT ![t] = Answer]
    /\ sessions' = Swept
    /\ UNCHANGED <<now, browser, ui, view, users, identities, bound, issued, spent>>

\* The query's interval: the request is answered now and arrives later.
Fetch(t) ==
    /\ fetching[t] = NoFetch
    /\ view[t] # Answer
    /\ fetching' = [fetching EXCEPT ![t] = Answer]
    /\ sessions' = Swept
    /\ UNCHANGED <<now, browser, ui, view, users, identities, bound, issued, spent>>

\* A response that failed leaves the data as they were.
Deliver(t) ==
    /\ fetching[t] # NoFetch
    /\ fetching' = [fetching EXCEPT ![t] = NoFetch]
    /\ \/ view' = [view EXCEPT ![t] = fetching[t]] /\ UNCHANGED spent
       \/ Spend("fault") /\ UNCHANGED view
    /\ UNCHANGED <<now, browser, ui, database, issued>>

Pass ==
    /\ now < MaxTime
    /\ now' = now + 1
    /\ UNCHANGED <<browser, ui, view, fetching, database, issued, spent>>

-----------------------------------------------------------------------------
Serve(t) ==
    \/ CheckMessage(t) \/ FindUser(t) \/ CreateUser(t) \/ FindIdentity(t)
    \/ CreateIdentity(t) \/ FindBinding(t) \/ Bind(t) \/ OpenSession(t) \/ AnswerVerify(t)
    \/ Logout(t) \/ EndSession(t) \/ Disconnect(t)

Button(t) == Click(t) \/ Continue(t) \/ StartSiwe(t) \/ SignMessage(t) \/ RejectSignature(t)

Next ==
    \/ \E t \in Tabs : Button(t) \/ Serve(t) \/ VerifyFails(t) \/ Fetch(t) \/ Deliver(t)
    \/ \E w \in Wallets : SwitchAccount(w)
    \/ Visit
    \/ Pass

Spec == Init /\ [][Next]_vars

\* Requests are answered, the effect runs, the query's interval comes round.
FairSpec ==
    /\ Spec
    /\ \A t \in Tabs : /\ WF_vars(Serve(t) \/ Continue(t) \/ StartSiwe(t))
                       /\ WF_vars(Fetch(t)) /\ WF_vars(Deliver(t))

-----------------------------------------------------------------------------
(* Properties                                                                *)

\* Every variable has its type and a token names at most one session.
TypeOK ==
    /\ now \in 0..MaxTime
    /\ account \in Wallets \cup {None}
    /\ nonceCookie \in [nonce : Nat, expires : Nat]
    /\ cookie \in Nat
    /\ ui \in [Tabs -> Ui]
    /\ view \in [Tabs -> Wallets \cup {None}]
    /\ fetching \in [Tabs -> Wallets \cup {None, NoFetch}]
    /\ users \subseteq Wallets /\ identities \subseteq Wallets /\ bound \subseteq Wallets
    /\ sessions \subseteq Session
    /\ issued \in Nat
    /\ \A r, s \in sessions : r.token = s.token => r = s

\* A session's wallet is bound to an identity of a user, whichever of the four
\* inserts of whichever of two verifications failed or lost a race: no request
\* is ever authenticated for a wallet the domain tables do not know.
SessionsAreBacked ==
    /\ \A s \in sessions : s.wallet \in bound
    /\ bound \subseteq identities /\ identities \subseteq users

\* What an earlier attempt left behind, whole or in part, does not stand in the
\* way of the next: a verification that passed its checks and then gave up met
\* a failure of the database or another verification at the same time.
OnlyRacesAndFaultsFail ==
    [][\A t \in Tabs :
         (ui[t].step \in Verifying \ {"verification", "answer"} /\ ui'[t].step = "idle")
             => spent'["fault"] > spent["fault"] \/ ~ui[t].clean]_vars

\* In the end every tab shows the session the browser's cookie stands for,
\* after logouts in another tab, expiry, lost responses and late answers.
ViewsSettle == \A t \in Tabs : <>[](view[t] = Answer)

\* A tab that is signing in or out is at last free again, unless it waits for
\* the user to connect or to sign.
ButtonReturns ==
    \A t \in Tabs : [](ui[t].step \in Verifying \cup LoggingOut \cup {"nonce"} =>
                          <>(ui[t].step \in {"idle", "signature"}))

\* Nothing of a tab stays unsettled: its view comes to tell the session the cookie
\* stands for, and its button comes back.
TabsSettle == ViewsSettle /\ ButtonReturns
================================================================================
