---------------------------- MODULE SignInProofs ----------------------------
(***************************************************************************)
(* Theorems about signing in, for any number of tabs, wallets and failures. *)
(***************************************************************************)
EXTENDS SignIn, TLAPS

-----------------------------------------------------------------------------
(* The inductive invariant                                                   *)

\* The steps of the verify route after its checks.
Verified == Verifying \ {"verification"}

\* A verification has found or written the rows its next step builds on.
BuiltOn(r, us, ids, bs) ==
    /\ r.step \in Verifying \cup {"nonce", "signature"} => r.wallet \in Wallets
    /\ r.step \in {"findIdentity", "createIdentity"} => r.wallet \in us
    /\ r.step \in {"findBinding", "bind"} => r.wallet \in ids
    /\ r.step \in {"openSession", "answer"} => r.wallet \in bs

\* A row that was missed is still missing.
StillMissing(r, us, ids, bs) ==
    /\ r.step = "createUser" => r.wallet \notin us
    /\ r.step = "createIdentity" => r.wallet \notin ids
    /\ r.step = "bind" => r.wallet \notin bs

Built == \A t \in Tabs : BuiltOn(ui[t], users, identities, bound)

\* A verification without company is alone, and what it missed is missing.
Alone ==
    \A t \in Tabs : ui[t].clean /\ ui[t].step \in Verified =>
        /\ \A u \in Tabs \ {t} : ui[u].step \notin Verified
        /\ StillMissing(ui[t], users, identities, bound)

Drawn == \A s \in sessions : s.token <= issued

Inv == TypeOK /\ Drawn /\ SessionsAreBacked /\ Built /\ Alone

-----------------------------------------------------------------------------
\* A tab's step that is not a check of a message.
LEMMA TabMoves ==
    ASSUME TypeOK, Built, Alone, NEW t \in Tabs, NEW r \in Ui, ui' = [ui EXCEPT ![t] = r],
           users \subseteq users', identities \subseteq identities', bound \subseteq bound',
           UNCHANGED <<users, identities, bound>> \/ ui[t].step \in Verified,
           BuiltOn(r, users', identities', bound'),
           r.step \in Verified =>
              /\ ui[t].step \in Verified /\ (r.clean => ui[t].clean)
              /\ r.clean => StillMissing(r, users', identities', bound')
    PROVE  ui' \in [Tabs -> Ui] /\ Built' /\ Alone'
<1>1. /\ ui' \in [Tabs -> Ui] /\ ui'[t] = r
      /\ \A u \in Tabs : u # t => ui'[u] = ui[u]
    BY DEF TypeOK
<1>2. Built'
    BY <1>1 DEF Built, BuiltOn
<1>3. ASSUME NEW u \in Tabs, ui'[u].clean, ui'[u].step \in Verified
      PROVE  /\ \A v \in Tabs \ {u} : ui'[v].step \notin Verified
             /\ StillMissing(ui'[u], users', identities', bound')
  <2>1. CASE u = t
    BY <1>1, <1>3, <2>1 DEF Alone
  <2>2. CASE u # t
    <3>1. /\ \A v \in Tabs \ {u} : ui[v].step \notin Verified
          /\ StillMissing(ui[u], users, identities, bound)
      BY <1>1, <1>3, <2>2 DEF Alone
    <3>2. ui[t].step \notin Verified
      BY <2>2, <3>1
    <3> QED
      BY <1>1, <2>2, <3>1, <3>2
  <2> QED
    BY <2>1, <2>2
<1> QED
    BY <1>1, <1>2, <1>3 DEF Alone

\* A tab that rests, waits or logs out.
LEMMA TabLeaves ==
    ASSUME TypeOK, Built, Alone, NEW t \in Tabs, NEW r \in Ui, ui' = [ui EXCEPT ![t] = r],
           UNCHANGED <<users, identities, bound>>, r.step \notin Verified,
           r.step \in {"nonce", "signature", "verification"} => r.wallet \in Wallets
    PROVE  ui' \in [Tabs -> Ui] /\ Built' /\ Alone'
<1>1. BuiltOn(r, users', identities', bound')
    BY DEF BuiltOn, Verified, Verifying
<1> QED
    BY <1>1, TabMoves

LEMMA RestingIs == Resting \in Ui /\ Resting.step = "idle"
BY DEF Resting, Ui, Steps

\* A tab that gives up.
LEMMA TabRests ==
    ASSUME TypeOK, Built, Alone, NEW t \in Tabs, Rest(t), UNCHANGED <<users, identities, bound>>
    PROVE  ui' \in [Tabs -> Ui] /\ Built' /\ Alone'
<1>1. ui' = [ui EXCEPT ![t] = Resting]
    BY DEF Rest
<1> QED
    BY <1>1, RestingIs, TabLeaves DEF Verified, Verifying

LEMMA ButtonStep ==
    ASSUME Inv, NEW t \in Tabs, Button(t)
    PROVE  Inv'
<1>0. /\ TypeOK /\ Built /\ Alone /\ Drawn /\ SessionsAreBacked
      /\ ui[t] \in Ui /\ issued \in Nat /\ now \in Nat /\ NonceTtl \in Nat
      /\ nonceCookie \in [nonce : Nat, expires : Nat]
    BY SignInAssumption DEF Inv, TypeOK
<1>1. UNCHANGED <<now, account, cookie, view, fetching, database>>
    BY DEF Button, Click, Continue, StartSiwe, SignMessage, RejectSignature, browser
<1>2. ui' \in [Tabs -> Ui] /\ Built' /\ Alone'
  <2>1. UNCHANGED <<users, identities, bound>>
    BY <1>1 DEF database
  <2>2. ASSUME NEW r \in Ui, ui' = [ui EXCEPT ![t] = r], r.step \notin Verified,
               r.step \in {"nonce", "signature", "verification"} => r.wallet \in Wallets
        PROVE  ui' \in [Tabs -> Ui] /\ Built' /\ Alone'
    BY <1>0, <2>1, <2>2, TabLeaves
  <2>3. CASE Click(t)
    <3>1. PICK r : /\ ui' = [ui EXCEPT ![t] = r]
                   /\ \/ r = [Resting EXCEPT !.step = "logout"]
                      \/ r = [Resting EXCEPT !.step = "wallet", !.auto = TRUE]
                      \/ account # None /\ r = [Resting EXCEPT !.step = "nonce", !.wallet = account]
      BY <2>3 DEF Click
    <3>2. r \in Ui /\ r.step \in {"logout", "wallet", "nonce"} /\ (r.step = "nonce" => r.wallet \in Wallets)
      <4>1. CASE r = [Resting EXCEPT !.step = "logout"]
        BY <4>1 DEF Resting, Ui, Steps, LoggingOut
      <4>2. CASE r = [Resting EXCEPT !.step = "wallet", !.auto = TRUE]
        BY <4>2 DEF Resting, Ui, Steps
      <4>3. CASE account # None /\ r = [Resting EXCEPT !.step = "nonce", !.wallet = account]
        <5>1. account \in Wallets
          BY <1>0, <4>3 DEF TypeOK
        <5> QED
          BY <4>3, <5>1 DEF Resting, Ui, Steps
      <4> QED
        BY <3>1, <4>1, <4>2, <4>3
    <3> QED
      BY <2>2, <3>1, <3>2 DEF Verified, Verifying
  <2>4. CASE Continue(t)
    <3>1. PICK r : /\ ui' = [ui EXCEPT ![t] = r] /\ account # None
                   /\ r = [Resting EXCEPT !.step = "nonce", !.auto = TRUE, !.wallet = account]
      BY <2>4 DEF Continue
    <3>2. r \in Ui /\ r.step = "nonce" /\ r.wallet \in Wallets
      BY <1>0, <3>1 DEF Resting, Ui, Steps, TypeOK
    <3> QED
      BY <2>2, <3>1, <3>2 DEF Verified, Verifying
  <2>5. CASE StartSiwe(t)
    <3>1. PICK r : /\ ui' = [ui EXCEPT ![t] = r]
                   /\ r = [ui[t] EXCEPT !.step = "signature", !.nonce = issued',
                                        !.expires = now + NonceTtl]
      BY <1>0, <2>5 DEF StartSiwe, TypeOK
    <3>2. issued' \in Nat /\ now + NonceTtl \in Nat
      BY <1>0, <2>5 DEF StartSiwe
    <3>3. r \in Ui /\ r.step = "signature" /\ r.wallet = ui[t].wallet
      BY <1>0, <3>1, <3>2 DEF Ui, Steps
    <3>4. ui[t].wallet \in Wallets
      BY <1>0, <2>5 DEF StartSiwe, At, Built, BuiltOn
    <3> QED
      BY <2>2, <3>1, <3>3, <3>4 DEF Verified, Verifying
  <2>6. CASE SignMessage(t)
    <3>1. PICK r : /\ ui' = [ui EXCEPT ![t] = r]
                   /\ r = [ui[t] EXCEPT !.step = "verification", !.signer = account,
                             !.sent = IF nonceCookie.expires > now THEN nonceCookie.nonce ELSE 0]
      BY <1>0, <2>6 DEF SignMessage, TypeOK
    <3>2. r \in Ui /\ r.step = "verification" /\ r.wallet = ui[t].wallet
      BY <1>0, <3>1 DEF Ui, Steps, Verifying, TypeOK
    <3>3. ui[t].wallet \in Wallets
      BY <1>0, <2>6 DEF SignMessage, At, Built, BuiltOn
    <3> QED
      BY <2>2, <3>1, <3>2, <3>3 DEF Verified, Verifying
  <2>7. CASE RejectSignature(t)
    BY <1>0, <2>1, <2>7, TabRests DEF RejectSignature
  <2> QED
    BY <2>3, <2>4, <2>5, <2>6, <2>7 DEF Button
<1>3. issued' \in Nat /\ issued <= issued' /\ nonceCookie' \in [nonce : Nat, expires : Nat]
    BY <1>0 DEF Button, Click, Continue, StartSiwe, SignMessage, RejectSignature, browser
<1>4. TypeOK'
    BY <1>0, <1>1, <1>2, <1>3 DEF TypeOK, database
<1>5. Drawn' /\ SessionsAreBacked'
    BY <1>0, <1>1, <1>3 DEF TypeOK, Drawn, SessionsAreBacked, database, Session
<1> QED
    BY <1>2, <1>4, <1>5 DEF Inv

-----------------------------------------------------------------------------
\* The checks of a message: whoever passes them with company marks it, and is
\* marked by it.
LEMMA CheckStep ==
    ASSUME Inv, NEW t \in Tabs, CheckMessage(t)
    PROVE  Inv'
<1>0. TypeOK /\ Built /\ Alone /\ Drawn /\ SessionsAreBacked /\ ui \in [Tabs -> Ui]
    BY DEF Inv, TypeOK
<1>1. UNCHANGED <<now, browser, view, fetching, database, issued, spent>> /\ At(t, "verification")
    BY DEF CheckMessage
<1>2. ui' \in [Tabs -> Ui] /\ Built' /\ Alone'
  <2>1. UNCHANGED <<users, identities, bound>>
    BY <1>1 DEF database
  <2>2. CASE Rest(t)
    BY <1>0, <2>1, <2>2, TabRests
  <2>3. CASE ui' = [u \in Tabs |->
                     IF u = t THEN [ui[u] EXCEPT !.step = "findUser", !.clean = ~Overlapping(t)]
                     ELSE IF ui[u].step \in Verifying THEN [ui[u] EXCEPT !.clean = FALSE]
                     ELSE ui[u]]
    <3>1. Overlapping(t) \in BOOLEAN
      BY DEF Overlapping
    <3>2. ASSUME NEW u \in Tabs
          PROVE  /\ ui'[u] \in Ui /\ ui'[u].wallet = ui[u].wallet
                 /\ u # t => ui'[u].step = ui[u].step /\ (ui'[u].step \in Verified => ~ui'[u].clean)
                 /\ u = t => ui'[u].step = "findUser" /\ ui'[u].clean = ~Overlapping(t)
      <4>1. ui[u] \in Ui /\ "findUser" \in Steps
        BY <1>0 DEF Steps, Verifying
      <4>2. CASE u = t
        <5>1. ui'[u] = [ui[u] EXCEPT !.step = "findUser", !.clean = ~Overlapping(t)]
          BY <2>3, <4>2
        <5> QED
          BY <3>1, <4>1, <4>2, <5>1 DEF Ui
      <4>3. CASE u # t /\ ui[u].step \in Verifying
        <5>1. ui'[u] = [ui[u] EXCEPT !.clean = FALSE]
          BY <2>3, <4>3
        <5> QED
          BY <4>1, <4>3, <5>1 DEF Ui
      <4>4. CASE u # t /\ ui[u].step \notin Verifying
        <5>1. ui'[u] = ui[u]
          BY <2>3, <4>4
        <5> QED
          BY <4>1, <4>4, <5>1 DEF Verified
      <4> QED
        BY <4>2, <4>3, <4>4
    <3>3. ui' \in [Tabs -> Ui]
      BY <2>3, <3>2
    <3>4. ui[t].wallet \in Wallets
      BY <1>0, <1>1 DEF At, Built, BuiltOn, Verifying
    <3>5. ASSUME NEW u \in Tabs PROVE BuiltOn(ui'[u], users', identities', bound')
      <4>1. CASE u = t
        BY <3>2, <3>4, <4>1 DEF BuiltOn
      <4>2. CASE u # t
        BY <1>0, <2>1, <3>2, <4>2 DEF Built, BuiltOn
      <4> QED
        BY <4>1, <4>2
    <3>6. Alone'
      <4> SUFFICES ASSUME NEW u \in Tabs, ui'[u].clean, ui'[u].step \in Verified
                   PROVE  /\ \A v \in Tabs \ {u} : ui'[v].step \notin Verified
                          /\ StillMissing(ui'[u], users', identities', bound')
        BY DEF Alone
      <4>1. u = t /\ ~Overlapping(t)
        BY <3>2
      <4>2. \A v \in Tabs \ {t} : ui[v].step \notin Verified
        BY <4>1 DEF Overlapping, Verified
      <4> QED
        BY <3>2, <4>1, <4>2 DEF StillMissing
    <3> QED
      BY <3>3, <3>5, <3>6 DEF Built
  <2> QED
    BY <2>2, <2>3 DEF CheckMessage
<1>3. TypeOK' /\ Drawn' /\ SessionsAreBacked'
    BY <1>0, <1>1, <1>2 DEF TypeOK, Drawn, SessionsAreBacked, database, browser
<1> QED
    BY <1>2, <1>3 DEF Inv

\* A look at a table.
LEMMA LookStep ==
    ASSUME Inv, NEW t \in Tabs, NEW step \in Verified, NEW table, NEW found \in Verified,
           NEW missing \in Verified, Look(t, step, table, found, missing),
           LET next == IF ui[t].wallet \in table THEN found ELSE missing
               r    == [ui[t] EXCEPT !.step = next]
           IN  BuiltOn(r, users, identities, bound) /\ StillMissing(r, users, identities, bound)
    PROVE  Inv'
<1>0. /\ TypeOK /\ Built /\ Alone /\ Drawn /\ SessionsAreBacked /\ ui[t] \in Ui
      /\ UNCHANGED <<now, browser, view, fetching, database, issued, spent>> /\ ui[t].step = step
    BY DEF Inv, TypeOK, Look, At
<1>1. PICK r : /\ r = [ui[t] EXCEPT !.step = IF ui[t].wallet \in table THEN found ELSE missing]
               /\ BuiltOn(r, users, identities, bound) /\ StillMissing(r, users, identities, bound)
    OBVIOUS
<1>2. r \in Ui /\ r.clean = ui[t].clean
    BY <1>0, <1>1 DEF Ui, Steps, Verified
<1>3. ui' = [ui EXCEPT ![t] = r]
    BY <1>0, <1>1 DEF Look, Goto, TypeOK
<1>4. UNCHANGED <<users, identities, bound>>
    BY <1>0 DEF database
<1>5. ui' \in [Tabs -> Ui] /\ Built' /\ Alone'
    BY <1>0, <1>1, <1>2, <1>3, <1>4, TabMoves
<1>6. TypeOK' /\ Drawn' /\ SessionsAreBacked'
    BY <1>0, <1>5 DEF TypeOK, Drawn, SessionsAreBacked, database, browser
<1> QED
    BY <1>5, <1>6 DEF Inv

LEMMA LooksStep ==
    ASSUME Inv, NEW t \in Tabs, FindUser(t) \/ FindIdentity(t) \/ FindBinding(t)
    PROVE  Inv'
<1>0. Built /\ ui[t] \in Ui
    BY DEF Inv, TypeOK
<1>1. CASE FindUser(t)
  <2>1. ui[t].step = "findUser" /\ ui[t].wallet \in Wallets
    BY <1>0, <1>1 DEF FindUser, Look, At, Built, BuiltOn, Verifying
  <2>2. LET r == [ui[t] EXCEPT !.step = IF ui[t].wallet \in users THEN "findIdentity" ELSE "createUser"]
        IN  BuiltOn(r, users, identities, bound) /\ StillMissing(r, users, identities, bound)
    BY <1>0, <2>1 DEF BuiltOn, StillMissing, Ui
  <2> QED
    BY <1>1, <2>2, LookStep DEF FindUser, Verified, Verifying
<1>2. CASE FindIdentity(t)
  <2>1. ui[t].step = "findIdentity" /\ ui[t].wallet \in Wallets /\ ui[t].wallet \in users
    BY <1>0, <1>2 DEF FindIdentity, Look, At, Built, BuiltOn, Verifying
  <2>2. LET r == [ui[t] EXCEPT !.step = IF ui[t].wallet \in identities
                                        THEN "findBinding" ELSE "createIdentity"]
        IN  BuiltOn(r, users, identities, bound) /\ StillMissing(r, users, identities, bound)
    BY <1>0, <2>1 DEF BuiltOn, StillMissing, Ui
  <2> QED
    BY <1>2, <2>2, LookStep DEF FindIdentity, Verified, Verifying
<1>3. CASE FindBinding(t)
  <2>1. ui[t].step = "findBinding" /\ ui[t].wallet \in Wallets /\ ui[t].wallet \in identities
    BY <1>0, <1>3 DEF FindBinding, Look, At, Built, BuiltOn, Verifying
  <2>2. LET r == [ui[t] EXCEPT !.step = IF ui[t].wallet \in bound THEN "openSession" ELSE "bind"]
        IN  BuiltOn(r, users, identities, bound) /\ StillMissing(r, users, identities, bound)
    BY <1>0, <2>1 DEF BuiltOn, StillMissing, Ui
  <2> QED
    BY <1>3, <2>2, LookStep DEF FindBinding, Verified, Verifying
<1> QED
    BY <1>1, <1>2, <1>3

\* An insert either meets a row, or writes the one the next step builds on.
LEMMA InsertsStep ==
    ASSUME Inv, NEW t \in Tabs, CreateUser(t) \/ CreateIdentity(t) \/ Bind(t)
    PROVE  Inv'
<1>0. /\ TypeOK /\ Built /\ Alone /\ Drawn /\ SessionsAreBacked
      /\ ui[t] \in Ui /\ ui \in [Tabs -> Ui]
    BY DEF Inv, TypeOK
<1>1. /\ UNCHANGED <<now, browser, view, fetching, sessions, issued, spent>>
      /\ ui[t].step \in {"createUser", "createIdentity", "bind"} /\ ui[t].wallet \in Wallets
    BY <1>0 DEF CreateUser, CreateIdentity, Bind, Insert, At, Built, BuiltOn, Verifying
<1>2. CASE Rest(t) /\ UNCHANGED <<users, identities, bound>>
  <2>1. ui' \in [Tabs -> Ui] /\ Built' /\ Alone'
    BY <1>0, <1>2, TabRests
  <2> QED
    BY <1>0, <1>1, <1>2, <2>1 DEF Inv, TypeOK, Drawn, SessionsAreBacked, browser
<1>3. ASSUME NEW next \in Verified, Goto(t, next),
             users \subseteq users', identities \subseteq identities', bound \subseteq bound',
             users' \subseteq Wallets, identities' \subseteq users', bound' \subseteq identities',
             BuiltOn([ui[t] EXCEPT !.step = next], users', identities', bound'),
             next \notin {"createUser", "createIdentity", "bind"}
      PROVE  Inv'
  <2>1. PICK r : r = [ui[t] EXCEPT !.step = next]
    OBVIOUS
  <2>2. r \in Ui /\ r.clean = ui[t].clean /\ r.step = next
    BY <1>0, <2>1 DEF Ui, Steps, Verified
  <2>3. ui' = [ui EXCEPT ![t] = r]
    BY <1>0, <1>3, <2>1 DEF Goto
  <2>4. ui[t].step \in Verified
    BY <1>1 DEF Verified, Verifying
  <2>5. StillMissing(r, users', identities', bound')
    BY <1>3, <2>2 DEF StillMissing
  <2>6. ui' \in [Tabs -> Ui] /\ Built' /\ Alone'
    BY <1>0, <1>3, <2>1, <2>2, <2>3, <2>4, <2>5, TabMoves
  <2>7. TypeOK'
    BY <1>0, <1>1, <1>3, <2>6 DEF TypeOK, browser
  <2> QED
    BY <1>0, <1>1, <1>3, <2>6, <2>7 DEF Inv, Drawn, SessionsAreBacked
<1>4. identities \subseteq users /\ bound \subseteq identities /\ users \subseteq Wallets
    BY <1>0 DEF SessionsAreBacked, TypeOK
<1>5. CASE CreateUser(t)
  <2>1. CASE Goto(t, "findIdentity") /\ users' = users \cup {ui[t].wallet}
    <3>1. BuiltOn([ui[t] EXCEPT !.step = "findIdentity"], users', identities', bound')
      BY <1>0, <1>1, <2>1 DEF BuiltOn, Ui
    <3> QED
      BY <1>1, <1>3, <1>4, <1>5, <2>1, <3>1 DEF CreateUser, Verified, Verifying
  <2> QED
    BY <1>2, <1>5, <2>1 DEF CreateUser, Insert
<1>6. CASE CreateIdentity(t)
  <2>0. ui[t].wallet \in users
    BY <1>0, <1>6 DEF CreateIdentity, Insert, At, Built, BuiltOn
  <2>1. CASE Goto(t, "findBinding") /\ identities' = identities \cup {ui[t].wallet}
    <3>1. BuiltOn([ui[t] EXCEPT !.step = "findBinding"], users', identities', bound')
      BY <1>0, <1>1, <2>1 DEF BuiltOn, Ui
    <3> QED
      BY <1>1, <1>3, <1>4, <1>6, <2>0, <2>1, <3>1 DEF CreateIdentity, Verified, Verifying
  <2> QED
    BY <1>2, <1>6, <2>1 DEF CreateIdentity, Insert
<1>7. CASE Bind(t)
  <2>0. ui[t].wallet \in identities
    BY <1>0, <1>7 DEF Bind, Insert, At, Built, BuiltOn
  <2>1. CASE Goto(t, "openSession") /\ bound' = bound \cup {ui[t].wallet}
    <3>1. BuiltOn([ui[t] EXCEPT !.step = "openSession"], users', identities', bound')
      BY <1>0, <1>1, <2>1 DEF BuiltOn, Ui
    <3> QED
      BY <1>1, <1>3, <1>4, <1>7, <2>0, <2>1, <3>1 DEF Bind, Verified, Verifying
  <2> QED
    BY <1>2, <1>7, <2>1 DEF Bind, Insert
<1> QED
    BY <1>5, <1>6, <1>7

-----------------------------------------------------------------------------
(* Sessions                                                                  *)

LEMMA OpenStep ==
    ASSUME Inv, NEW t \in Tabs, OpenSession(t)
    PROVE  Inv'
<1>0. /\ TypeOK /\ Built /\ Alone /\ Drawn /\ SessionsAreBacked /\ ui[t] \in Ui
      /\ ui \in [Tabs -> Ui] /\ issued \in Nat /\ now + MaxAge \in Nat /\ sessions \subseteq Session
    BY SignInAssumption DEF Inv, TypeOK
<1>1. /\ UNCHANGED <<now, browser, view, fetching, users, identities, bound, spent>>
      /\ ui[t].step = "openSession" /\ ui[t].wallet \in Wallets /\ ui[t].wallet \in bound
      /\ issued' = issued + 1
    BY <1>0 DEF OpenSession, At, Built, BuiltOn, Verifying
<1>2. PICK r : r = [ui[t] EXCEPT !.step = "answer", !.token = issued']
    OBVIOUS
<1>3. r \in Ui /\ r.clean = ui[t].clean /\ r.step = "answer" /\ r.wallet = ui[t].wallet
  <2>1. issued' \in Nat /\ "answer" \in Steps
    BY <1>0, <1>1 DEF Steps, Verifying
  <2> QED
    BY <1>0, <1>2, <2>1 DEF Ui
<1>4. ui' = [ui EXCEPT ![t] = r]
    BY <1>0, <1>2 DEF OpenSession
<1>5. ui' \in [Tabs -> Ui] /\ Built' /\ Alone'
  <2>1. BuiltOn(r, users', identities', bound') /\ StillMissing(r, users', identities', bound')
    BY <1>1, <1>3 DEF BuiltOn, StillMissing
  <2> QED
    BY <1>0, <1>1, <1>3, <1>4, <2>1, TabMoves DEF Verified, Verifying
<1>6. PICK s \in Session :
         /\ s.token = issued' /\ s.wallet = ui[t].wallet /\ sessions' = sessions \cup {s}
  <2>1. [token |-> issued', wallet |-> ui[t].wallet, expires |-> now + MaxAge] \in Session
    BY <1>0, <1>1 DEF Session
  <2> QED
    BY <2>1 DEF OpenSession
<1>7. Drawn' /\ SessionsAreBacked'
    BY <1>0, <1>1, <1>6 DEF Drawn, SessionsAreBacked, Session
<1>8. \A a, b \in sessions' : a.token = b.token => a = b
    BY <1>0, <1>1, <1>6 DEF Drawn, TypeOK, Session
<1>9. TypeOK'
    BY <1>0, <1>1, <1>5, <1>6, <1>8 DEF TypeOK, browser
<1> QED
    BY <1>5, <1>7, <1>9 DEF Inv

LEMMA AnswerIs ==
    ASSUME TypeOK
    PROVE  Answer \in Wallets \cup {None}
BY DEF TypeOK, Answer, Session

\* Every other step keeps the rows of the wallets and draws nothing; sessions
\* are ended, or renewed.
LEMMA QuietStep ==
    ASSUME Inv, UNCHANGED <<users, identities, bound, issued>>,
           ui' \in [Tabs -> Ui] /\ Built' /\ Alone',
           \A s \in sessions' : \E r \in sessions :
              s.token = r.token /\ s.wallet = r.wallet /\ s \in Session,
           \A a, b \in sessions' : a.token = b.token => a = b,
           now' \in 0..MaxTime, account' \in Wallets \cup {None},
           nonceCookie' \in [nonce : Nat, expires : Nat], cookie' \in Nat,
           view' \in [Tabs -> Wallets \cup {None}],
           fetching' \in [Tabs -> Wallets \cup {None, NoFetch}]
    PROVE  Inv'
<1>1. TypeOK'
    BY DEF Inv, TypeOK
<1>2. Drawn' /\ SessionsAreBacked'
    BY DEF Inv, Drawn, SessionsAreBacked
<1> QED
    BY <1>1, <1>2 DEF Inv

LEMMA Ended ==
    ASSUME Inv, sessions' \subseteq sessions
    PROVE  /\ \A s \in sessions' : \E r \in sessions :
                  s.token = r.token /\ s.wallet = r.wallet /\ s \in Session
           /\ \A a, b \in sessions' : a.token = b.token => a = b
BY DEF Inv, TypeOK

LEMMA SessionSteps ==
    ASSUME Inv, NEW t \in Tabs,
           \/ AnswerVerify(t) \/ VerifyFails(t) \/ Logout(t) \/ EndSession(t) \/ Disconnect(t)
    PROVE  Inv'
<1>0. /\ TypeOK /\ Built /\ Alone /\ ui[t] \in Ui /\ ui \in [Tabs -> Ui] /\ cookie \in Nat
      /\ Answer \in Wallets \cup {None}
      /\ nonceCookie \in [nonce : Nat, expires : Nat] /\ NoNonce \in [nonce : Nat, expires : Nat]
    BY AnswerIs DEF Inv, TypeOK, NoNonce
<1>1. /\ UNCHANGED <<now, users, identities, bound, issued>> /\ sessions' \subseteq sessions
    BY DEF AnswerVerify, VerifyFails, Logout, EndSession, Disconnect, Swept, database, browser
<1>2. ui' \in [Tabs -> Ui] /\ Built' /\ Alone'
  <2>1. CASE Rest(t)
    BY <1>0, <1>1, <2>1, TabRests
  <2>2. CASE Logout(t) /\ ui' = [ui EXCEPT ![t].step = "endSession", ![t].token = cookie]
    <3>1. PICK r : r = [ui[t] EXCEPT !.step = "endSession", !.token = cookie]
      OBVIOUS
    <3>2. r \in Ui /\ r.step = "endSession" /\ ui' = [ui EXCEPT ![t] = r]
      BY <1>0, <2>2, <3>1 DEF Ui, Steps, LoggingOut
    <3> QED
      BY <1>0, <1>1, <3>2, TabLeaves DEF Verified, Verifying
  <2>3. CASE EndSession(t)
    <3>1. PICK r : r = [ui[t] EXCEPT !.step = "disconnect"]
      OBVIOUS
    <3>2. r \in Ui /\ r.step = "disconnect" /\ ui' = [ui EXCEPT ![t] = r]
      BY <1>0, <2>3, <3>1 DEF EndSession, Goto, Ui, Steps, LoggingOut
    <3> QED
      BY <1>0, <1>1, <3>2, TabLeaves DEF Verified, Verifying
  <2> QED
    BY <2>1, <2>2, <2>3 DEF AnswerVerify, VerifyFails, Logout, Disconnect
<1>3. /\ account' \in Wallets \cup {None} /\ cookie' \in Nat
      /\ nonceCookie' \in [nonce : Nat, expires : Nat]
  <2>1. account' \in {account, None} /\ cookie' \in {cookie, ui[t].token, 0}
        /\ nonceCookie' \in {nonceCookie, NoNonce}
    BY DEF AnswerVerify, VerifyFails, Logout, EndSession, Disconnect, browser
  <2> QED
    BY <1>0, <2>1 DEF TypeOK, Ui
<1>4. view' \in [Tabs -> Wallets \cup {None}]
  <2>1. CASE AnswerVerify(t)
    BY <1>0, <2>1 DEF AnswerVerify, At, TypeOK, Ui
  <2> QED
    BY <1>0, <2>1 DEF VerifyFails, Logout, EndSession, Disconnect, TypeOK
<1>5. fetching' \in [Tabs -> Wallets \cup {None, NoFetch}]
    BY <1>0 DEF AnswerVerify, VerifyFails, Logout, EndSession, Disconnect, TypeOK
<1>6. now' \in 0..MaxTime
    BY <1>0, <1>1 DEF TypeOK
<1> QED
    BY <1>1, <1>2, <1>3, <1>4, <1>5, <1>6, Ended, QuietStep

LEMMA OtherSteps ==
    ASSUME Inv,
           \/ \E t \in Tabs : Fetch(t) \/ Deliver(t)
           \/ \E w \in Wallets : SwitchAccount(w)
           \/ Visit \/ Pass \/ UNCHANGED vars
    PROVE  Inv'
<1>0. TypeOK /\ Built /\ Alone /\ Answer \in Wallets \cup {None} /\ now \in Nat /\ MaxTime \in Nat
    BY AnswerIs, SignInAssumption DEF Inv, TypeOK
<1>1. UNCHANGED <<ui, users, identities, bound, issued, nonceCookie, cookie>>
    BY DEF Fetch, Deliver, SwitchAccount, Visit, Pass, vars, database, browser
<1>2. ui' \in [Tabs -> Ui] /\ Built' /\ Alone'
    BY <1>0, <1>1 DEF TypeOK, Built, Alone
<1>3. account' \in Wallets \cup {None} /\ now' \in 0..MaxTime
    BY <1>0 DEF TypeOK, Fetch, Deliver, SwitchAccount, Visit, Pass, vars, browser
<1>4. /\ view' \in [Tabs -> Wallets \cup {None}]
      /\ fetching' \in [Tabs -> Wallets \cup {None, NoFetch}]
  <2>1. ASSUME NEW t \in Tabs, Deliver(t)
        PROVE  /\ view' \in [Tabs -> Wallets \cup {None}]
               /\ fetching' \in [Tabs -> Wallets \cup {None, NoFetch}]
    <3>1. fetching[t] \in Wallets \cup {None}
      BY <1>0, <2>1 DEF Deliver, TypeOK
    <3> QED
      BY <1>0, <2>1, <3>1 DEF Deliver, TypeOK
  <2>2. ASSUME NEW t \in Tabs, Fetch(t)
        PROVE  /\ view' \in [Tabs -> Wallets \cup {None}]
               /\ fetching' \in [Tabs -> Wallets \cup {None, NoFetch}]
    BY <1>0, <2>2 DEF Fetch, TypeOK
  <2> QED
    BY <1>0, <2>1, <2>2 DEF TypeOK, SwitchAccount, Visit, Pass, vars
<1>5. /\ \A s \in sessions' : \E r \in sessions :
            s.token = r.token /\ s.wallet = r.wallet /\ s \in Session
      /\ \A a, b \in sessions' : a.token = b.token => a = b
  <2>1. CASE sessions' \subseteq sessions
    BY <2>1, Ended
  <2>2. CASE Visit
    <3> DEFINE Renewed(s) == IF s.token = cookie /\ s.expires + UpdateAge <= now + MaxAge
                             THEN [s EXCEPT !.expires = now + MaxAge] ELSE s
    <3>1. sessions' = {Renewed(s) : s \in sessions}
      BY <2>2 DEF Visit
    <3>2. ASSUME NEW s \in sessions
          PROVE  Renewed(s) \in Session /\ Renewed(s).token = s.token /\ Renewed(s).wallet = s.wallet
      <4>1. s \in Session /\ now + MaxAge \in Nat
        BY <1>0, SignInAssumption DEF TypeOK
      <4> QED
        BY <4>1 DEF Session
    <3> HIDE DEF Renewed
    <3>3. ASSUME NEW a \in sessions', NEW b \in sessions', a.token = b.token PROVE a = b
      <4>1. PICK r \in sessions : a = Renewed(r)
        BY <3>1
      <4>2. PICK s \in sessions : b = Renewed(s)
        BY <3>1
      <4>3. r = s
        BY <1>0, <3>2, <3>3, <4>1, <4>2 DEF TypeOK
      <4> QED
        BY <4>1, <4>2, <4>3
    <3> QED
      BY <3>1, <3>2, <3>3
  <2> QED
    BY <2>1, <2>2 DEF Fetch, Deliver, SwitchAccount, Pass, vars, Swept, database
<1>6. nonceCookie' \in [nonce : Nat, expires : Nat] /\ cookie' \in Nat
    BY <1>0, <1>1 DEF TypeOK
<1> QED
    BY <1>1, <1>2, <1>3, <1>4, <1>5, <1>6, QuietStep

-----------------------------------------------------------------------------
LEMMA InvInit == Init => Inv
<1> SUFFICES ASSUME Init PROVE Inv
    OBVIOUS
<1>1. TypeOK
    BY RestingIs, SignInAssumption DEF Init, TypeOK, NoNonce
<1>2. \A t \in Tabs : ui[t].step = "idle"
    BY RestingIs DEF Init
<1> QED
    BY <1>1, <1>2
       DEF Init, Inv, Drawn, SessionsAreBacked, Built, BuiltOn, Alone, Verified, Verifying

LEMMA InvStep == Inv /\ [Next]_vars => Inv'
<1> SUFFICES ASSUME Inv, [Next]_vars PROVE Inv'
    OBVIOUS
<1>1. ASSUME NEW t \in Tabs, Serve(t) PROVE Inv'
    BY <1>1, CheckStep, LooksStep, InsertsStep, OpenStep, SessionSteps DEF Serve
<1>2. ASSUME NEW t \in Tabs, Button(t) \/ VerifyFails(t) PROVE Inv'
    BY <1>2, ButtonStep, SessionSteps
<1> QED
    BY <1>1, <1>2, OtherSteps DEF Next

LEMMA InvAlways == Spec => []Inv
BY InvInit, InvStep, PTL DEF Spec

Paid == spent \in [Spending -> Nat]

LEMMA PaidAlways == Spec => []Paid
<1>1. Init => Paid
    BY DEF Init, Paid
<1>2. Paid /\ [Next]_vars => Paid'
  <2> SUFFICES ASSUME Paid, [Next]_vars PROVE Paid'
    OBVIOUS
  <2>1. UNCHANGED spent \/ \E what \in Spending : Spend(what)
    BY DEF Next, Button, Click, Continue, StartSiwe, SignMessage, RejectSignature, Serve, CheckMessage,
       FindUser, FindIdentity, FindBinding, Look, CreateUser, CreateIdentity, Bind, OpenSession,
       AnswerVerify, Logout, EndSession, Disconnect, VerifyFails, Fetch, Deliver, SwitchAccount,
       Visit, Pass, vars, Spending
  <2> QED
    BY <2>1 DEF Paid, Spend
<1> QED
    BY <1>1, <1>2, PTL DEF Spec

\* Every variable keeps its type, and a session's token names one session.
THEOREM SignInTyped == Spec => []TypeOK
BY InvAlways, PTL DEF Inv

\* Whichever inserts of whichever verifications fail or lose a race, a session is
\* always of a wallet that is bound to an identity of a user (siwe/verify).
THEOREM SessionsStayBacked == Spec => []SessionsAreBacked
BY InvAlways, PTL DEF Inv

\* A verification that passed its checks gives up only for a fault of the
\* database or for another verification under way: rows left behind by earlier
\* attempts never stop it (siwe/verify).
THEOREM NothingElseFails == Spec => OnlyRacesAndFaultsFail
<1> DEFINE Fails == \A t \in Tabs :
         (ui[t].step \in Verifying \ {"verification", "answer"} /\ ui'[t].step = "idle")
             => spent'["fault"] > spent["fault"] \/ ~ui[t].clean
<1>1. ASSUME Inv, Paid, Next, NEW t \in Tabs,
             ui[t].step \in Verifying \ {"verification", "answer"}, ui'[t].step = "idle"
      PROVE  spent'["fault"] > spent["fault"] \/ ~ui[t].clean
  <2>0. ui \in [Tabs -> Ui] /\ ui[t].step # "idle" /\ ui[t].step \in Verified
    BY <1>1 DEF Inv, TypeOK, Verifying, Verified
  <2>1. ASSUME NEW u \in Tabs, u # t, Button(u) \/ Serve(u) \/ VerifyFails(u) PROVE FALSE
    <3>1. CASE CheckMessage(u) /\ ~Rest(u)
      <4>1. ui'[t].step = ui[t].step
        <5>1. CASE ui[t].step \in Verifying
          <6>1. ui'[t] = [ui[t] EXCEPT !.clean = FALSE]
            BY <2>1, <3>1, <5>1 DEF CheckMessage
          <6>2. ui[t] \in Ui
            BY <2>0
          <6> QED
            BY <6>1, <6>2 DEF Ui
        <5> QED
          BY <2>0, <5>1 DEF Verified
      <4> QED
        BY <1>1, <2>0, <4>1
    <3>2. ASSUME NEW r, ui' = [ui EXCEPT ![u] = r] PROVE FALSE
      BY <1>1, <2>0, <2>1, <3>2
    <3>3. CASE Rest(u)
      BY <3>2, <3>3 DEF Rest
    <3>4. CASE Button(u)
      BY <2>0, <3>2, <3>3, <3>4 DEF Button, Click, Continue, StartSiwe, SignMessage, RejectSignature
    <3>5. ASSUME NEW step, Goto(u, step) PROVE FALSE
      BY <3>2, <3>5 DEF Goto
    <3>6. CASE FindUser(u) \/ FindIdentity(u) \/ FindBinding(u)
      BY <3>5, <3>6 DEF FindUser, FindIdentity, FindBinding, Look
    <3>7. CASE CreateUser(u) \/ CreateIdentity(u) \/ Bind(u)
      BY <3>3, <3>5, <3>7 DEF CreateUser, CreateIdentity, Bind, Insert
    <3>8. CASE OpenSession(u) \/ Logout(u)
      BY <3>2, <3>3, <3>8 DEF OpenSession, Logout
    <3> QED
      BY <2>1, <3>1, <3>3, <3>4, <3>5, <3>6, <3>7, <3>8
         DEF Serve, AnswerVerify, EndSession, Disconnect, VerifyFails
  <2>2. ~Button(t)
    BY <2>0 DEF Button, Click, Continue, StartSiwe, SignMessage, RejectSignature, At, Verified, Verifying
  <2>3. CASE VerifyFails(t)
    BY <1>1, <2>3 DEF VerifyFails, Spend, Spending, Paid
  <2>4. CASE Serve(t)
    <3>1. ASSUME NEW step \in Verified, Goto(t, step) PROVE FALSE
      <4>1. ui'[t].step = step
        BY <2>0, <3>1 DEF Goto, Ui
      <4> QED
        BY <1>1, <4>1 DEF Verified, Verifying
    <3>2. ~FindUser(t) /\ ~FindIdentity(t) /\ ~FindBinding(t)
      BY <3>1 DEF FindUser, FindIdentity, FindBinding, Look, Verified, Verifying
    <3>3. ~OpenSession(t)
      <4> SUFFICES ASSUME OpenSession(t) PROVE FALSE
        OBVIOUS
      <4>1. ui'[t] = [ui[t] EXCEPT !.step = "answer", !.token = issued']
        BY <2>0 DEF OpenSession
      <4>2. ui[t] \in Ui
        BY <2>0
      <4> QED
        BY <1>1, <4>1, <4>2 DEF Ui
    <3>4. ASSUME ui[t].clean PROVE ~CreateUser(t) /\ ~CreateIdentity(t) /\ ~Bind(t)
      <4>1. StillMissing(ui[t], users, identities, bound)
        BY <1>1, <2>0, <3>4 DEF Inv, Alone
      <4> QED
        BY <3>1, <4>1 DEF StillMissing, CreateUser, CreateIdentity, Bind, Insert, At, Verified, Verifying
    <3>5. /\ ~CheckMessage(t) /\ ~AnswerVerify(t) /\ ~Logout(t) /\ ~EndSession(t) /\ ~Disconnect(t)
      BY <1>1 DEF CheckMessage, AnswerVerify, Logout, EndSession, Disconnect, At, Verifying
    <3> QED
      BY <2>4, <3>2, <3>3, <3>4, <3>5 DEF Serve
  <2>5. ASSUME UNCHANGED ui PROVE FALSE
    BY <1>1, <2>0, <2>5
  <2> QED
    BY <1>1, <2>1, <2>2, <2>3, <2>4, <2>5 DEF Next, Fetch, Deliver, SwitchAccount, Visit, Pass
<1>3. Inv /\ Paid /\ [Next]_vars => [Fails]_vars
    BY <1>1
<1> HIDE DEF Fails
<1>4. Spec => [][Fails]_vars
    BY <1>3, InvAlways, PaidAlways, PTL DEF Spec
<1> QED
    BY <1>4 DEF Fails, OnlyRacesAndFaultsFail
=============================================================================
