-------------------------- MODULE MicrosoftSession --------------------------
(***************************************************************************)
(* The Microsoft account that exports go to. Sign-ins run in the browser   *)
(* for minutes, refreshes of the token go over the network, and both come  *)
(* back to a session that may have been replaced or ended meanwhile; the   *)
(* number of the session (generation in the code) tells them. A token is   *)
(* the sign-in that granted it; 0 is no token.                             *)
(***************************************************************************)
EXTENDS Integers, FiniteSets

CONSTANTS
  MaxSignIns,   \* bound: sign-ins begun
  MaxSessions,  \* bound: changes of the session between two starts
  MaxTroubles   \* bound: failures

ASSUME SessionAssumption ==
  /\ MaxSignIns \in Nat \ {0}
  /\ {MaxSessions, MaxTroubles} \subseteq Nat

VARIABLES
  connection,  \* connection_state
  session,     \* generation
  token,       \* current_token
  keychain,    \* the token in the platform's credential store
  fallback,    \* the token in the encrypted file that is used in its stead
  signIns,     \* the tasks of all sign-ins, by number
  handle,      \* sign_in_cancel: the sign-in it belongs to
  account,     \* history: the sign-in the user completed, and has not signed out of
  astray,      \* history: a removal or a replacement of stored tokens failed
  troubles

sessionVars == <<connection, session, token, keychain, fallback, signIns, handle, account, astray, troubles>>

SignIns == 1 .. MaxSignIns
NoSignIn == [pc |-> "none", of |-> 0]

SessionTypeOK ==
  /\ connection \in {"off", "connecting", "on", "expired"}
  /\ session \in 0 .. MaxSessions
  /\ {token, keychain, fallback, handle, account} \subseteq 0 .. MaxSignIns
  /\ signIns \in [SignIns -> [pc : {"none", "open", "cancelled", "over"}, of : 0 .. MaxSessions]]
  /\ astray \in BOOLEAN /\ troubles \in 0 .. MaxTroubles

\* The first sign-in was in an earlier process; its token is in either place.
SessionInit ==
  /\ connection = "on" /\ session = 0
  /\ token = 1 /\ account = 1
  /\ keychain \in {0, 1} /\ fallback = 1 - keychain
  /\ signIns = [k \in SignIns |-> IF k = 1 THEN [pc |-> "over", of |-> 0] ELSE NoSignIn]
  /\ handle = 0 /\ astray = FALSE /\ troubles = 0

Trouble == troubles < MaxTroubles /\ troubles' = troubles + 1

-----------------------------------------------------------------------------
(* Stored tokens.                                                            *)

\* Whether what is stored afterwards came about without a failure.
Settled == UNCHANGED <<astray, troubles>>
GoneAstray == Trouble /\ astray' = TRUE

\* The store rejects long tokens for good on some platforms: that is no trouble.
SaveToken(k) ==
  \/ /\ keychain' = k
     /\ \/ fallback' = 0 /\ Settled
        \/ fallback' = fallback /\ GoneAstray
  \/ /\ fallback' = k
     /\ \/ keychain' = 0 /\ Settled
        \/ keychain' = keychain /\ GoneAstray
  \/ UNCHANGED <<keychain, fallback>> /\ GoneAstray

DeleteToken ==
  \/ keychain' = 0 /\ fallback' = 0 /\ Settled
  \/ keychain' \in {0, keychain} /\ fallback' \in {0, fallback} /\ GoneAstray

\* load_token_from_sources: the file counts when the store has nothing or
\* cannot be read; nothing is found when neither can be used.
Loadable == {IF keychain # 0 THEN keychain ELSE fallback, fallback, 0}

-----------------------------------------------------------------------------
(* microsoft_sign_in, microsoft_cancel_sign_in, microsoft_sign_out.          *)

Resumed == IF token # 0 THEN "on" ELSE "off"
Over(k) == signIns' = [signIns EXCEPT ![k] = [pc |-> "over", of |-> 0]]

\* consent: the user asks for missing permissions of the account signed in.
SignIn(k, consent) ==
  /\ handle = 0 /\ session < MaxSessions
  /\ signIns[k].pc = "none" /\ \A j \in 1 .. k - 1 : signIns[j].pc # "none"
  /\ IF consent
     THEN connection = "on" /\ token # 0 /\ UNCHANGED connection
     ELSE connection # "connecting" /\ connection' = "connecting"
  /\ handle' = k
  /\ session' = session + 1
  /\ signIns' = [signIns EXCEPT ![k] = [pc |-> "open", of |-> session + 1]]
  /\ UNCHANGED <<token, keychain, fallback, account, astray, troubles>>

\* mutant: a cancelled sign-in is accepted
Unasked(k) == connection \in {"connecting", "on"}

Accepted(k) ==
  /\ signIns[k].pc = "open" /\ signIns[k].of = session
  /\ connection \in {"connecting", "on"}

\* A grant without a refresh token cannot be restored and is not stored. The
\* session counts once more, against refreshes that began while consent was open.
SignInSucceeds(k) ==
  /\ signIns[k].pc \in {"open", "cancelled"}
  /\ Over(k)
  /\ IF Accepted(k)
     THEN /\ session < MaxSessions
          /\ SaveToken(k) \/ DeleteToken
          /\ session' = session + 1
          /\ connection' = "on" /\ handle' = 0
          /\ token' = k /\ account' = (IF handle = k THEN k ELSE account)
     ELSE UNCHANGED <<connection, session, token, keychain, fallback, handle, account, astray, troubles>>

SignInFails(k) ==
  /\ signIns[k].pc \in {"open", "cancelled"}
  /\ Over(k)
  /\ IF signIns[k].pc = "open" /\ signIns[k].of = session
     THEN handle' = 0 /\ connection' = Resumed
     ELSE UNCHANGED <<handle, connection>>
  /\ UNCHANGED <<session, token, keychain, fallback, account, astray, troubles>>

\* CancellationToken::cancel, if the task is still there.
Cancelled == [k \in SignIns |->
  IF k = handle /\ signIns[k].pc = "open" THEN [signIns[k] EXCEPT !.pc = "cancelled"] ELSE signIns[k]]

CancelSignIn ==
  /\ handle # 0
  /\ signIns' = Cancelled /\ handle' = 0 /\ connection' = Resumed
  /\ UNCHANGED <<session, token, keychain, fallback, account, astray, troubles>>

SignOut ==
  /\ session < MaxSessions
  /\ session' = session + 1
  /\ signIns' = Cancelled /\ handle' = 0 /\ connection' = "off"
  /\ token' = 0 /\ account' = 0
  /\ DeleteToken

SessionStep ==
  \/ \E k \in SignIns : \/ \E consent \in BOOLEAN : SignIn(k, consent)
                        \/ SignInSucceeds(k) \/ SignInFails(k)
  \/ CancelSignIn \/ SignOut

\* MicrosoftAuthState::new. What went astray may be what is found.
SessionRestart ==
  /\ token' \in Loadable
  /\ connection' = (IF token' # 0 THEN "on" ELSE "off")
  /\ account' = (IF astray THEN token' ELSE account)
  /\ session' = 0 /\ handle' = 0
  /\ signIns' = [k \in SignIns |-> IF signIns[k].pc = "none" THEN NoSignIn ELSE [pc |-> "over", of |-> 0]]
  /\ UNCHANGED <<keychain, fallback, astray, troubles>>

-----------------------------------------------------------------------------
(* Properties.                                                               *)

\* Neither memory nor what a start would load gets a token back that is not
\* the account's, whatever sign-ins, consents and refreshes come back late -
\* unless removing or replacing a stored token failed ("sign-out cannot
\* interleave persistence and memory", accept_refreshed_token). So no export
\* begins with an account that was signed out of or replaced; one that has its
\* token already goes on to its end (export_to_onenote clones it once).
SignedOutStaysOut ==
  /\ token \in {0, account}
  /\ astray \/ Loadable \subseteq {0, account}
=============================================================================
