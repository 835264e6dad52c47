------------------------------- MODULE SignIn -------------------------------
(***************************************************************************)
(* The pages that log in and sign up (LoginForm.tsx, RegisterForm.tsx)     *)
(* with the robot check they carry (TurnstileWidget.tsx, turnstile.ts).    *)
(*                                                                         *)
(* A token is good for one verification.  The form keeps the token that    *)
(* the widget gave it; the widget can be replaced by another one, its      *)
(* tokens expire, and the server verifies a token after its rate limits    *)
(* and before it looks at the account.                                     *)
(***************************************************************************)
EXTENDS Naturals

CONSTANTS
    MaxChecks    \* bound on the tokens that Cloudflare issues

VARIABLES
    way,         \* the form of the page, or where it led
    issued,      \* how many tokens were issued
    widget,      \* the token of the widget on the page, 0 before it has one
    token,       \* turnstileToken of the form, 0 if none
    spent,       \* the tokens verified once
    expired,     \* the tokens that are too old
    request,     \* the request of the form: its step, its token
    denied,      \* the tokens that the server has refused (history)
    left         \* the tokens accepted by a request that left the form as it was (history)

signInVars == <<way, issued, widget, token, spent, expired, request, denied, left>>

NoRequest == [pc |-> "none", token |-> 0]
Forms == {"magic", "password", "register"}

-----------------------------------------------------------------------------
(* The widget                                                              *)

\* callback
Solve ==
    /\ way \in Forms /\ widget = 0 /\ issued < MaxChecks
    /\ issued' = issued + 1
    /\ widget' = issued + 1 /\ token' = issued + 1
    /\ UNCHANGED <<way, spent, expired, request, denied, left>>

\* expired-callback and error-callback
Expire ==
    /\ widget # 0
    /\ expired' = expired \union {widget}
    /\ widget' = 0 /\ token' = 0
    /\ UNCHANGED <<way, issued, spent, request, denied, left>>

\* Nobody tells the form that the token of a removed widget is too old.
ExpireUnseen(k) ==
    /\ k \in 1 .. issued /\ k # widget /\ k \notin expired
    /\ expired' = expired \union {k}
    /\ UNCHANGED <<way, issued, widget, token, spent, request, denied, left>>

\* The mutant resets the widget alone.
ResetWidget == widget' = 0 /\ token' = token
Reset == widget' = 0 /\ token' = 0

-----------------------------------------------------------------------------
(* The forms                                                               *)

\* The other form of the page mounts a widget of its own; the token stays.
SwitchForm ==
    /\ way \in {"magic", "password"}
    /\ way' = IF way = "magic" THEN "password" ELSE "magic"
    /\ widget' = 0
    /\ UNCHANGED <<issued, token, spent, expired, request, denied, left>>

\* A link, a reload, a log-out: a new page.
OpenPage(form) ==
    /\ way' = form /\ widget' = 0 /\ token' = 0
    /\ request' = NoRequest
    /\ UNCHANGED <<issued, spent, expired, denied, left>>

SubmitForm ==
    /\ way \in Forms /\ request.pc = "none"
    /\ token # 0
    /\ request' = [pc |-> "sent", token |-> token]
    /\ UNCHANGED <<way, issued, widget, token, spent, expired, denied, left>>

-----------------------------------------------------------------------------
(* The server                                                              *)

\* A rate limit answers before the token is looked at.
Limited429 ==
    /\ request.pc = "sent"
    /\ request' = [request EXCEPT !.pc = "error"]
    /\ UNCHANGED <<way, issued, widget, token, spent, expired, denied, left>>

Good(k) == k \notin spent \union expired

\* siteverify: the token is spent whatever comes of the request.
VerifyToken ==
    LET k == request.token IN
    /\ request.pc = "sent"
    /\ \/ /\ Good(k)
          /\ spent' = spent \union {k}
          /\ \E pc \in {"ok", "error"}: request' = [request EXCEPT !.pc = pc]
          /\ UNCHANGED denied
       \/ /\ ~Good(k)
          /\ denied' = denied \union {k}
          /\ request' = [request EXCEPT !.pc = "error"]
          /\ UNCHANGED spent
    /\ UNCHANGED <<way, issued, widget, token, expired, left>>

\* An error resets the widget, and with it the token of the form.
RequestFailed ==
    /\ request.pc = "error"
    /\ request' = NoRequest
    /\ Reset
    /\ UNCHANGED <<way, issued, spent, expired, denied, left>>

\* A mail is on its way: the form stays with its token.  A session, or an account to
\* confirm, leads to another page, unless the draft cannot be claimed.
RequestSucceeded ==
    /\ request.pc = "ok"
    /\ request' = NoRequest
    /\ \/ /\ way \in {"magic", "password"}
          /\ left' = left \union {request.token}
          /\ UNCHANGED <<way, widget, token>>
       \/ /\ way \in {"password", "register"}
          /\ way' = IF way = "register" THEN "confirm" ELSE "dashboard"
          /\ widget' = 0 /\ token' = 0
          /\ UNCHANGED left
    /\ UNCHANGED <<issued, spent, expired, denied>>

\* fetch throws: the button stays busy until the page is opened again.
LoseRequest ==
    /\ request.pc \in {"sent", "ok", "error"}
    /\ request' = [request EXCEPT !.pc = "lost"]
    /\ UNCHANGED <<way, issued, widget, token, spent, expired, denied, left>>

-----------------------------------------------------------------------------
SignInInit ==
    /\ way = "magic" /\ issued = 0 /\ widget = 0 /\ token = 0
    /\ spent = {} /\ expired = {} /\ denied = {} /\ left = {}
    /\ request = NoRequest

SignInNext ==
    \/ Solve \/ Expire \/ \E k \in 1 .. MaxChecks: ExpireUnseen(k)
    \/ SwitchForm \/ \E form \in Forms: OpenPage(form)
    \/ SubmitForm \/ Limited429 \/ VerifyToken
    \/ RequestFailed \/ RequestSucceeded \/ LoseRequest

-----------------------------------------------------------------------------
(* Properties                                                              *)

\* A token that the server refused is not sent again, so the second try after a refusal
\* has a token of its own; one that was verified is sent again only by a form that its
\* request left as it was (LoginForm.tsx: handleMagicLink does not reset after a success).
NoDeadToken ==
    request.pc = "sent" =>
        /\ request.token \notin denied
        /\ request.token \in spent => request.token \in left
=============================================================================
