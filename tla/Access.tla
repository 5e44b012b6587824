--------------------------------- MODULE Access --------------------------------
(******************************************************************************)
(* How users and their clients get in: the secrets that buy credentials       *)
(* (Credentials), the requests that carry the token of a grant (McpServer),   *)
(* and a browser with its session cookie (WebSession). Each takes from the    *)
(* others only what their promises say, so the three share no state here.     *)
(******************************************************************************)
EXTENDS Credentials

CONSTANTS
    Process, Http, McpGrant, Full, Call, NoGrant,  \* of McpServer
    MaxOperator, MaxMessage,
    Tab, MaxSession, MaxChallenge, MaxPending      \* of WebSession

VARIABLES
    grant, server, thread, call, sent, shown,
    mode, owner, sess, command, cookie, tab, requests

mcp     == <<grant, server, thread, call, sent, shown>>
browser == <<mode, owner, sess, command, cookie, tab, requests>>

Mcp == INSTANCE McpServer WITH Grant <- McpGrant

Session == INSTANCE WebSession

--------------------------------------------------------------------------------
(* Properties of the parts *)

\* A token that was revoked, or rotated away, before a request was sent over
\* HTTP reaches no tool, although its process has served it before
\* (mcp_server.py 1226, mcp_grants.py 296-330).
RevokedIsRefused == Mcp!RevokedIsRefused

\* A message is served for the grant and the tools it was let in with, by an
\* application whose session manager runs, and a code that was shown has its
\* marker (mcp_server.py 548-620, 930-944, 1263-1295).
ServedAsAdmitted == Mcp!ServedAsAdmitted

\* A tab's query client holds data of two accounts only after somebody logged in
\* in another tab (App.tsx 54-81, 96-100 and 187-191).
OneAccountPerClient == Session!OneAccountPerClient

================================================================================
