------------------------------- MODULE MCDesk -------------------------------
(* Two accounts, the chats that may speak for them, two processes. *)
EXTENDS Desk

CONSTANTS c1, u1, u2

\* The second account has a code and a Lens that the first may run into.
MCPages ==
  [user: {u1}, page: {"issue", "disconnect", "new", "delete", "save"}]
    \cup [user: {u2}, page: {"issue", "draft"}]

MCForms == [chat: {c1}, on: {TRUE}]
=============================================================================
