---------------------------- MODULE SessionStatus ----------------------------
(***************************************************************************)
(* The lifecycle vocabulary of crates/wassh-core/src/session.rs: the       *)
(* states a session can be in, which of them the shell may retry, and when *)
(* each reconnect policy lets it.                                          *)
(***************************************************************************)
EXTENDS Naturals

Statuses == {"Idle", "Connecting", "AwaitingHostKey", "Authenticating",
             "Connected", "Reconnecting", "Disconnected", "Closed", "Failed"}

Retryable == {"Disconnected", "Failed", "Reconnecting"}

ReconnectModes == {"None", "OnFocus", "Always"}

AllowsRetry(mode, focused) == mode = "Always" \/ (mode = "OnFocus" /\ focused)
=============================================================================
