------------------------------ MODULE Ingestion ------------------------------
(***************************************************************************)
(* reactors/ingestion.rs: the domain events one provider event becomes.    *)
(* The kinds of activity (tool call, reasoning, sub-agent, ...) differ only*)
(* in wording, so "ToolCall" stands for all of them, and "Started" for the *)
(* infrastructure events that produce nothing.                             *)
(***************************************************************************)
EXTENDS Domain

ProviderEventTypes == {"Started", "Token", "ToolCall", "Completed", "Error"}
Terminal == {"Completed", "Error"}

(* `tokens` is the number of token chunks a batched Token event stands for. *)
Ingest(type, turn, tokens) ==
    CASE type = "Token" -> <<MessageDeltaAppended(turn, tokens)>>
      [] type = "ToolCall" -> <<ActivityLogged(turn)>>
      [] type = "Completed" -> <<EventRecord("TurnCompleted", turn, Nil, Nil, 0)>>
      [] type = "Error" -> <<EventRecord("TurnFailed", turn, Nil, Nil, 0)>>
      [] type = "Started" -> <<>>
=============================================================================
