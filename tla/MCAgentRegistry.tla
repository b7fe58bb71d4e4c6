-------------------------- MODULE MCAgentRegistry --------------------------
(***************************************************************************)
(* AgentRegistry for TLC: one session fits, so that every new one evicts,  *)
(* and every choice of tool and of close_session is made.                  *)
(***************************************************************************)
EXTENDS AgentRegistry

MCTools == {"background", "sync", "interrupt", "message"}
============================================================================
