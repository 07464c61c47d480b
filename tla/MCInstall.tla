------------------------------- MODULE MCInstall -------------------------------
(* Two agents that share a skill folder, as Claude Code and Claude Desktop do,
   and two versions of a package: the second one renames the MCP server. *)
EXTENDS Install, TLC

CONSTANTS code, desktop, v1, v2, old, new, claude

MCAgents == <<code, desktop>>
MCSkillPath == (code :> claude) @@ (desktop :> claude)
MCServers == (v1 :> <<old>>) @@ (v2 :> <<new>>)
MCHasSkill == (v1 :> TRUE) @@ (v2 :> TRUE)
=============================================================================
