-------------------------------- MODULE Install --------------------------------
(***************************************************************************)
(* `dirctl install` and `dirctl uninstall` (cli/cmd/install,               *)
(* cli/internal/agentinstall, agentcfg, pkgstate): the MCP servers and the *)
(* skill of a record are written into the configuration of coding agents,  *)
(* one artifact after the other, and then the install manifest is loaded,  *)
(* changed and saved.                                                      *)
(*                                                                         *)
(* A config file is read, changed and renamed into place; nothing locks    *)
(* it, so that the user, or the agent itself, may write it between the     *)
(* reading and the writing.  Any read or write may fail, and a command may *)
(* be interrupted.  Content is abstracted to the record it comes from; the *)
(* commands run one at a time, at global scope.                            *)
(***************************************************************************)
EXTENDS Naturals, Sequences, Functions

CONSTANTS
    Agents,       \* the agents detected, in the registry's order: a sequence
    SkillPath,    \* SkillPath[a]: where agent a keeps skills (agents may share it)
    Records,      \* versions of one package
    Servers,      \* Servers[r]: keys of the MCP servers of r, in the record's order
    HasSkill,     \* HasSkill[r]: r has a skill
    MaxCommands,  \* bound: commands started
    MaxFaults,    \* bound: failing reads and writes, interruptions
    None          \* absence

AgentSet == Range(Agents)
Keys == UNION {Range(Servers[r]) : r \in Records}
Names == Keys \cup {"skill"}

(* The artifacts of a record: its servers, then the skill. *)
Artifacts(r) == Servers[r] \o (IF HasSkill[r] THEN <<"skill">> ELSE <<>>)

ASSUME InstallConstants ==
    /\ Agents \in Seq(AgentSet) /\ AgentSet \subseteq DOMAIN SkillPath
    /\ \A r \in Records : Servers[r] \in Seq(Keys)
    /\ "skill" \notin Keys /\ None \notin Records
    /\ MaxCommands \in Nat /\ MaxFaults \in Nat

VARIABLES
    mcp,      \* mcp[a][k]: the record whose entry is under key k of a's config file
    user,     \* user[a]: a's config file holds the user's own entry
    skill,    \* skill[d]: the record whose skill is in folder d
    rows,     \* rows[a]: the artifacts a's row of the manifest names ({}: no row)
    pc,       \* the command's next step
    op, rec,  \* install or uninstall; the record
    todo,     \* the agents the command has still to deal with
    arts,     \* the artifacts it has still to deal with for the first of them
    buf,      \* the config file, or the manifest, as the command has read it
    outs,     \* outcomes: agent, artifact, and whether it is in place (or gone)
    commands, faults,
    wants,    \* history: what the user wants in a's config file
    overlap,  \* history: the user wrote a config file between a read and a write of it
    missed,   \* history: a command could not update the manifest
    left      \* history: artifacts of an agent an uninstall dropped the row of, unremoved

vars == <<mcp, user, skill, rows, pc, op, rec, todo, arts, buf, outs, commands, faults, wants, overlap, missed, left>>

disk == <<mcp, user, skill>>
history == <<wants, overlap, missed, left>>

Init ==
    /\ mcp = [a \in AgentSet |-> [k \in Keys |-> None]]
    /\ user \in [AgentSet -> BOOLEAN] /\ wants = user
    /\ skill = [d \in Range(SkillPath) |-> None]
    /\ rows = [a \in AgentSet |-> {}]
    /\ pc = "idle" /\ op = None /\ rec = None
    /\ todo = <<>> /\ arts = <<>> /\ buf = None /\ outs = {}
    /\ commands = 0 /\ faults = 0
    /\ overlap = FALSE /\ missed = FALSE /\ left = {}

Fault == faults < MaxFaults /\ faults' = faults + 1

(* What --agents may select: detected agents, in the registry's order. *)
Selections ==
    {s \in UNION {[1..n -> AgentSet] : n \in 1..Len(Agents)} :
        \A i, j \in 1..Len(s) : i < j =>
            \E m, n \in 1..Len(Agents) : m < n /\ Agents[m] = s[i] /\ Agents[n] = s[j]}

(* The loops of Install and Uninstall: the agent and the artifact at hand. *)
Agent == Head(todo)
Art == Head(arts)

(* What the command wants in the place of the artifact. *)
Wanted == IF op = "install" THEN rec ELSE None

There(a, art) == IF art = "skill" THEN skill[SkillPath[a]] ELSE mcp[a][art]

(* claimSkillPath: an agent before this one has had its turn with the folder,
   whatever came of it. *)
Shared(a, art) == art = "skill" /\ \E o \in outs : o.art = "skill" /\ SkillPath[o.agent] = SkillPath[a]

-----------------------------------------------------------------------------
(* A command begins: the record is pulled, its artifacts are derived, and the
   plan, which must not be empty, is confirmed. *)
Start(o, r, sel) ==
    /\ pc = "idle" /\ commands < MaxCommands /\ Artifacts(r) # <<>>
    /\ commands' = commands + 1
    /\ pc' = "read" /\ op' = o /\ rec' = r /\ todo' = sel /\ arts' = Artifacts(r)
    /\ UNCHANGED <<disk, rows, buf, outs, faults, history>>

(* On to the next artifact, or to the next agent. *)
Advance ==
    \/ Tail(arts) # <<>> /\ arts' = Tail(arts) /\ UNCHANGED todo
    \/ Tail(arts) = <<>> /\ arts' = Artifacts(rec) /\ todo' = Tail(todo)

(* The outcome of the artifact at hand. *)
Report(ok) ==
    /\ outs' = outs \cup {[agent |-> Agent, art |-> Art, ok |-> ok]}
    /\ Advance
    /\ pc' = "read" /\ buf' = None

(* A skill in a folder an earlier agent has had its turn with is reported as
   unchanged (sharedSkillOutcome). *)
ReportShared ==
    /\ pc = "read" /\ todo # <<>> /\ Shared(Agent, Art)
    /\ Report(TRUE)
    /\ UNCHANGED <<disk, rows, op, rec, commands, faults, history>>

(* A wrong variant, for the mutants: a config file that cannot be read is taken
   for an empty one. *)
ReadArtifactOrEmpty ==
    /\ pc = "read" /\ todo # <<>> /\ ~Shared(Agent, Art)
    /\ \/ There(Agent, Art) = Wanted /\ Report(TRUE) /\ UNCHANGED faults
       \/ /\ There(Agent, Art) # Wanted
          /\ buf' = IF Art = "skill" THEN None ELSE [mcp |-> mcp[Agent], user |-> user[Agent]]
          /\ pc' = "write" /\ UNCHANGED <<todo, arts, outs, faults>>
       \/ /\ Art # "skill" /\ Fault
          /\ buf' = [mcp |-> [k \in Keys |-> None], user |-> FALSE]
          /\ pc' = "write" /\ UNCHANGED <<todo, arts, outs>>
    /\ UNCHANGED <<disk, rows, op, rec, commands, history>>

(* InstallMCP, RemoveMCP, InstallSkill, RemoveSkill: what is there is read.  If
   it is as wanted it is reported as unchanged.  Whether the skill's folder is
   there to be removed is never an error. *)
ReadArtifact ==
    /\ pc = "read" /\ todo # <<>> /\ ~Shared(Agent, Art)
    /\ \/ There(Agent, Art) = Wanted /\ Report(TRUE) /\ UNCHANGED faults
       \/ /\ There(Agent, Art) # Wanted
          /\ buf' = IF Art = "skill" THEN None ELSE [mcp |-> mcp[Agent], user |-> user[Agent]]
          /\ pc' = "write" /\ UNCHANGED <<todo, arts, outs, faults>>
       \/ (Art # "skill" \/ op = "install") /\ Fault /\ Report(FALSE)
    /\ UNCHANGED <<disk, rows, op, rec, commands, history>>

(* A wrong variant, for the mutants: the error of the write is not looked at. *)
WriteConfigUnchecked ==
    /\ pc = "write" /\ Art # "skill"
    /\ \/ /\ mcp' = [mcp EXCEPT ![Agent] = [buf.mcp EXCEPT ![Art] = Wanted]]
          /\ user' = [user EXCEPT ![Agent] = buf.user]
          /\ UNCHANGED faults
       \/ Fault /\ UNCHANGED <<mcp, user>>
    /\ Report(TRUE)
    /\ UNCHANGED <<skill, rows, op, rec, commands, history>>

(* writeConfig: the config file is replaced by what was read and the change. *)
WriteConfig ==
    /\ pc = "write" /\ Art # "skill"
    /\ \/ /\ mcp' = [mcp EXCEPT ![Agent] = [buf.mcp EXCEPT ![Art] = Wanted]]
          /\ user' = [user EXCEPT ![Agent] = buf.user]
          /\ Report(TRUE) /\ UNCHANGED faults
       \/ Fault /\ Report(FALSE) /\ UNCHANGED <<mcp, user>>
    /\ UNCHANGED <<skill, rows, op, rec, commands, history>>

(* The skill's file is written, or its folder removed. *)
WriteSkill ==
    /\ pc = "write" /\ Art = "skill"
    /\ \/ skill' = [skill EXCEPT ![SkillPath[Agent]] = Wanted] /\ Report(TRUE) /\ UNCHANGED faults
       \/ Fault /\ Report(FALSE) /\ UNCHANGED skill
    /\ UNCHANGED <<mcp, user, rows, op, rec, commands, history>>

(* The command is over. *)
End ==
    /\ pc' = "idle" /\ op' = None /\ rec' = None
    /\ todo' = <<>> /\ arts' = <<>> /\ buf' = None /\ outs' = {}

(* withManifest loads the manifest; one that cannot be read is left alone. *)
LoadManifest ==
    /\ pc = "read" /\ todo = <<>>
    /\ \/ pc' = "save" /\ buf' = rows /\ UNCHANGED <<op, rec, todo, arts, outs, faults, missed>>
       \/ Fault /\ End /\ missed' = TRUE
    /\ UNCHANGED <<disk, rows, commands, wants, overlap, left>>

(* BuildEntry: the artifacts that landed. *)
Landed(a) == {o.art : o \in {x \in outs : x.agent = a /\ x.ok}}
(* Cleared: something is gone and nothing has failed. *)
Cleared(a) == Landed(a) # {} /\ \A o \in outs : o.agent = a => o.ok

(* A wrong variant, for the mutants: the row before is replaced. *)
RecordInstallsAfresh == [a \in AgentSet |-> IF Landed(a) # {} THEN Landed(a) ELSE buf[a]]

(* recordInstalls: a row for every agent that received something, which also
   names what its row before did (WithCarriedArtifacts). *)
RecordInstalls == [a \in AgentSet |-> IF Landed(a) # {} THEN buf[a] \cup Landed(a) ELSE buf[a]]

(* recordUninstalls: the row of an agent that was cleared is dropped. *)
RecordUninstalls == [a \in AgentSet |-> IF Cleared(a) THEN {} ELSE buf[a]]

(* The skill of a was reported as dealt with, and the agent that had its turn
   with the folder had failed. *)
FailedForAnother(a) ==
    \E o \in outs : o.art = "skill" /\ ~o.ok /\ SkillPath[o.agent] = SkillPath[a]

(* What an uninstall has not removed of an agent whose row it drops. *)
LeftBehind ==
    {p \in AgentSet \X Names :
        Cleared(p[1]) /\ (p[2] \notin Range(Artifacts(rec)) \/ (p[2] = "skill" /\ FailedForAnother(p[1])))}

(* What nobody has named again, or removed. *)
StillLeft ==
    IF op = "install"
    THEN left \ {<<o.agent, o.art>> : o \in {x \in outs : x.ok}}
    ELSE {p \in left \cup LeftBehind : There(p[1], p[2]) # None}

SaveManifest ==
    /\ pc = "save"
    /\ \/ /\ rows' = IF op = "install" THEN RecordInstalls ELSE RecordUninstalls
          /\ left' = StillLeft
          /\ UNCHANGED <<faults, missed>>
       \/ Fault /\ missed' = TRUE /\ UNCHANGED <<rows, left>>
    /\ End
    /\ UNCHANGED <<disk, commands, wants, overlap>>

(* The command is interrupted. *)
Interrupt ==
    /\ pc # "idle" /\ Fault /\ End /\ missed' = TRUE
    /\ UNCHANGED <<disk, rows, commands, wants, overlap, left>>

(* The user, or the agent itself, edits the config file. *)
Edit(a) ==
    /\ user' = [user EXCEPT ![a] = ~@] /\ wants' = [wants EXCEPT ![a] = ~user[a]]
    /\ overlap' = (overlap \/ (pc = "write" /\ Agent = a /\ Art # "skill"))
    /\ UNCHANGED <<mcp, skill, rows, pc, op, rec, todo, arts, buf, outs, commands, faults, missed, left>>

Next ==
    \/ \E o \in {"install", "uninstall"}, r \in Records, sel \in Selections : Start(o, r, sel)
    \/ ReportShared \/ ReadArtifact \/ WriteConfig \/ WriteSkill
    \/ LoadManifest \/ SaveManifest \/ Interrupt
    \/ \E a \in AgentSet : Edit(a)

Spec == Init /\ [][Next]_vars
-----------------------------------------------------------------------------
(* What a command reports, and the manifest will record, is so: an artifact
   reported as installed is the record's, one reported as removed is gone.
   The exception is a skill folder that two agents share: when the first one's
   write fails, the second reports the skill as unchanged all the same
   (sharedSkillOutcome), so that its row claims a skill that is not there, or
   is dropped although the skill is. *)
OutcomesAreTrue ==
    \A o \in outs : o.ok =>
        \/ There(o.agent, o.art) = Wanted
        \/ o.art = "skill" /\ FailedForAnother(o.agent)

(* Some row names the artifact, or the command at hand is about to. *)
Named(a, art) == art \in rows[a] \/ (op = "install" /\ art \in Landed(a))

(* The manifest is the only note of what to clean up: what is on disk is named
   by the row of the agent that has it, across reinstalls of other versions
   and whatever failed on the way.  The exceptions are a command that never
   came to update the manifest, and an uninstall that drops the row while it
   knows only the artifacts of the version it is given (Cleared looks at the
   outcomes, not at the row), or counts on a shared skill another agent failed
   to remove. *)
RowsNameArtifacts ==
    missed \/
    /\ \A a \in AgentSet, k \in Keys : mcp[a][k] # None => Named(a, k) \/ <<a, k>> \in left
    /\ \A d \in Range(SkillPath) : skill[d] # None =>
          \E a \in AgentSet : SkillPath[a] = d /\ (Named(a, "skill") \/ <<a, "skill">> \in left)

(* Installing and removing preserve the rest of a config file: the user's own
   entry is what the user last made it, unless they edited the file between
   the reading and the renaming of it (InstallMCP and RemoveMCP take no lock). *)
SiblingsSurvive == overlap \/ user = wants

-----------------------------------------------------------------------------
(* Types. *)
TypeOK ==
    /\ mcp \in [AgentSet -> [Keys -> Records \cup {None}]]
    /\ user \in [AgentSet -> BOOLEAN] /\ wants \in [AgentSet -> BOOLEAN]
    /\ skill \in [Range(SkillPath) -> Records \cup {None}]
    /\ rows \in [AgentSet -> SUBSET Names]
    /\ pc \in {"idle", "read", "write", "save"}
    /\ pc # "idle" => op \in {"install", "uninstall"} /\ rec \in Records
    /\ todo \in Seq(AgentSet) /\ arts \in Seq(Names)
    /\ outs \subseteq [agent : AgentSet, art : Names, ok : BOOLEAN]
    /\ overlap \in BOOLEAN /\ missed \in BOOLEAN
    /\ left \subseteq AgentSet \X Names
    /\ commands \in Nat /\ faults \in Nat

(* Where a command is.  What it has read of a config file it is about to write
   is still what is there, but for an edit of the user's; what it has read of
   the manifest is what is there, commands running one at a time. *)
InHand ==
    /\ pc = "idle" => outs = {}
    /\ pc # "idle" /\ todo # <<>> => arts # <<>>
    /\ pc # "idle" => Artifacts(rec) # <<>>
    /\ pc = "write" => todo # <<>>
    /\ pc = "write" /\ Art # "skill" =>
          buf.mcp = mcp[Agent] /\ buf.user \in BOOLEAN /\ (overlap \/ buf.user = user[Agent])
    /\ pc = "save" => todo = <<>> /\ buf = rows

Reported(a, art) == \E o \in outs : o.agent = a /\ o.art = art

(* An agent the command has come to has an outcome for every artifact of the
   record that is not still to come. *)
AllReported ==
    pc # "idle" =>
        \A a \in AgentSet, art \in Range(Artifacts(rec)) :
            (\E o \in outs : o.agent = a) \/ (todo # <<>> /\ a = Agent) =>
                Reported(a, art) \/ (todo # <<>> /\ a = Agent /\ art \in Range(arts))

(* Inductive form of the three properties above. *)
InstallInv ==
    TypeOK /\ InHand /\ AllReported /\ OutcomesAreTrue /\ RowsNameArtifacts /\ SiblingsSurvive
=============================================================================
