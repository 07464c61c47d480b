---------------------------- MODULE InstallProofs ----------------------------
(***************************************************************************)
(* Proofs, for any agents, skill folders, versions and servers, any number *)
(* of commands, faults and edits, that what a command reports is so, that  *)
(* the manifest names what is on disk, and that the user's own entries     *)
(* survive, with the exceptions the properties state.                      *)
(***************************************************************************)
EXTENDS Install, TLAPS

USE DEF Names

(* The head and the tail of a sequence that is not empty. *)
LEMMA HeadTail ==
  ASSUME NEW S, NEW s \in Seq(S), s # <<>>
  PROVE  /\ Head(s) \in S /\ Tail(s) \in Seq(S)
         /\ \A x \in Range(s) : x = Head(s) \/ x \in Range(Tail(s))
         /\ Range(<<>>) = {}
<1>1. Head(s) \in S /\ Tail(s) \in Seq(S)
  OBVIOUS
<1>2. ASSUME NEW x \in Range(s), x # Head(s) PROVE x \in Range(Tail(s))
  <2>1. PICK i \in 1..Len(s) : x = s[i]
    BY DEF Range
  <2>2. i # 1 /\ i - 1 \in 1..Len(Tail(s)) /\ Tail(s)[i - 1] = x
    BY <2>1, <1>2
  <2>3. ASSUME NEW t \in Seq(S), NEW j \in 1..Len(t) PROVE t[j] \in Range(t)
    BY DEF Range
  <2> QED  BY Zenon, <2>2, <2>3, <1>1
<1>3. Range(<<>>) = {}
  BY DEF Range
<1> QED  BY <1>1, <1>2, <1>3

(* A fault is counted. *)
LEMMA FaultCount == ASSUME faults \in Nat, Fault PROVE faults' \in Nat
  BY DEF Fault

(* The artifacts of a record are named by its keys and "skill". *)
LEMMA ArtifactsType ==
  ASSUME NEW r \in Records
  PROVE  Artifacts(r) \in Seq(Names) /\ Range(Artifacts(r)) \subseteq Names
<1>1. Servers[r] \in Seq(Names) /\ <<"skill">> \in Seq(Names) /\ <<>> \in Seq(Names)
  BY InstallConstants
<1>2. ASSUME NEW s \in Seq(Names), NEW t \in Seq(Names) PROVE s \o t \in Seq(Names)
  OBVIOUS
<1>3. Artifacts(r) \in Seq(Names)
  BY Zenon, <1>1, <1>2 DEF Artifacts
<1>4. ASSUME NEW s \in Seq(Names) PROVE Range(s) \subseteq Names
  BY DEF Range
<1> QED
  BY <1>3, <1>4

(* A selection is a sequence of agents, and not empty. *)
LEMMA SelectionType ==
  ASSUME NEW sel \in Selections
  PROVE  sel \in Seq(AgentSet) /\ sel # <<>>
<1>1. PICK n \in 1..Len(Agents) : sel \in [1..n -> AgentSet]
  BY DEF Selections
<1>2. Len(Agents) \in Nat
  BY InstallConstants
<1> QED  BY <1>1, <1>2
(* The agent and the artifact at hand. *)
LEMMA HandTypes ==
  ASSUME TypeOK, InHand, pc # "idle", todo # <<>>
  PROVE  Agent \in AgentSet /\ Art \in Names /\ Art \in Range(arts)
<1>1. arts # <<>> /\ arts \in Seq(Names) /\ todo \in Seq(AgentSet)
  BY DEF TypeOK, InHand
<1>2. Art = arts[1] /\ 1 \in DOMAIN arts
  BY <1>1 DEF Art
<1> QED
  BY <1>1, <1>2, HeadTail DEF Agent, Art, Range

(* Reporting keeps the loops and the outcomes well typed. *)
LEMMA ReportTypes ==
  ASSUME TypeOK, InHand, pc # "idle", todo # <<>>, NEW ok \in BOOLEAN, Report(ok)
  PROVE  /\ todo' \in Seq(AgentSet) /\ arts' \in Seq(Names) /\ arts' # <<>>
         /\ outs' \subseteq [agent : AgentSet, art : Names, ok : BOOLEAN]
<1>1. arts # <<>> /\ arts \in Seq(Names) /\ todo \in Seq(AgentSet) /\ rec \in Records
      /\ Artifacts(rec) # <<>>
  BY DEF TypeOK, InHand
<1>2. Tail(todo) \in Seq(AgentSet) /\ Tail(arts) \in Seq(Names)
  BY <1>1, HeadTail
<1>3. Artifacts(rec) \in Seq(Names)
  BY <1>1, ArtifactsType
<1>4. todo' \in Seq(AgentSet) /\ arts' \in Seq(Names) /\ arts' # <<>>
  BY Zenon, <1>1, <1>2, <1>3 DEF Report, Advance
<1>5. outs' \subseteq [agent : AgentSet, art : Names, ok : BOOLEAN]
  BY HandTypes DEF Report, TypeOK
<1> QED  BY <1>4, <1>5

(* A machine nothing was installed on satisfies the invariant. *)
LEMMA InitInv == Init => InstallInv
<1> SUFFICES ASSUME Init PROVE InstallInv
  OBVIOUS
<1>1. TypeOK
  <2>1. mcp \in [AgentSet -> [Keys -> Records \cup {None}]] /\ skill \in [Range(SkillPath) -> Records \cup {None}]
    BY DEF Init
  <2>2. rows \in [AgentSet -> SUBSET Names] /\ user \in [AgentSet -> BOOLEAN] /\ wants \in [AgentSet -> BOOLEAN]
    BY DEF Init
  <2>3. todo \in Seq(AgentSet) /\ arts \in Seq(Names)
    BY DEF Init
  <2> QED  BY Zenon, <2>1, <2>2, <2>3 DEF Init, TypeOK
<1>2. InHand /\ AllReported /\ OutcomesAreTrue /\ SiblingsSurvive
  BY DEF Init, InHand, AllReported, OutcomesAreTrue, SiblingsSurvive
<1>3. RowsNameArtifacts
  BY DEF Init, RowsNameArtifacts
<1> QED
  BY <1>1, <1>2, <1>3 DEF InstallInv

(* Every action keeps the types. *)
LEMMA NextTypes == ASSUME TypeOK, InHand, [Next]_vars  PROVE TypeOK'
<1> USE DEF disk, history
<1>0. pc # "idle" /\ rec \in Records /\ op \in {"install", "uninstall"} => Wanted \in Records \cup {None}
  BY DEF Wanted
<1>1. ASSUME NEW o \in {"install", "uninstall"}, NEW r \in Records, NEW sel \in Selections, Start(o, r, sel)
      PROVE  TypeOK'
  BY <1>1, ArtifactsType, SelectionType DEF TypeOK, Start
<1>2. CASE ReportShared
  <2>1. Report(TRUE) /\ pc # "idle" /\ todo # <<>>
    BY Zenon, <1>2 DEF ReportShared
  <2> QED  BY Zenon, <1>2, <2>1, ReportTypes DEF ReportShared, TypeOK, Report
<1>3. CASE ReadArtifact
  <2>1. pc # "idle" /\ todo # <<>>
    BY <1>3 DEF ReadArtifact
  <2>2. ASSUME NEW ok \in BOOLEAN, Report(ok), faults' \in Nat PROVE TypeOK'
    BY <1>3, <2>1, <2>2, ReportTypes DEF ReadArtifact, TypeOK, Report
  <2>3. ASSUME pc' = "write", UNCHANGED <<todo, arts, outs, faults>> PROVE TypeOK'
    BY <1>3, <2>1, <2>3 DEF ReadArtifact, TypeOK
  <2>4. faults' \in Nat
    BY Zenon, <1>3, FaultCount DEF ReadArtifact, TypeOK
  <2> QED  BY Zenon, <1>3, <2>2, <2>3, <2>4 DEF ReadArtifact
<1>4. CASE WriteConfig
  <2>1. pc # "idle" /\ todo # <<>> /\ Art # "skill" /\ buf.mcp = mcp[Agent] /\ buf.user \in BOOLEAN
    BY <1>4 DEF WriteConfig, InHand
  <2>2. Agent \in AgentSet /\ Art \in Keys /\ Wanted \in Records \cup {None}
    BY <2>1, <1>0, HandTypes DEF TypeOK
  <2>3. mcp[Agent] \in [Keys -> Records \cup {None}]
    BY <2>2 DEF TypeOK
  <2>4. mcp' \in [AgentSet -> [Keys -> Records \cup {None}]] /\ user' \in [AgentSet -> BOOLEAN]
    <3>1. [mcp[Agent] EXCEPT ![Art] = Wanted] \in [Keys -> Records \cup {None}]
      BY <2>2, <2>3
    <3>2. /\ [mcp EXCEPT ![Agent] = [mcp[Agent] EXCEPT ![Art] = Wanted]] \in [AgentSet -> [Keys -> Records \cup {None}]]
          /\ mcp \in [AgentSet -> [Keys -> Records \cup {None}]]
      BY Zenon, <3>1 DEF TypeOK
    <3>3. [user EXCEPT ![Agent] = buf.user] \in [AgentSet -> BOOLEAN] /\ user \in [AgentSet -> BOOLEAN]
      BY Zenon, <2>1 DEF TypeOK
    <3> QED  BY Zenon, <1>4, <2>1, <3>2, <3>3 DEF WriteConfig
  <2>5. ASSUME NEW ok \in BOOLEAN, Report(ok), faults' \in Nat PROVE TypeOK'
    BY <1>4, <2>1, <2>4, <2>5, ReportTypes DEF WriteConfig, TypeOK, Report
  <2>6. faults' \in Nat
    BY Zenon, <1>4, FaultCount DEF WriteConfig, TypeOK
  <2> QED  BY Zenon, <1>4, <2>5, <2>6 DEF WriteConfig
<1>5. CASE WriteSkill
  <2>1. pc # "idle" /\ todo # <<>>
    BY <1>5 DEF WriteSkill, InHand
  <2>2. Agent \in AgentSet /\ Wanted \in Records \cup {None}
    BY <2>1, <1>0, HandTypes DEF TypeOK
  <2>3. skill' \in [Range(SkillPath) -> Records \cup {None}]
    BY Zenon, <1>5, <2>2, InstallConstants DEF WriteSkill, TypeOK, Range
  <2>4. ASSUME NEW ok \in BOOLEAN, Report(ok), faults' \in Nat PROVE TypeOK'
    BY <1>5, <2>1, <2>3, <2>4, ReportTypes DEF WriteSkill, TypeOK, Report
  <2>5. faults' \in Nat
    BY Zenon, <1>5, FaultCount DEF WriteSkill, TypeOK
  <2> QED  BY Zenon, <1>5, <2>4, <2>5 DEF WriteSkill
<1>6. CASE LoadManifest
  <2>1. CASE UNCHANGED <<op, rec, todo, arts, outs, faults, missed>> /\ pc' = "save"
    BY <1>6, <2>1 DEF LoadManifest, TypeOK
  <2>2. CASE Fault /\ End /\ missed' = TRUE
    BY <1>6, <2>2 DEF LoadManifest, End, Fault, TypeOK
  <2> QED  BY Zenon, <1>6, <2>1, <2>2 DEF LoadManifest
<1>7. CASE SaveManifest
  <2>1. \A a \in AgentSet : Landed(a) \subseteq Names
    BY DEF Landed, TypeOK
  <2>2. RecordInstalls \in [AgentSet -> SUBSET Names] /\ RecordUninstalls \in [AgentSet -> SUBSET Names]
    BY <1>7, <2>1 DEF SaveManifest, InHand, RecordInstalls, RecordUninstalls, TypeOK
  <2>3. StillLeft \subseteq AgentSet \X Names
    BY DEF StillLeft, LeftBehind, TypeOK
  <2>4. faults' \in Nat /\ missed' \in BOOLEAN
    BY Zenon, <1>7, FaultCount DEF SaveManifest, TypeOK
  <2>5. rows' \in [AgentSet -> SUBSET Names] /\ left' \subseteq AgentSet \X Names
    BY <1>7, <2>2, <2>3 DEF SaveManifest, TypeOK
  <2> QED  BY <1>7, <2>4, <2>5 DEF SaveManifest, End, TypeOK
<1>8. CASE Interrupt
  BY <1>8 DEF Interrupt, End, Fault, TypeOK
<1>9. ASSUME NEW a \in AgentSet, Edit(a) PROVE TypeOK'
  BY <1>9 DEF Edit, TypeOK
<1>10. CASE UNCHANGED vars
  BY <1>10 DEF vars, TypeOK
<1> QED
  BY <1>1, <1>2, <1>3, <1>4, <1>5, <1>6, <1>7, <1>8, <1>9, <1>10 DEF Next
(* Reporting takes the loops to a state in which they are as InHand says. *)
LEMMA ReportInHand ==
  ASSUME TypeOK, InHand, pc # "idle", todo # <<>>, NEW ok \in BOOLEAN, Report(ok), rec' = rec
  PROVE  InHand'
<1>1. pc' = "read" /\ arts' # <<>>
  BY ReportTypes DEF Report
<1>2. Artifacts(rec)' # <<>>
  BY DEF InHand, Artifacts
<1> QED  BY <1>1, <1>2 DEF InHand

(* Every action keeps InHand. *)
LEMMA NextInHand == ASSUME TypeOK, InHand, [Next]_vars  PROVE InHand'
<1> USE DEF disk, history
<1>1. ASSUME NEW o \in {"install", "uninstall"}, NEW r \in Records, NEW sel \in Selections, Start(o, r, sel)
      PROVE  InHand'
  BY <1>1 DEF InHand, Start, Artifacts
<1>2. CASE ReportShared
  BY Zenon, <1>2, ReportInHand DEF ReportShared
<1>3. CASE ReadArtifact
  <2>1. pc # "idle" /\ todo # <<>> /\ rec' = rec
    BY <1>3 DEF ReadArtifact
  <2>2. ASSUME pc' = "write", UNCHANGED <<todo, arts, outs, faults>>,
               buf' = IF Art = "skill" THEN None ELSE [mcp |-> mcp[Agent], user |-> user[Agent]]
        PROVE  InHand'
    <3>1. Agent' = Agent /\ Art' = Art /\ mcp' = mcp /\ user' = user
      BY <1>3, <2>2 DEF ReadArtifact, Agent, Art
    <3>2. Agent \in AgentSet /\ user[Agent] \in BOOLEAN
      BY <2>1, HandTypes DEF TypeOK
    <3>3. Art # "skill" => buf'.mcp = mcp[Agent] /\ buf'.user = user[Agent]
      BY <2>2
    <3>4. Artifacts(rec)' # <<>> /\ arts' # <<>>
      BY <2>1, <2>2 DEF InHand, Artifacts
    <3> QED  BY <2>1, <2>2, <3>1, <3>2, <3>3, <3>4 DEF InHand
  <2> QED  BY Zenon, <1>3, <2>1, <2>2, ReportInHand DEF ReadArtifact
<1>4. CASE WriteConfig
  BY Zenon, <1>4, ReportInHand DEF WriteConfig, InHand
<1>5. CASE WriteSkill
  BY Zenon, <1>5, ReportInHand DEF WriteSkill, InHand
<1>6. CASE LoadManifest
  BY <1>6 DEF LoadManifest, End, InHand, Artifacts
<1>7. CASE SaveManifest
  BY <1>7 DEF SaveManifest, End, InHand
<1>8. CASE Interrupt
  BY <1>8 DEF Interrupt, End, InHand
<1>9. ASSUME NEW a \in AgentSet, Edit(a) PROVE InHand'
  <2>1. UNCHANGED <<mcp, rows, pc, rec, todo, arts, buf, outs>> /\ Agent' = Agent /\ Art' = Art
    BY <1>9 DEF Edit, Agent, Art
  <2>2. Artifacts(rec)' = Artifacts(rec)
    BY <2>1 DEF Artifacts
  <2>3. pc = "write" /\ Art # "skill" => overlap' \/ (~overlap /\ user'[Agent] = user[Agent])
    BY Zenon, <1>9, HandTypes DEF Edit, InHand, TypeOK
  <2> QED  BY <2>1, <2>2, <2>3 DEF InHand
<1>10. CASE UNCHANGED vars
  BY <1>10 DEF vars, InHand, Artifacts, Agent, Art
<1> QED
  BY <1>1, <1>2, <1>3, <1>4, <1>5, <1>6, <1>7, <1>8, <1>9, <1>10 DEF Next

(* Only an edit and a write touch the user's entry; the write puts back what was
   read. *)
LEMMA NextSiblings == ASSUME TypeOK, InHand, SiblingsSurvive, [Next]_vars  PROVE SiblingsSurvive'
<1> USE DEF disk, history, SiblingsSurvive
<1>1. CASE WriteConfig
  <2>1. overlap \/ buf.user = user[Agent]
    BY <1>1 DEF WriteConfig, InHand
  <2>2. overlap' = overlap /\ wants' = wants /\ (user' = user \/ user' = [user EXCEPT ![Agent] = buf.user])
    BY Zenon, <1>1 DEF WriteConfig
  <2> QED  BY <2>1, <2>2 DEF TypeOK
<1>2. ASSUME NEW a \in AgentSet, Edit(a) PROVE SiblingsSurvive'
  BY Zenon, <1>2 DEF Edit, TypeOK
<1>3. ASSUME UNCHANGED <<user, wants, overlap>> PROVE SiblingsSurvive'
  BY <1>3
<1> QED
  BY Zenon, <1>1, <1>2, <1>3 DEF Next, Start, ReportShared, ReadArtifact, WriteSkill, LoadManifest, SaveManifest, Interrupt, vars
(* Reporting an artifact leaves none behind: it has its outcome, those after it
   are still to come, and the next agent begins with all of them. *)
LEMMA ReportReported ==
  ASSUME TypeOK, InHand, AllReported, pc # "idle", todo # <<>>, NEW ok \in BOOLEAN, Report(ok), rec' = rec
  PROVE  AllReported'
<1>1. arts \in Seq(Names) /\ arts # <<>>
  BY DEF TypeOK, InHand
<1>2. Artifacts(rec)' = Artifacts(rec)
  BY DEF Artifacts
<1> SUFFICES ASSUME NEW a \in AgentSet, NEW art \in Range(Artifacts(rec)),
                    (\E o \in outs' : o.agent = a) \/ (todo' # <<>> /\ a = Agent')
             PROVE  Reported(a, art)' \/ (todo' # <<>> /\ a = Agent' /\ art \in Range(arts'))
  BY <1>2 DEF AllReported
<1>3. Reported(a, art) => Reported(a, art)'
  BY DEF Reported, Report
<1>4. CASE a = Agent
  <2>1. Reported(a, art) \/ art \in Range(arts)
    BY <1>4 DEF AllReported
  <2>2. art = Art => Reported(a, art)'
    <3> DEFINE new == [agent |-> Agent, art |-> Art, ok |-> ok]
    <3>1. new \in outs'
      BY DEF Report
    <3>2. new.agent = Agent /\ new.art = Art
      OBVIOUS
    <3> HIDE DEF new
    <3> QED  BY <1>4, <3>1, <3>2 DEF Reported
  <2>3. art \in Range(arts) /\ art # Art => art \in Range(Tail(arts)) /\ Tail(arts) # <<>>
    BY Zenon, <1>1, HeadTail DEF Art
  <2>4. Tail(arts) # <<>> => arts' = Tail(arts) /\ todo' = todo /\ Agent' = Agent
    BY DEF Report, Advance, Agent
  <2> QED  BY Zenon, <1>3, <1>4, <2>1, <2>2, <2>3, <2>4
<1>5. CASE a # Agent
  <2>1. ASSUME NEW o \in outs', o.agent = a PROVE Reported(a, art)'
    <3>1. o \in outs
      BY <1>5, <2>1 DEF Report
    <3> QED  BY <1>3, <1>5, <2>1, <3>1 DEF AllReported
  <2>2. ASSUME todo' # <<>>, a = Agent' PROVE art \in Range(arts')
    BY <1>5, <2>2 DEF Report, Advance, Agent
  <2> QED  BY <2>1, <2>2
<1> QED  BY <1>4, <1>5

(* Every action keeps AllReported. *)
LEMMA NextReported == ASSUME TypeOK, InHand, AllReported, [Next]_vars  PROVE AllReported'
<1> USE DEF disk, history
<1>1. ASSUME NEW o \in {"install", "uninstall"}, NEW r \in Records, NEW sel \in Selections, Start(o, r, sel)
      PROVE  AllReported'
  <2>1. outs' = {} /\ arts' = Artifacts(rec)'
    BY <1>1 DEF Start, InHand, Artifacts
  <2> QED  BY <2>1 DEF AllReported
<1>2. CASE ReportShared
  BY Zenon, <1>2, ReportReported DEF ReportShared
<1>3. ASSUME UNCHANGED <<rec, todo, arts, outs>>, pc # "idle" \/ pc' = "idle" PROVE AllReported'
  BY <1>3 DEF AllReported, Artifacts, Agent, Reported
<1>4. CASE ReadArtifact
  BY Zenon, <1>3, <1>4, ReportReported DEF ReadArtifact
<1>5. CASE WriteConfig
  BY Zenon, <1>5, ReportReported DEF WriteConfig, InHand
<1>6. CASE WriteSkill
  BY Zenon, <1>6, ReportReported DEF WriteSkill, InHand
<1>7. ASSUME pc' = "idle" PROVE AllReported'
  BY <1>7 DEF AllReported
<1>8. CASE LoadManifest \/ SaveManifest \/ Interrupt
  BY <1>3, <1>7, <1>8 DEF LoadManifest, SaveManifest, Interrupt, End
<1>9. CASE (\E a \in AgentSet : Edit(a)) \/ UNCHANGED vars
  BY <1>3, <1>9 DEF Edit, vars
<1> QED
  BY <1>1, <1>2, <1>4, <1>5, <1>6, <1>8, <1>9 DEF Next

(* An outcome that is true stays true while nothing it is about is overwritten
   by anything but what the command wants. *)
LEMMA ReportTrue ==
  ASSUME TypeOK, InHand, OutcomesAreTrue, pc # "idle", todo # <<>>, NEW ok \in BOOLEAN, Report(ok),
         UNCHANGED <<op, rec>>, NEW g, NEW x, g = Agent, x = Art,
         \A a \in AgentSet, art \in Names :
             There(a, art) = Wanted => There(a, art)' = Wanted,
         ok => There(g, x)' = Wanted \/ (x = "skill" /\ FailedForAnother(g))
  PROVE  OutcomesAreTrue'
<1>1. Wanted' = Wanted
  BY DEF Wanted
<1>2. ASSUME NEW a, FailedForAnother(a) PROVE FailedForAnother(a)'
  BY <1>2 DEF FailedForAnother, Report
<1> SUFFICES ASSUME NEW o \in outs', o.ok
             PROVE  There(o.agent, o.art)' = Wanted \/ (o.art = "skill" /\ FailedForAnother(o.agent)')
  BY <1>1 DEF OutcomesAreTrue
<1>3. CASE o \in outs
  <2>1. o.agent \in AgentSet /\ o.art \in Names
    BY <1>3 DEF TypeOK
  <2>2. There(o.agent, o.art) = Wanted \/ (o.art = "skill" /\ FailedForAnother(o.agent))
    BY <1>3 DEF OutcomesAreTrue
  <2> QED  BY <1>2, <2>1, <2>2
<1>4. CASE o \notin outs
  <2>1. o = [agent |-> Agent, art |-> Art, ok |-> ok]
    BY <1>4 DEF Report
  <2>2. o.agent = g /\ o.art = x /\ ok
    BY <2>1
  <2> QED  BY <1>2, <2>2
<1> QED  BY <1>3, <1>4

(* Every action keeps the outcomes true. *)
LEMMA NextTrue == ASSUME TypeOK, InHand, OutcomesAreTrue, [Next]_vars  PROVE OutcomesAreTrue'
<1> USE DEF disk, history
<1>0. PICK g, x : g = Agent /\ x = Art
  OBVIOUS
<1>1. ASSUME UNCHANGED <<mcp, skill, op, rec, outs>> PROVE OutcomesAreTrue'
  BY <1>1 DEF OutcomesAreTrue, There, Wanted, FailedForAnother
<1>2. ASSUME outs' = {} PROVE OutcomesAreTrue'
  BY <1>2 DEF OutcomesAreTrue
<1>3. ASSUME UNCHANGED <<mcp, skill>>, NEW a, NEW art PROVE There(a, art)' = There(a, art)
  BY <1>3 DEF There
<1>4. CASE ReportShared
  <2>1. pc # "idle" /\ todo # <<>> /\ Report(TRUE) /\ UNCHANGED <<op, rec, mcp, skill>> /\ Shared(Agent, Art)
    BY Zenon, <1>4 DEF ReportShared
  <2>2. PICK o \in outs : o.art = "skill" /\ SkillPath[o.agent] = SkillPath[Agent] /\ Art = "skill"
    BY <2>1 DEF Shared
  <2>3. o.ok => There(o.agent, o.art) = Wanted \/ FailedForAnother(o.agent)
    BY <2>2 DEF OutcomesAreTrue
  <2>4. There(Agent, Art) = Wanted \/ FailedForAnother(Agent)
    BY <2>2, <2>3 DEF There, FailedForAnother
  <2> QED  BY Zenon, <2>1, <2>2, <2>4, <1>3, ReportTrue, <1>0
<1>5. CASE ReadArtifact
  <2>1. pc # "idle" /\ todo # <<>> /\ UNCHANGED <<op, rec, mcp, skill>>
    BY <1>5 DEF ReadArtifact
  <2>2. CASE There(Agent, Art) = Wanted /\ Report(TRUE)
    BY Zenon, <2>1, <2>2, <1>3, ReportTrue, <1>0
  <2>3. CASE Report(FALSE)
    BY Zenon, <2>1, <2>3, <1>3, ReportTrue, <1>0
  <2>4. CASE outs' = outs
    BY <2>1, <2>4, <1>1
  <2> QED  BY Zenon, <1>5, <2>2, <2>3, <2>4 DEF ReadArtifact
<1>6. CASE WriteConfig
  <2>1. pc # "idle" /\ todo # <<>> /\ UNCHANGED <<op, rec, skill>> /\ Art # "skill" /\ buf.mcp = mcp[Agent]
    BY <1>6 DEF WriteConfig, InHand
  <2>2. Agent \in AgentSet /\ Art \in Keys
    BY <2>1, HandTypes
  <2>3. CASE mcp' = [mcp EXCEPT ![Agent] = [buf.mcp EXCEPT ![Art] = Wanted]] /\ Report(TRUE)
    <3>1. There(g, x)' = Wanted
      BY <1>0, <2>1, <2>2, <2>3 DEF There, TypeOK
    <3>2. ASSUME NEW a \in AgentSet, NEW art \in Names, There(a, art) = Wanted PROVE There(a, art)' = Wanted
      BY <2>1, <2>2, <2>3, <3>2 DEF There, TypeOK
    <3> QED  BY ZenonT(60), <2>1, <2>3, <3>1, <3>2, ReportTrue, <1>0
  <2>4. CASE UNCHANGED mcp /\ Report(FALSE)
    BY Zenon, <2>1, <2>4, <1>3, ReportTrue, <1>0
  <2> QED  BY Zenon, <1>6, <2>3, <2>4 DEF WriteConfig
<1>7. CASE WriteSkill
  <2>1. pc # "idle" /\ todo # <<>> /\ UNCHANGED <<op, rec, mcp>> /\ Art = "skill"
    BY <1>7 DEF WriteSkill, InHand
  <2>2. Agent \in AgentSet /\ SkillPath[Agent] \in Range(SkillPath)
    BY <2>1, HandTypes, InstallConstants DEF Range
  <2>3. CASE skill' = [skill EXCEPT ![SkillPath[Agent]] = Wanted] /\ Report(TRUE)
    <3>1. There(g, x)' = Wanted
      BY <1>0, <2>1, <2>2, <2>3 DEF There, TypeOK
    <3>2. ASSUME NEW a \in AgentSet, NEW art \in Names, There(a, art) = Wanted PROVE There(a, art)' = Wanted
      <4>1. SkillPath[a] \in Range(SkillPath)
        BY InstallConstants DEF Range
      <4> QED  BY <2>1, <2>2, <2>3, <3>2, <4>1 DEF There, TypeOK
    <3> QED  BY Zenon, <2>1, <2>3, <3>1, <3>2, ReportTrue, <1>0
  <2>4. CASE UNCHANGED skill /\ Report(FALSE)
    BY Zenon, <2>1, <2>4, <1>3, ReportTrue, <1>0
  <2> QED  BY Zenon, <1>7, <2>3, <2>4 DEF WriteSkill
<1>8. CASE LoadManifest \/ SaveManifest \/ Interrupt
  BY <1>1, <1>2, <1>8 DEF LoadManifest, SaveManifest, Interrupt, End
<1>9. ASSUME NEW o \in {"install", "uninstall"}, NEW r \in Records, NEW sel \in Selections, Start(o, r, sel)
      PROVE  OutcomesAreTrue'
  BY Zenon, <1>2, <1>9 DEF Start, InHand
<1>10. CASE (\E a \in AgentSet : Edit(a)) \/ UNCHANGED vars
  BY <1>1, <1>10 DEF Edit, vars
<1> QED
  BY <1>4, <1>5, <1>6, <1>7, <1>8, <1>9, <1>10 DEF Next
(* What is on disk of an agent is named, or left behind. *)
LEMMA ReportNamed ==
  ASSUME NEW a, NEW art, NEW ok, Report(ok), UNCHANGED <<op, rows>>, Named(a, art)
  PROVE  Named(a, art)'
  BY DEF Named, Landed, Report

(* A step writes nothing but the artifact at hand, and that as the command wants
   it. *)
McpChange(ok, g, x) ==
    \A a \in AgentSet, k \in Keys :
        mcp'[a][k] = mcp[a][k] \/ (ok /\ a = g /\ k = x /\ mcp'[a][k] = Wanted)
SkillChange(ok, g, x) ==
    \A d \in Range(SkillPath) :
        skill'[d] = skill[d] \/ (ok /\ x = "skill" /\ d = SkillPath[g] /\ skill'[d] = Wanted)

(* What a command reports as in place, or leaves as it is, stays named while
   nothing but the artifact at hand is written. *)
LEMMA ReportRows ==
  ASSUME TypeOK, InHand, RowsNameArtifacts, pc # "idle", todo # <<>>, NEW ok \in BOOLEAN, Report(ok),
         UNCHANGED <<op, rows, missed, left>>, NEW g, NEW x, g = Agent, x = Art,
         McpChange(ok, g, x), SkillChange(ok, g, x)
  PROVE  RowsNameArtifacts'
<1>1. g \in AgentSet
  BY HandTypes
<1>2. ok /\ op = "install" => Named(g, x)'
  <2> DEFINE new == [agent |-> g, art |-> x, ok |-> ok]
  <2>1. new \in outs'
    BY DEF Report
  <2>2. new.agent = g /\ new.art = x /\ new.ok = ok
    OBVIOUS
  <2> HIDE DEF new
  <2>3. ok => x \in Landed(g)'
    BY Zenon, <2>1, <2>2 DEF Landed
  <2> QED  BY <2>3 DEF Named
<1>3. op # "install" => Wanted = None
  BY DEF Wanted
<1>4. ASSUME NEW a \in AgentSet, NEW k \in Keys, ~missed, mcp'[a][k] # None
      PROVE  Named(a, k)' \/ <<a, k>> \in left'
  <2>1. CASE mcp'[a][k] = mcp[a][k]
    BY <1>4, <2>1, ReportNamed DEF RowsNameArtifacts
  <2>2. CASE ok /\ a = g /\ k = x /\ mcp'[a][k] = Wanted
    BY <1>2, <1>3, <1>4, <2>2
  <2> QED  BY <2>1, <2>2 DEF McpChange
<1>5. ASSUME NEW d \in Range(SkillPath), ~missed, skill'[d] # None
      PROVE  \E a \in AgentSet : SkillPath[a] = d /\ (Named(a, "skill")' \/ <<a, "skill">> \in left')
  <2>1. CASE skill'[d] = skill[d]
    BY <1>5, <2>1, ReportNamed DEF RowsNameArtifacts
  <2>2. CASE ok /\ x = "skill" /\ d = SkillPath[g] /\ skill'[d] = Wanted
    BY <1>1, <1>2, <1>3, <1>5, <2>2
  <2> QED  BY <2>1, <2>2 DEF SkillChange
<1> QED
  BY Zenon, <1>4, <1>5 DEF RowsNameArtifacts

(* recordInstalls names all that landed and all that was named. *)
LEMMA InstallRows ==
  ASSUME TypeOK, InHand, pc = "save", op = "install", rows' = RecordInstalls, left' = StillLeft,
         NEW a \in AgentSet, NEW art, Named(a, art) \/ <<a, art>> \in left
  PROVE  art \in rows'[a] \/ <<a, art>> \in left'
<1>1. buf = rows
  BY DEF InHand
<1>2. rows'[a] = IF Landed(a) # {} THEN rows[a] \cup Landed(a) ELSE rows[a]
  BY <1>1 DEF RecordInstalls
<1>3. CASE Named(a, art)
  BY <1>2, <1>3 DEF Named
<1>4. CASE <<a, art>> \in left /\ <<a, art>> \notin left'
  <2>1. PICK o \in outs : o.ok /\ <<a, art>> = <<o.agent, o.art>>
    BY <1>4 DEF StillLeft
  <2>2. art \in Landed(a)
    BY <2>1 DEF Landed
  <2> QED  BY <1>2, <2>2
<1> QED  BY <1>3, <1>4

(* recordUninstalls drops a row only if what it names is gone, or left behind. *)
LEMMA UninstallRows ==
  ASSUME TypeOK, InHand, AllReported, OutcomesAreTrue, pc = "save", op = "uninstall",
         rows' = RecordUninstalls, left' = StillLeft,
         NEW a \in AgentSet, NEW art \in Names, Named(a, art) \/ <<a, art>> \in left, There(a, art) # None
  PROVE  art \in rows'[a] \/ <<a, art>> \in left'
<1>1. buf = rows /\ todo = <<>>
  BY DEF InHand
<1>2. rows'[a] = IF Cleared(a) THEN {} ELSE rows[a]
  BY <1>1 DEF RecordUninstalls
<1>3. StillLeft = {p \in left \cup LeftBehind : There(p[1], p[2]) # None}
  BY DEF StillLeft
<1>4. <<a, art>> \in left \cup LeftBehind => <<a, art>> \in left'
  BY <1>3
<1>5. CASE Cleared(a)
  <2>1. CASE art \in Range(Artifacts(rec))
    <3>1. PICK o \in outs : o.agent = a
      BY <1>5 DEF Cleared, Landed
    <3>2. Reported(a, art)
      BY <1>1, <2>1, <3>1 DEF AllReported
    <3>3. PICK p \in outs : p.agent = a /\ p.art = art /\ p.ok
      BY <1>5, <3>2 DEF Reported, Cleared
    <3>4. Wanted = None
      BY DEF Wanted
    <3>5. art = "skill" /\ FailedForAnother(a)
      BY <3>3, <3>4 DEF OutcomesAreTrue
    <3>6. <<a, art>> \in LeftBehind
      BY <1>5, <3>5 DEF LeftBehind
    <3> QED  BY <1>4, <3>6
  <2>2. CASE art \notin Range(Artifacts(rec))
    <3>1. <<a, art>> \in LeftBehind
      BY <1>5, <2>2 DEF LeftBehind
    <3> QED  BY <1>4, <3>1
  <2> QED  BY <2>1, <2>2
<1>6. CASE ~Cleared(a)
  BY <1>2, <1>4, <1>6 DEF Named
<1> QED  BY <1>5, <1>6

(* Every action keeps the manifest to what is on disk. *)
LEMMA NextRows ==
  ASSUME TypeOK, InHand, AllReported, OutcomesAreTrue, RowsNameArtifacts, [Next]_vars
  PROVE  RowsNameArtifacts'
<1> USE DEF disk, history
<1>0. PICK g, x : g = Agent /\ x = Art
  OBVIOUS
<1>1. ASSUME UNCHANGED <<mcp, skill, rows, outs, missed, left>>, op' = op \/ outs = {} PROVE RowsNameArtifacts'
  BY <1>1 DEF RowsNameArtifacts, Named, Landed
<1>2. ASSUME missed' = TRUE PROVE RowsNameArtifacts'
  BY <1>2 DEF RowsNameArtifacts
<1>3. ASSUME NEW ok \in BOOLEAN, Report(ok), pc # "idle", todo # <<>>,
             UNCHANGED <<mcp, skill, op, rows, missed, left>>
      PROVE  RowsNameArtifacts'
  <2>1. McpChange(ok, g, x) /\ SkillChange(ok, g, x)
    BY <1>3 DEF McpChange, SkillChange
  <2> QED  BY <1>0, <1>3, <2>1, ReportRows
<1>4. ASSUME NEW o \in {"install", "uninstall"}, NEW r \in Records, NEW sel \in Selections, Start(o, r, sel)
      PROVE  RowsNameArtifacts'
  BY <1>1, <1>4 DEF Start, InHand
<1>5. CASE ReportShared
  BY Zenon, <1>3, <1>5 DEF ReportShared
<1>6. CASE ReadArtifact
  BY ZenonT(60), <1>1, <1>3, <1>6 DEF ReadArtifact
<1>7. CASE WriteConfig
  <2>1. pc # "idle" /\ todo # <<>> /\ UNCHANGED <<op, skill, rows, missed, left>> /\ Art # "skill" /\ buf.mcp = mcp[Agent]
    BY <1>7 DEF WriteConfig, InHand
  <2>2. Agent \in AgentSet /\ Art \in Keys
    BY <2>1, HandTypes
  <2>3. CASE mcp' = [mcp EXCEPT ![Agent] = [buf.mcp EXCEPT ![Art] = Wanted]] /\ Report(TRUE)
    <3>1. McpChange(TRUE, g, x)
      BY <1>0, <2>1, <2>2, <2>3 DEF TypeOK, McpChange
    <3>2. Report(TRUE) /\ SkillChange(TRUE, g, x)
      BY Zenon, <2>1, <2>3 DEF SkillChange
    <3> QED  BY Zenon, <1>0, <2>1, <3>1, <3>2, ReportRows
  <2>4. CASE UNCHANGED mcp /\ Report(FALSE)
    BY Zenon, <2>1, <2>4, <1>3
  <2> QED  BY Zenon, <1>7, <2>3, <2>4 DEF WriteConfig
<1>8. CASE WriteSkill
  <2>1. pc # "idle" /\ todo # <<>> /\ UNCHANGED <<op, mcp, rows, missed, left>> /\ Art = "skill"
    BY <1>8 DEF WriteSkill, InHand
  <2>2. CASE skill' = [skill EXCEPT ![SkillPath[Agent]] = Wanted] /\ Report(TRUE)
    <3>1. SkillChange(TRUE, g, x)
      BY <1>0, <2>1, <2>2 DEF TypeOK, SkillChange
    <3>2. Report(TRUE) /\ McpChange(TRUE, g, x)
      BY Zenon, <2>1, <2>2 DEF McpChange
    <3> QED  BY Zenon, <1>0, <2>1, <3>1, <3>2, ReportRows
  <2>3. CASE UNCHANGED skill /\ Report(FALSE)
    BY Zenon, <2>1, <2>3, <1>3
  <2> QED  BY Zenon, <1>8, <2>2, <2>3 DEF WriteSkill
<1>9. CASE LoadManifest
  BY Zenon, <1>1, <1>2, <1>9 DEF LoadManifest
<1>10. CASE SaveManifest
  <2>1. CASE missed' = TRUE
    BY <1>2, <2>1
  <2>2. CASE missed' = missed /\ left' = StillLeft /\ rows' = IF op = "install" THEN RecordInstalls ELSE RecordUninstalls
    <3>1. pc = "save" /\ op \in {"install", "uninstall"} /\ UNCHANGED <<mcp, skill>>
      BY <1>10 DEF SaveManifest, TypeOK
    <3>2. ASSUME NEW a \in AgentSet, NEW art \in Names, Named(a, art) \/ <<a, art>> \in left, There(a, art) # None
          PROVE  Named(a, art)' \/ <<a, art>> \in left'
      BY <2>2, <3>1, <3>2, InstallRows, UninstallRows DEF Named
    <3>3. ASSUME NEW a \in AgentSet, NEW k \in Keys, ~missed, mcp[a][k] # None
          PROVE  Named(a, k)' \/ <<a, k>> \in left'
      <4>1. There(a, k) = mcp[a][k]
        BY InstallConstants DEF There
      <4> QED  BY <3>2, <3>3, <4>1 DEF RowsNameArtifacts
    <3>4. ASSUME NEW d \in Range(SkillPath), ~missed, skill[d] # None
          PROVE  \E a \in AgentSet : SkillPath[a] = d /\ (Named(a, "skill")' \/ <<a, "skill">> \in left')
      <4>1. PICK a \in AgentSet : SkillPath[a] = d /\ (Named(a, "skill") \/ <<a, "skill">> \in left)
        BY <3>4 DEF RowsNameArtifacts
      <4>2. There(a, "skill") = skill[d]
        BY <4>1 DEF There
      <4> QED  BY <3>2, <3>4, <4>1, <4>2
    <3> QED  BY <2>2, <3>1, <3>3, <3>4 DEF RowsNameArtifacts
  <2> QED  BY Zenon, <1>10, <2>1, <2>2 DEF SaveManifest
<1>11. CASE Interrupt
  BY <1>2, <1>11 DEF Interrupt
<1>12. CASE (\E a \in AgentSet : Edit(a)) \/ UNCHANGED vars
  BY <1>1, <1>12 DEF Edit, vars
<1> QED
  BY <1>4, <1>5, <1>6, <1>7, <1>8, <1>9, <1>10, <1>11, <1>12 DEF Next

(* The invariant holds in every reachable state. *)
THEOREM Invariant == Spec => []InstallInv
<1>1. InstallInv /\ [Next]_vars => InstallInv'
  BY NextTypes, NextInHand, NextReported, NextTrue, NextRows, NextSiblings DEF InstallInv
<1> QED  BY <1>1, InitInv, PTL DEF Spec

(* Everything keeps its type. *)
THEOREM TypeCorrect == Spec => []TypeOK
<1>1. InstallInv => TypeOK
  BY DEF InstallInv
<1> QED  BY <1>1, Invariant, PTL

(* An artifact reported as installed is the record's, and one reported as removed
   is gone, but for a shared skill another agent failed with. *)
THEOREM ReportsAreTrue == Spec => []OutcomesAreTrue
<1>1. InstallInv => OutcomesAreTrue
  BY DEF InstallInv
<1> QED  BY <1>1, Invariant, PTL

(* Until an update of the manifest is missed, it names what is on disk, but for
   what an uninstall that drops a row leaves behind. *)
THEOREM ManifestIsComplete == Spec => []RowsNameArtifacts
<1>1. InstallInv => RowsNameArtifacts
  BY DEF InstallInv
<1> QED  BY <1>1, Invariant, PTL

(* Until the user edits a file between its reading and its renaming, their own
   entry is what they last made it. *)
THEOREM UserEntriesSurvive == Spec => []SiblingsSurvive
<1>1. InstallInv => SiblingsSurvive
  BY DEF InstallInv
<1> QED  BY <1>1, Invariant, PTL
=============================================================================
