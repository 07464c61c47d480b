CONSTANTS
  code = code
  desktop = desktop
  v1 = v1
  v2 = v2
  old = old
  new = new
  claude = claude
  None = None
  Agents <- MCAgents
  SkillPath <- MCSkillPath
  Records = {v1, v2}
  Servers <- MCServers
  HasSkill <- MCHasSkill
  MaxCommands = 3
  MaxFaults = 2
SPECIFICATION Spec
INVARIANTS OutcomesAreTrue RowsNameArtifacts 
