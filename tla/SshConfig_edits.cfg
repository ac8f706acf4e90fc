SPECIFICATION Spec
CONSTANTS
  web = web
  dev = dev
  x1 = x1
  x2 = x2
  ec2user = ec2user
  ubuntu = ubuntu
  me = me
  github = github
  all = all
  NoAddr = NoAddr
  AllHosts = all
  Words = {web, dev, x1, x2, ec2user, ubuntu, me, github, all, "yes", "no"}
  Boxes = {web, dev}
  Addrs = {x1, x2}
  Users = {ec2user}
  Procs = {1}
  UserFiles <- PlainFiles
  Commands = {"create", "start", "ssh", "rename", "delete", "git-sync"}
  MaxCommands = 3
  MaxKills = 1
CHECK_DEADLOCK FALSE
PROPERTY TableSpec
INVARIANTS ReachesByAlias ForwardingAsReported SyncedStaysSynced
