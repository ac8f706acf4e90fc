------------------------------- MODULE MCSsh -------------------------------
(* Instances of SshConfig for TLC: contents ~/.ssh/config may have at first. *)
EXTENDS SshProperties

CONSTANTS web, dev, x1, x2, ec2user, ubuntu, me, github, all

Git == <<Opt("Host", github), Opt("User", me)>>
Top == <<Opt("Other", "yes")>>
\* A block of ours the user added an alias and an option to.
Extra == <<Line("Host", <<web, github>>), Opt("User", ec2user), Opt("Other", "no")>>
Everyone(k, v) == <<Opt("Host", all), Opt(k, v)>>
Forwarding(v) == <<Opt("ForwardAgent", v), Opt("ForwardAgent", "yes")>>

PlainFiles == {<<>>, Top \o Git, Git \o Extra, Top \o Extra \o Git, HostBlock(web, x1, me) \o Everyone("Other", "yes")}
              \cup {HostBlock(web, x1, me) \o Forwarding(v) \o Git : v \in {"yes", "no"}}

\* These files meet the hypotheses of the theorems in SshProofs.
ASSUME FilesMeetHypotheses == \A f \in PlainFiles : WellFormed(f) /\ NothingForAll(f)

=============================================================================
