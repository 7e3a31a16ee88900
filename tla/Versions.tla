------------------------------ MODULE Versions ------------------------------
(***************************************************************************)
(* The version contract of client and agent, internal/compat and           *)
(* internal/rpc/version.go.  A version is a record of its semver parts;    *)
(* valid is FALSE for an empty or unparsable string.  Build metadata and   *)
(* the leading "v" that normalize adds make no difference and are left out.*)
(***************************************************************************)
EXTENDS Integers

Version(major, minor, patch, pre) ==
  [valid |-> TRUE, major |-> major, minor |-> minor, patch |-> patch, pre |-> pre]

(* The version of a build that was not stamped.                             *)
NoVersion == [Version(0, 0, 0, 0) EXCEPT !.valid = FALSE]

(* The sign of semver.Compare; pre = 0 is a release and sorts after every   *)
(* pre-release of the same core.                                            *)
semverLess(a, b) ==
  \/ a.major < b.major
  \/ a.major = b.major /\ a.minor < b.minor
  \/ a.major = b.major /\ a.minor = b.minor /\ a.patch < b.patch
  \/ /\ a.major = b.major /\ a.minor = b.minor /\ a.patch = b.patch
     /\ a.pre # b.pre
     /\ b.pre = 0 \/ (a.pre # 0 /\ a.pre < b.pre)

semverCompare(a, b) ==
  IF semverLess(a, b) THEN -1 ELSE IF semverLess(b, a) THEN 1 ELSE 0

core(v) == <<v.major, v.minor, v.patch>>

(* Mutant: an older client is let through, whatever its major version.      *)
CompareOlderTolerated(self, peer) ==
  LET cmp == semverCompare(self, peer)
      result(field, verdict) ==
        [verdict |-> verdict, field |-> field, cmp |-> cmp, valid |-> TRUE]
  IN  CASE ~(self.valid /\ peer.valid) ->
             [verdict |-> "tolerated", field |-> "equal", cmp |-> 0, valid |-> FALSE]
        [] peer.major > self.major -> result("major", "incompatible")
        [] OTHER -> result("minor", "tolerated")

Compare(self, peer) ==
  LET cmp == semverCompare(self, peer)
      result(field, verdict) ==
        [verdict |-> verdict, field |-> field, cmp |-> cmp, valid |-> TRUE]
  IN  IF ~(self.valid /\ peer.valid)
        THEN [verdict |-> "tolerated", field |-> "equal", cmp |-> 0, valid |-> FALSE]
      ELSE IF self.major # peer.major THEN result("major", "incompatible")
      ELSE IF self.minor # peer.minor THEN result("minor", "tolerated")
      ELSE IF core(self) # core(peer) THEN result("patch", "compatible")
      ELSE IF cmp # 0 THEN result("prerelease", "tolerated")
      ELSE result("equal", "compatible")

(* The agent's interceptor rejects the call before its handler runs.        *)
enforce(agent, client) == Compare(agent, client).verdict # "incompatible"

(* The client's interceptor warns of any drift the agent tolerated.         *)
drifts(client, agent) == Compare(client, agent).verdict # "compatible"
=============================================================================
