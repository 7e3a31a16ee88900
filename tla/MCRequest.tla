----------------------------- MODULE MCRequest ------------------------------
(***************************************************************************)
(* Documents, setups and command lines for the model of a dutctl request.  *)
(* The documents cover every check of the load, alone and behind another   *)
(* entry; each is used with the usual setup, and one document with every   *)
(* user, pair of versions and log mode.                                    *)
(***************************************************************************)
EXTENDS Request

Mod(p, a) == [passthrough |-> p, args |-> a, fault |-> ""]
Plain == Mod(FALSE, <<Word("on")>>)
Pass == Mod(TRUE, <<>>)
Uses(a, b) == Mod(FALSE, <<Word("on"), <<Lit("-"), Ref(a), Ref(b)>>>>)

Good == Command(<<>>, <<Plain>>)
GoodPass == Command(<<>>, <<Plain, Pass>>)
GoodArgs == Command(<<"a", "b">>, <<Uses("a", "b"), Uses("b", "b")>>)

(* Commands at the edge of the checks.                                      *)
OddCommands ==
  {NullCommand, Command(<<>>, <<>>), Command(<<>>, <<Pass, Pass>>),
   Command(<<"a">>, <<Pass>>), Command(<<>>, <<Mod(TRUE, <<Word("on")>>)>>),
   Command(<<"a">>, <<Plain>>), Command(<<"a", "a">>, <<Uses("a", "a")>>),
   Command(<<"b">>, <<Uses("b", "a")>>), Command(<<>>, <<Uses("a", "a")>>),
   Command(<<>>, <<Plain, [Plain EXCEPT !.fault = "module not found"]>>),
   Command(<<>>, <<[Pass EXCEPT !.fault = "validation error"], Pass>>)}

E(n, v) == [name |-> n, value |-> v]
Device(shape, entries) ==
  [null |-> FALSE, cmds |-> [shape |-> shape, entries |-> entries]]
NullDevice == [Device("null", <<>>) EXCEPT !.null = TRUE]
Doc(entries) == [null |-> FALSE, entries |-> entries]
One(shape, entries) == Doc(<<E("dev", Device(shape, entries))>>)

UsualDoc ==
  Doc(<<E("dev", Device("mapping", <<E("cmd", GoodArgs), E("list", GoodPass)>>)),
        E("lock", Device("mapping", <<E("cmd", Good), E("nil", NullCommand)>>))>>)

Docs ==
  {UsualDoc, [null |-> TRUE, entries |-> <<>>], Doc(<<>>),
   Doc(<<E("dev", NullDevice)>>), One("null", <<>>), One("mapping", <<>>),
   One("mapping", <<E("cmd", Good), E("cmd", GoodPass)>>),
   One("alias", <<E("cmd", Good), E("cmd", GoodPass)>>),
   One("alias", <<E("lock", Good), E("cmd", GoodArgs)>>),
   One("alias", <<E("cmd", Command(<<>>, <<>>))>>)}
  \union {Doc(<<E("dev", Device("mapping", <<E("cmd", Good)>>)),
                E(n, Device("mapping", <<E("cmd", Good)>>))>>)
            : n \in {"list", "version", "help", "force"}}
  \union {One("mapping", <<E("cmd", GoodPass), E(n, Good)>>)
            : n \in {"lock", "unlock", "help", "force", "version"}}
  \union {One("mapping", <<E("cmd", c), E("help", Good)>>) : c \in OddCommands}
  \union {One("mapping", <<E("cmd", c)>>) : c \in OddCommands}

V(n) == CASE n = 0 -> NoVersion
          [] n = 1 -> Version(1, 0, 0, 0)
          [] n = 2 -> Version(1, 0, 1, 0)
          [] n = 3 -> Version(1, 1, 0, 0)
          [] n = 4 -> Version(2, 0, 0, 0)
          [] n = 5 -> Version(1, 0, 0, 1)

MCParseDuration == [t \in {"1", "2", "3", "13", "31", "-4"} |->
  CASE t = "1" -> 1 [] t = "2" -> 2 [] t = "3" -> 3 [] t = "13" -> 13
    [] t = "31" -> 31 [] t = "-4" -> -4]

D == Word("dev")
C == Word("cmd")

(* Command lines that run, or explain, a command.                           *)
RunLines ==
  {<<D>>, <<D, C>>, <<D, C, Word("help")>>, <<D, C, Word("help"), D>>,
   <<D, C, Word("x")>>, <<D, C, Word("x"), <<Ref("a")>>>>,
   <<D, C, <<Ref("b"), Lit("y")>>, <<Ref("a")>>>>,
   <<D, Word("list"), Word("x"), <<Ref("a")>>>>,
   <<Word("lock"), C>>, <<Word("lock"), Word("nil")>>}

(* Command lines that need no device, or are malformed.                     *)
OtherLines ==
  {<<>>, <<Word("list")>>, <<Word("list"), D>>, <<Word("version")>>,
   <<Word("none")>>, <<Word("none"), Word("lock")>>,
   <<D, Word("lock"), Word("-4")>>, <<D, Word("lock"), Word("soon")>>,
   <<D, Word("lock"), Word("2"), Word("2")>>, <<D, Word("lock"), <<>>>>,
   <<D, Word("unlock"), C>>}

(* Command lines that act on the lock of the device.                        *)
LockLines ==
  {<<D, Word("lock")>>, <<D, Word("lock"), Word("1")>>, <<D, Word("lock"), Word("3")>>,
   <<D, Word("lock"), Word("31")>>, <<D, Word("unlock")>>,
   <<D, Word("unlock"), Word("force")>>, <<D, C, Word("x"), Word("y")>>}

(* One line of each kind of RPC.                                            *)
ShortLines ==
  {<<>>, <<D, Word("lock"), Word("13")>>, <<D, C, Word("x"), Word("y")>>}

(* Seconds for bob; the word holds -16 to 15.5 seconds.                     *)
AnySeconds == {0, 3, 15, 16, 20, 32, -2}

Usual ==
  [doc |-> UsualDoc, agent |-> V(2), user |-> "alice", client |-> V(1),
   mode |-> "warn", lines |-> RunLines, invocations |-> 1, seconds |-> {}]

MCSetups ==
  {[Usual EXCEPT !.doc = doc] : doc \in Docs}
  \union {[Usual EXCEPT !.lines = OtherLines]}
  \union {[Usual EXCEPT !.user = u, !.lines = LockLines,
            !.invocations = 2, !.seconds = {3}] : u \in {"alice", "", "unset"}}
  \union {[Usual EXCEPT !.lines = ShortLines, !.seconds = AnySeconds]}
  \union {[Usual EXCEPT !.client = V(c), !.agent = V(a), !.lines = ShortLines]
            : c, a \in 0..5}
  \union {[Usual EXCEPT !.agent = V(3), !.mode = m, !.lines = ShortLines]
            : m \in {"none", "debug"}}
=============================================================================
