------------------------- MODULE ConfigurationProofs -------------------------
(***************************************************************************)
(* Proofs about what the program is told to do: the command line           *)
(* (CommandLine) and the configuration files (LuaConfig).                  *)
(*                                                                         *)
(* CommandLine: for all command lines, the invariant CliIInv says where    *)
(* the commands read so far stand, all of them before the place the loop   *)
(* is at, and that each word before that place has one.                    *)
(*                                                                         *)
(* LuaConfig: for all files and any number of edits, the invariant LuaIInv *)
(* says that what is loaded is what the file says now, but for what the    *)
(* edits since explain.  Each setting depends on its own key and on the    *)
(* tables around it (OwnKeyOnly).                                          *)
(***************************************************************************)
EXTENDS CommandLine, LuaConfig, TLAPS

-----------------------------------------------------------------------------
(* CommandLine: the invariant.                                              *)

CommandType ==
  [type : {"LOCAL", "SSH", "SETTINGS"}, path : Nat, host : Nat, user : Nat,
   interfaces : Nat]

CliTypeInv ==
  /\ args \in Seq(Tokens)
  /\ i \in Nat \ {0}
  /\ options \in [global : Nat, persistent : BOOLEAN,
                  commands : Seq(CommandType)]
  /\ pc \in {"parse_cli", "build", "ready", "parsed"}

\* All that belongs to a command stands before p.
Before(cmd, p) ==
  cmd.path < p /\ cmd.host < p /\ cmd.user < p /\ cmd.interfaces < p

\* Path, host and user in this order, and the list of interfaces behind them.
Ordered(cmd) ==
  /\ 0 < cmd.path
  /\ IF cmd.host = 0 THEN cmd.user = 0
     ELSE cmd.path < cmd.host /\ cmd.host < cmd.user
  /\ cmd.interfaces # 0 =>
       /\ cmd.path < cmd.interfaces
       /\ cmd.host < cmd.interfaces
       /\ cmd.user < cmd.interfaces

\* The commands stand one after the other, all of them before p.
InOrder(cmds, p) ==
  \A n \in 1..Len(cmds) :
    /\ Ordered(cmds[n])
    /\ Before(cmds[n], p)
    /\ n > 1 => Before(cmds[n - 1], cmds[n].path)

CommandsInv == InOrder(options.commands, i)

\* The place is the path, the host or the user of a command.
Owned(cmds, p) ==
  \E n \in 1..Len(cmds) : p \in {cmds[n].path, cmds[n].host, cmds[n].user}

\* The words before q have found their place.
Placed(cmds, q) ==
  \A p \in 1..Len(args) :
    p < q /\ args[p] = "word" =>
      Owned(cmds, p) \/ (p > 1 /\ args[p - 1] = "--interfaces")

WordsInv ==
  options.global = 0 =>
    /\ pc # "parse_cli" => i > Len(args)
    /\ Placed(options.commands, i)

CliIInv == CliTypeInv /\ CommandsInv /\ WordsInv

-----------------------------------------------------------------------------
(* What a turn does to the list of commands.                                *)

\* What stands before a place stands before all later ones.
LEMMA LaterBefore ==
  ASSUME NEW c \in CommandType, NEW p \in Nat, NEW q \in Nat,
         Before(c, p), p <= q
  PROVE  Before(c, q)
<1>1. /\ c.path \in Nat /\ c.host \in Nat
      /\ c.user \in Nat /\ c.interfaces \in Nat
  BY DEF CommandType
<1>2. /\ c.path < p /\ c.host < p /\ c.user < p /\ c.interfaces < p
  BY DEF Before
<1>3. /\ c.path < q /\ c.host < q /\ c.user < q /\ c.interfaces < q
  BY <1>1, <1>2
<1> QED BY <1>3 DEF Before

\* A command that begins where the loop stands can be added.
LEMMA AppendInOrder ==
  ASSUME NEW cmds \in Seq(CommandType), NEW c \in CommandType,
         NEW p \in Nat, NEW q \in Nat,
         InOrder(cmds, p), p <= c.path, Ordered(c), Before(c, q)
  PROVE  InOrder(Append(cmds, c), q)
<1> DEFINE new == Append(cmds, c)
<1>1. Len(new) = Len(cmds) + 1 /\ new[Len(cmds) + 1] = c
  OBVIOUS
<1>2. \A n \in 1..Len(cmds) : new[n] = cmds[n]
  OBVIOUS
<1>0. c.path \in Nat
  BY DEF CommandType
<1>3. p < q
  BY <1>0 DEF Before
<1>4. \A n \in 1..Len(cmds) : cmds[n] \in CommandType
  OBVIOUS
<1> HIDE DEF new
<1>5. ASSUME NEW n \in 1..Len(new)
      PROVE  /\ Ordered(new[n]) /\ Before(new[n], q)
             /\ n > 1 => Before(new[n - 1], new[n].path)
  <2>1. CASE n = Len(cmds) + 1
    <3>1. Ordered(new[n]) /\ Before(new[n], q)
      BY <1>1, <2>1
    <3>2. ASSUME n > 1 PROVE Before(new[n - 1], new[n].path)
      <4>1. n - 1 \in 1..Len(cmds)
        BY <2>1, <3>2
      <4>2. Before(cmds[n - 1], p) /\ cmds[n - 1] \in CommandType
        BY <1>4, <4>1 DEF InOrder
      <4>3. Before(cmds[n - 1], c.path)
        BY <1>0, <4>2, LaterBefore
      <4> QED BY <1>1, <1>2, <2>1, <4>1, <4>3
    <3> QED BY <3>1, <3>2
  <2>2. CASE n # Len(cmds) + 1
    <3>1. n \in 1..Len(cmds) /\ (n > 1 => n - 1 \in 1..Len(cmds))
      BY <1>1, <2>2
    <3>2. /\ Ordered(cmds[n]) /\ Before(cmds[n], p)
          /\ n > 1 => Before(cmds[n - 1], cmds[n].path)
      BY <3>1 DEF InOrder
    <3>3. Before(cmds[n], q)
      BY <1>3, <1>4, <3>1, <3>2, LaterBefore
    <3> QED BY <1>2, <3>1, <3>2, <3>3
  <2> QED BY <2>1, <2>2
<1> QED BY <1>5 DEF InOrder, new

\* The commands stay in order when the loop goes on.
LEMMA LaterInOrder ==
  ASSUME NEW cmds \in Seq(CommandType), NEW p \in Nat, NEW q \in Nat,
         InOrder(cmds, p), p <= q
  PROVE  InOrder(cmds, q)
<1>1. \A n \in 1..Len(cmds) : cmds[n] \in CommandType
  OBVIOUS
<1> QED BY <1>1, LaterBefore DEF InOrder

\* The last command can be given a list that stands behind all it has.
LEMMA InterfacesInOrder ==
  ASSUME NEW cmds \in Seq(CommandType), cmds # <<>>,
         NEW p \in Nat, NEW q \in Nat, NEW l \in Nat,
         InOrder(cmds, p), p <= l, l < q
  PROVE  /\ [cmds EXCEPT ![Len(cmds)].interfaces = l] \in Seq(CommandType)
         /\ InOrder([cmds EXCEPT ![Len(cmds)].interfaces = l], q)
<1> DEFINE last == Len(cmds)
           c == [cmds[last] EXCEPT !.interfaces = l]
           new == [cmds EXCEPT ![last].interfaces = l]
<1>1. last \in 1..Len(cmds) /\ cmds[last] \in CommandType
  OBVIOUS
<1>2. /\ c \in CommandType /\ c.interfaces = l /\ c.path = cmds[last].path
      /\ c.host = cmds[last].host /\ c.user = cmds[last].user
  BY <1>1 DEF CommandType
<1>3. new = [cmds EXCEPT ![last] = c]
  OBVIOUS
<1> HIDE DEF c, new
<1>4. new \in Seq(CommandType) /\ Len(new) = last
  BY <1>1, <1>2, <1>3
<1>5. new[last] = c /\ \A n \in 1..(last - 1) : new[n] = cmds[n]
  BY <1>1, <1>3
<1>6. /\ Ordered(cmds[last]) /\ Before(cmds[last], p)
      /\ last > 1 => Before(cmds[last - 1], cmds[last].path)
  BY <1>1 DEF InOrder
<1>7. Ordered(c) /\ Before(c, q)
  BY <1>1, <1>2, <1>6 DEF Ordered, Before, CommandType
<1>8. ASSUME NEW n \in 1..Len(new)
      PROVE  /\ Ordered(new[n]) /\ Before(new[n], q)
             /\ n > 1 => Before(new[n - 1], new[n].path)
  <2>1. CASE n = last
    <3>1. n > 1 => n - 1 \in 1..(last - 1)
      BY <2>1
    <3> QED BY <1>2, <1>5, <1>6, <1>7, <2>1, <3>1
  <2>2. CASE n # last
    <3>1. n \in 1..(last - 1) /\ (n > 1 => n - 1 \in 1..(last - 1))
      BY <1>4, <2>2
    <3>2. /\ Ordered(cmds[n]) /\ Before(cmds[n], p)
          /\ n > 1 => Before(cmds[n - 1], cmds[n].path)
          /\ cmds[n] \in CommandType
      BY <3>1 DEF InOrder
    <3>3. Before(cmds[n], q)
      BY <3>2, LaterBefore
    <3> QED BY <1>5, <3>1, <3>2, <3>3
  <2> QED BY <2>1, <2>2
<1> QED BY <1>4, <1>8 DEF InOrder, new

\* The words before p stay placed, and if the turn places those it uses, all
\* before q are.
LEMMA PlacedLater ==
  ASSUME NEW cmds, NEW new, NEW p \in Nat, NEW q \in Nat,
         Placed(cmds, p),
         \A x \in Nat : Owned(cmds, x) => Owned(new, x),
         \A x \in 1..Len(args) :
           p <= x /\ x < q /\ args[x] = "word" =>
             Owned(new, x) \/ (x > 1 /\ args[x - 1] = "--interfaces")
  PROVE  Placed(new, q)
<1> SUFFICES ASSUME NEW x \in 1..Len(args), x < q, args[x] = "word"
             PROVE  Owned(new, x) \/ (x > 1 /\ args[x - 1] = "--interfaces")
  BY DEF Placed
<1>1. CASE x < p
  BY <1>1 DEF Placed
<1>2. CASE p <= x
  BY <1>2
<1> QED BY <1>1, <1>2

\* A command that is added has its places, and the others keep theirs.
LEMMA OwnedAppend ==
  ASSUME NEW cmds \in Seq(CommandType), NEW c \in CommandType
  PROVE  /\ \A x \in Nat : Owned(cmds, x) => Owned(Append(cmds, c), x)
         /\ \A x \in {c.path, c.host, c.user} : Owned(Append(cmds, c), x)
<1> DEFINE new == Append(cmds, c)
<1>1. Len(new) = Len(cmds) + 1 /\ new[Len(cmds) + 1] = c
  OBVIOUS
<1>2. \A n \in 1..Len(cmds) : new[n] = cmds[n]
  OBVIOUS
<1>3. Len(cmds) \in Nat
  OBVIOUS
<1> HIDE DEF new
<1>4. ASSUME NEW x \in Nat, Owned(cmds, x) PROVE Owned(new, x)
  <2>1. PICK n \in 1..Len(cmds) :
               x \in {cmds[n].path, cmds[n].host, cmds[n].user}
    BY <1>4 DEF Owned
  <2>2. n \in 1..Len(new) /\ new[n] = cmds[n]
    BY <1>1, <1>2, <1>3
  <2> QED BY <2>1, <2>2 DEF Owned
<1>5. ASSUME NEW x \in {c.path, c.host, c.user} PROVE Owned(new, x)
  <2>1. Len(cmds) + 1 \in 1..Len(new)
    BY <1>1, <1>3
  <2> QED BY <1>1, <2>1 DEF Owned
<1> QED BY <1>4, <1>5 DEF new

\* A list of interfaces takes no place away but that of another list.
LEMMA OwnedInterfaces ==
  ASSUME NEW cmds \in Seq(CommandType), cmds # <<>>, NEW l \in Nat,
         NEW x \in Nat, Owned(cmds, x)
  PROVE  Owned([cmds EXCEPT ![Len(cmds)].interfaces = l], x)
<1> DEFINE new == [cmds EXCEPT ![Len(cmds)].interfaces = l]
<1>1. PICK n \in 1..Len(cmds) :
             x \in {cmds[n].path, cmds[n].host, cmds[n].user}
  BY DEF Owned
<1>2. Len(new) = Len(cmds) /\ cmds[n] \in CommandType
  OBVIOUS
<1>3. /\ new[n].path = cmds[n].path /\ new[n].host = cmds[n].host
      /\ new[n].user = cmds[n].user
  BY <1>2 DEF CommandType
<1> QED BY <1>1, <1>2, <1>3 DEF Owned

-----------------------------------------------------------------------------
(* The invariant.                                                           *)

LEMMA CliStart == CliInit => CliIInv
<1> SUFFICES ASSUME CliInit PROVE CliIInv
  OBVIOUS
<1>1. args \in Seq(Tokens)
  BY CommandLinesAssumption DEF CliInit
<1>2. options.commands = <<>> /\ i = 1 /\ pc = "parse_cli"
  BY DEF CliInit, NoOptions
<1>3. CliTypeInv
  BY <1>1 DEF CliTypeInv, CliInit, NoOptions
<1>4. CommandsInv
  BY <1>2 DEF CommandsInv, InOrder
<1>5. WordsInv
  BY <1>1, <1>2 DEF WordsInv, Placed
<1> QED BY <1>3, <1>4, <1>5 DEF CliIInv

\* A turn of the loop keeps the invariant if it adds to the commands in order
\* and places the words it uses.
LEMMA TurnKeeps ==
  ASSUME CliIInv, pc = "parse_cli", UNCHANGED args,
         NEW cmds \in Seq(CommandType), NEW used \in Nat \ {0},
         Turn(cmds, used), InOrder(cmds, i + used),
         options.global = 0 => Placed(cmds, i + used)
  PROVE  CliIInv'
<1>1. /\ options' = [options EXCEPT !.commands = cmds]
      /\ i' = i + used /\ pc' = pc
  BY DEF Turn
<1>2. options'.commands = cmds /\ options'.global = options.global
  BY <1>1 DEF CliIInv, CliTypeInv
<1>3. CliTypeInv'
  BY <1>1 DEF CliIInv, CliTypeInv
<1>4. CommandsInv'
  BY <1>1, <1>2 DEF CommandsInv
<1>5. WordsInv'
  BY <1>1, <1>2 DEF WordsInv, Placed
<1> QED BY <1>3, <1>4, <1>5 DEF CliIInv

\* A turn that adds a command made of what it uses.
LEMMA AddKeeps ==
  ASSUME CliIInv, pc = "parse_cli", UNCHANGED args,
         NEW c \in CommandType, NEW used \in Nat \ {0},
         Turn(Append(options.commands, c), used),
         i <= c.path, Ordered(c), Before(c, i + used),
         \A x \in 1..Len(args) :
           i <= x /\ x < i + used /\ args[x] = "word" =>
             x \in {c.path, c.host, c.user}
  PROVE  CliIInv'
<1> DEFINE new == Append(options.commands, c)
<1>1. options.commands \in Seq(CommandType) /\ i \in Nat /\ i + used \in Nat
  BY DEF CliIInv, CliTypeInv
<1>2. new \in Seq(CommandType)
  BY <1>1
<1>3. InOrder(new, i + used)
  BY <1>1, AppendInOrder DEF CliIInv, CommandsInv
<1>4. /\ \A x \in Nat : Owned(options.commands, x) => Owned(new, x)
      /\ \A x \in {c.path, c.host, c.user} : Owned(new, x)
  BY <1>1, OwnedAppend
<1>5. ASSUME options.global = 0 PROVE Placed(new, i + used)
  <2>1. Placed(options.commands, i)
    BY <1>5 DEF CliIInv, WordsInv
  <2> HIDE DEF new
  <2> QED BY <1>1, <1>4, <2>1, PlacedLater
<1> QED BY <1>2, <1>3, <1>5, TurnKeeps

\* A turn that leaves the commands as they are, or gives the last of them
\* another list, and uses no word but the value of --interfaces.
LEMMA PassKeeps ==
  ASSUME CliIInv, pc = "parse_cli", UNCHANGED args,
         NEW cmds \in Seq(CommandType), NEW used \in Nat \ {0},
         Turn(cmds, used), InOrder(cmds, i + used),
         \A x \in Nat : Owned(options.commands, x) => Owned(cmds, x),
         \A x \in 1..Len(args) :
           i <= x /\ x < i + used /\ args[x] = "word" =>
             x > 1 /\ args[x - 1] = "--interfaces"
  PROVE  CliIInv'
<1>1. i \in Nat /\ i + used \in Nat
  BY DEF CliIInv, CliTypeInv
<1>2. ASSUME options.global = 0 PROVE Placed(cmds, i + used)
  <2>1. Placed(options.commands, i)
    BY <1>2 DEF CliIInv, WordsInv
  <2> QED BY <1>1, <2>1, PlacedLater
<1> QED BY <1>2, TurnKeeps

\* Where a flag stands there is no word.
LEMMA FlagIsNoWord ==
  ASSUME NEW flag \in Flags, AtFlag(flag)
  PROVE  /\ args[i] # "word" /\ args[i] = flag
         /\ pc = "parse_cli" /\ i <= Len(args) /\ UNCHANGED args
BY DEF AtFlag, Flags

LEMMA CliStep == CliIInv /\ [CliNext]_cliVars => CliIInv'
<1> SUFFICES ASSUME CliIInv, [CliNext]_cliVars PROVE CliIInv'
  OBVIOUS
<1> USE DEF Flags
<1>0. /\ args \in Seq(Tokens) /\ Len(args) \in Nat /\ i \in Nat /\ i > 0
      /\ options.commands \in Seq(CommandType)
      /\ InOrder(options.commands, i)
  BY DEF CliIInv, CliTypeInv, CommandsInv
<1>1. CASE FlagWithoutValue
  <2>1. Turn(options.commands, 1)
    BY <1>1 DEF FlagWithoutValue
  <2>2. pc = "parse_cli" /\ UNCHANGED args /\ args[i] # "word"
    BY <1>1, FlagIsNoWord DEF FlagWithoutValue
  <2>3. InOrder(options.commands, i + 1)
    BY <1>0, LaterInOrder
  <2> QED BY <1>0, <2>1, <2>2, <2>3, PassKeeps
<1>2. CASE ConfigFlag
  <2>1. /\ options' = [options EXCEPT !.global = i + 1] /\ i' = i + 2
        /\ pc' = "build" /\ UNCHANGED args
    BY <1>2, FlagIsNoWord DEF ConfigFlag
  <2>2. i + 1 \in Nat /\ i + 1 # 0 /\ i + 2 \in Nat \ {0}
    BY <1>0
  <2>3. /\ options'.commands = options.commands /\ options'.global # 0
        /\ CliTypeInv'
    <3> DEFINE g == i + 1
    <3>1. g \in Nat /\ g # 0 /\ options' = [options EXCEPT !.global = g]
      BY <2>1, <2>2
    <3> HIDE DEF g
    <3>2. i' \in Nat \ {0}
      BY <2>1, <2>2
    <3> QED BY <2>1, <3>1, <3>2 DEF CliIInv, CliTypeInv
  <2>4. InOrder(options.commands, i + 2)
    BY <1>0, LaterInOrder
  <2> QED BY <2>1, <2>3, <2>4 DEF CliIInv, CommandsInv, WordsInv
<1>3. CASE PersistentFlag
  <2>1. /\ options' = [options EXCEPT !.persistent = TRUE] /\ i' = i + 1
        /\ pc' = pc /\ UNCHANGED args /\ pc = "parse_cli"
        /\ args[i] # "word"
    BY <1>3, FlagIsNoWord DEF PersistentFlag
  <2>2. i' \in Nat \ {0}
    BY <1>0, <2>1
  <2>3. /\ options'.commands = options.commands
        /\ options'.global = options.global
        /\ CliTypeInv'
    BY <2>1, <2>2 DEF CliIInv, CliTypeInv
  <2>4. InOrder(options.commands, i + 1)
    BY <1>0, LaterInOrder
  <2>5. WordsInv'
    BY <1>0, <2>1, <2>3 DEF CliIInv, WordsInv, Placed
  <2> QED BY <2>1, <2>3, <2>4, <2>5 DEF CliIInv, CommandsInv
<1>4. CASE LocalFlag \/ SettingsFlag
  <2>1. PICK type \in {"LOCAL", "SETTINGS"} :
          Turn(Append(options.commands, Command(type, i + 1, 0, 0)), 2)
    BY <1>4 DEF LocalFlag, SettingsFlag
  <2>2. pc = "parse_cli" /\ UNCHANGED args /\ args[i] # "word"
    BY <1>4, FlagIsNoWord DEF LocalFlag, SettingsFlag
  <2> DEFINE c == Command(type, i + 1, 0, 0)
  <2>3. /\ c \in CommandType /\ c.path = i + 1 /\ c.host = 0 /\ c.user = 0
        /\ c.interfaces = 0
    BY <1>0 DEF Command, CommandType
  <2> HIDE DEF c
  <2>4. Ordered(c) /\ Before(c, i + 2)
    BY <1>0, <2>3 DEF Ordered, Before
  <2> QED BY <1>0, <2>1, <2>2, <2>3, <2>4, AddKeeps DEF c
<1>5. CASE SshFlag
  <2>1. pc = "parse_cli" /\ UNCHANGED args /\ args[i] # "word"
    BY <1>5, FlagIsNoWord DEF SshFlag
  <2>2. CASE HostAndUserFollow
    <3> DEFINE c == Command("SSH", i + 1, i + 2, i + 3)
    <3>1. Turn(Append(options.commands, c), 4)
      BY <1>5, <2>2 DEF SshFlag
    <3>2. /\ c \in CommandType /\ c.path = i + 1 /\ c.host = i + 2
          /\ c.user = i + 3 /\ c.interfaces = 0
      BY <1>0 DEF Command, CommandType
    <3> HIDE DEF c
    <3>3. Ordered(c) /\ Before(c, i + 4)
      BY <1>0, <3>2 DEF Ordered, Before
    <3> QED BY <1>0, <2>1, <3>1, <3>2, <3>3, AddKeeps
  <2>3. CASE ~HostAndUserFollow
    <3> DEFINE c == Command("SSH", i + 1, 0, 0)
    <3>1. Turn(Append(options.commands, c), 2)
      BY <1>5, <2>3 DEF SshFlag
    <3>2. /\ c \in CommandType /\ c.path = i + 1 /\ c.host = 0
          /\ c.user = 0 /\ c.interfaces = 0
      BY <1>0 DEF Command, CommandType
    <3> HIDE DEF c
    <3>3. Ordered(c) /\ Before(c, i + 2)
      BY <1>0, <3>2 DEF Ordered, Before
    <3> QED BY <1>0, <2>1, <3>1, <3>2, <3>3, AddKeeps
  <2> QED BY <2>2, <2>3
<1>6. CASE InterfacesFlag
  <2>1. /\ pc = "parse_cli" /\ UNCHANGED args /\ args[i] # "word"
        /\ args[i] = "--interfaces" /\ i <= Len(args)
    BY <1>6, FlagIsNoWord DEF InterfacesFlag
  <2>2. ASSUME NEW x \in 1..Len(args), i <= x, x < i + 2, args[x] = "word"
        PROVE  x > 1 /\ args[x - 1] = "--interfaces"
    <3>1. x = i + 1
      BY <1>0, <2>1, <2>2
    <3> QED BY <1>0, <2>1, <3>1
  <2>3. CASE options.commands # <<>> /\ HasValue
    <3> DEFINE l == i + 1
               new == [options.commands EXCEPT
                         ![Len(options.commands)].interfaces = l]
    <3>1. Turn(new, 2)
      BY <1>6, <2>3 DEF InterfacesFlag
    <3>a. l \in Nat /\ i + 2 \in Nat /\ i <= l /\ l < i + 2
      BY <1>0
    <3> HIDE DEF l
    <3>2. new \in Seq(CommandType) /\ InOrder(new, i + 2)
      BY <1>0, <2>3, <3>a, InterfacesInOrder
    <3>3. \A x \in Nat : Owned(options.commands, x) => Owned(new, x)
      BY <1>0, <2>3, <3>a, OwnedInterfaces
    <3> HIDE DEF new
    <3> QED BY <1>0, <2>1, <2>2, <3>1, <3>2, <3>3, PassKeeps
  <2>4. CASE ~(options.commands # <<>> /\ HasValue)
    <3>1. PICK used \in {1, 2} : Turn(options.commands, used)
      BY <1>6, <2>4 DEF InterfacesFlag
    <3>2. InOrder(options.commands, i + used)
      BY <1>0, LaterInOrder
    <3>3. \A x \in 1..Len(args) :
            i <= x /\ x < i + used /\ args[x] = "word" =>
              x > 1 /\ args[x - 1] = "--interfaces"
      BY <1>0, <2>2
    <3> QED BY <1>0, <2>1, <3>1, <3>2, <3>3, PassKeeps
  <2> QED BY <2>3, <2>4
<1>7. CASE Positional
  <2> DEFINE c == Command("LOCAL", i, 0, 0)
  <2>1. /\ Turn(Append(options.commands, c), 1)
        /\ pc = "parse_cli" /\ UNCHANGED args
    BY <1>7 DEF Positional, AtFlag
  <2>2. /\ c \in CommandType /\ c.path = i /\ c.host = 0 /\ c.user = 0
        /\ c.interfaces = 0
    BY <1>0 DEF Command, CommandType
  <2> HIDE DEF c
  <2>3. Ordered(c) /\ Before(c, i + 1)
    BY <1>0, <2>2 DEF Ordered, Before
  <2> QED BY <1>0, <2>1, <2>2, <2>3, AddKeeps
<1>8. CASE UnknownFlag
  <2>1. /\ Turn(options.commands, 1) /\ args[i] # "word"
        /\ pc = "parse_cli" /\ UNCHANGED args
    BY <1>8, FlagIsNoWord DEF UnknownFlag
  <2>2. InOrder(options.commands, i + 1)
    BY <1>0, LaterInOrder
  <2> QED BY <1>0, <2>1, <2>2, PassKeeps
<1>9. CASE EndOfArguments
  <2>1. pc' = "build" /\ i > Len(args) /\ UNCHANGED <<args, i, options>>
    BY <1>9 DEF EndOfArguments
  <2> QED BY <2>1 DEF CliIInv, CliTypeInv, CommandsInv, WordsInv, Placed
<1>10. CASE BuildConfigFromOptions \/ ParseArguments
  <2>1. /\ pc = "build" /\ pc' \in {"ready", "parsed"}
        /\ UNCHANGED <<args, i, options>>
    BY <1>10 DEF BuildConfigFromOptions, ParseArguments
  <2> QED BY <2>1 DEF CliIInv, CliTypeInv, CommandsInv, WordsInv, Placed
<1>11. CASE UNCHANGED cliVars
  BY <1>11 DEF cliVars, CliIInv, CliTypeInv, CommandsInv, WordsInv, Placed
<1> QED BY <1>1, <1>2, <1>3, <1>4, <1>5, <1>6, <1>7, <1>8, <1>9, <1>10,
           <1>11 DEF CliNext

\* At every turn of parse_cli the commands read so far stand in order before the
\* place of the loop, and, unless one file makes all tasks, own every word there
\* but a list of interfaces.
THEOREM CliInvariant == CliSpec => []CliIInv
<1> QED BY CliStart, CliStep, PTL DEF CliSpec

-----------------------------------------------------------------------------
(* TokensOnce and NoWordLost.                                               *)

\* The first place of a command is its path, and its last place is that of its
\* list if it has one.
LEMMA FirstAndLastPlace ==
  ASSUME NEW cmd \in CommandType, Ordered(cmd)
  PROVE  /\ Min(Places(cmd)) = cmd.path
         /\ Max(Places(cmd)) \in Places(cmd)
         /\ cmd.interfaces # 0 => Max(Places(cmd)) = cmd.interfaces
<1> DEFINE P == Places(cmd)
<1>1. /\ cmd.path \in Nat /\ cmd.host \in Nat /\ cmd.user \in Nat
      /\ cmd.interfaces \in Nat
  BY DEF CommandType
<1>2. P \subseteq Nat /\ cmd.path \in P /\ \A y \in P : cmd.path <= y
  BY <1>1 DEF Ordered, Places
<1>3. PICK m \in P : /\ \A y \in P : m >= y
                     /\ cmd.interfaces # 0 => m = cmd.interfaces
  <2>1. CASE cmd.interfaces # 0
    <3>1. cmd.interfaces \in P /\ \A y \in P : cmd.interfaces >= y
      BY <1>1, <2>1 DEF Ordered, Places
    <3> QED BY <3>1
  <2>2. CASE cmd.interfaces = 0 /\ cmd.host # 0
    <3>1. cmd.user \in P /\ \A y \in P : cmd.user >= y
      BY <1>1, <2>2 DEF Ordered, Places
    <3> QED BY <2>2, <3>1
  <2>3. CASE cmd.interfaces = 0 /\ cmd.host = 0
    <3>1. cmd.path \in P /\ \A y \in P : cmd.path >= y
      BY <1>1, <2>3 DEF Ordered, Places
    <3> QED BY <2>3, <3>1
  <2> QED BY <2>1, <2>2, <2>3
<1> HIDE DEF P
<1>4. Max(P) \in P /\ \A y \in P : Max(P) >= y
  BY <1>3 DEF Max
<1>5. Min(P) \in P /\ \A y \in P : Min(P) <= y
  BY <1>2 DEF Min
<1>6. Max(P) = m
  <2>1. Max(P) \in Nat /\ m \in Nat
    BY <1>2, <1>3, <1>4
  <2>2. m >= Max(P) /\ Max(P) >= m
    BY <1>3, <1>4
  <2> QED BY <2>1, <2>2
<1>7. Min(P) = cmd.path
  <2>1. Min(P) \in Nat
    BY <1>2, <1>5
  <2>2. cmd.path <= Min(P) /\ Min(P) <= cmd.path
    BY <1>2, <1>5
  <2> QED BY <1>1, <2>1, <2>2
<1> QED BY <1>3, <1>4, <1>6, <1>7 DEF P

\* No argument is used twice, and commands come in the order of the command
\* line, for all command lines (parse_cli).
THEOREM ArgumentsUsedOnce == CliSpec => []TokensOnce
<1>1. CliIInv => TokensOnce
  <2> SUFFICES ASSUME CliIInv, NEW n \in DOMAIN options.commands
               PROVE  LET cmd == options.commands[n]
                      IN  /\ cmd.host # 0 =>
                               cmd.path < cmd.host /\ cmd.host < cmd.user
                          /\ cmd.interfaces # 0 =>
                               cmd.interfaces = Max(Places(cmd))
                          /\ n > 1 => Max(Places(options.commands[n - 1]))
                                        < Min(Places(cmd))
    BY DEF TokensOnce
  <2> DEFINE cmd == options.commands[n]
             prev == options.commands[n - 1]
  <2>1. /\ options.commands \in Seq(CommandType)
        /\ InOrder(options.commands, i)
    BY DEF CliIInv, CliTypeInv, CommandsInv
  <2>2. n \in 1..Len(options.commands) /\ cmd \in CommandType
    BY <2>1
  <2>3. Ordered(cmd)
    BY <2>1, <2>2 DEF InOrder
  <2>4. ASSUME n > 1 PROVE Max(Places(prev)) < Min(Places(cmd))
    <3>1. n - 1 \in 1..Len(options.commands)
      BY <2>2, <2>4
    <3>2. Ordered(prev) /\ prev \in CommandType /\ Before(prev, cmd.path)
      BY <2>1, <2>2, <2>4, <3>1 DEF InOrder
    <3> HIDE DEF cmd, prev
    <3>3. Max(Places(prev)) \in Places(prev)
      BY <3>2, FirstAndLastPlace
    <3>4. \A x \in Places(prev) : x < cmd.path
      BY <3>2 DEF Places, Before
    <3>5. Min(Places(cmd)) = cmd.path
      BY <2>2, <2>3, FirstAndLastPlace
    <3> QED BY <3>3, <3>4, <3>5
  <2>5. cmd.host # 0 => cmd.path < cmd.host /\ cmd.host < cmd.user
    BY <2>3 DEF Ordered
  <2>6. cmd.interfaces # 0 => cmd.interfaces = Max(Places(cmd))
    BY <2>2, <2>3, FirstAndLastPlace
  <2> QED BY <2>4, <2>5, <2>6
<1> QED BY <1>1, CliInvariant, PTL

\* No word of the command line is lost, for all command lines (parse_cli).
THEOREM WordsKept == CliSpec => []NoWordLost
<1>1. CliIInv => NoWordLost
  <2> SUFFICES ASSUME CliIInv, Finished, options.global = 0,
                      NEW p \in DOMAIN args, args[p] = "word"
               PROVE  p \in AllPlaces \/ (p > 1 /\ args[p - 1] = "--interfaces")
    BY DEF NoWordLost
  <2>1. /\ args \in Seq(Tokens) /\ i \in Nat
        /\ options.commands \in Seq(CommandType)
    BY DEF CliIInv, CliTypeInv
  <2>2. i > Len(args) /\ Placed(options.commands, i)
    BY DEF CliIInv, WordsInv, Finished
  <2>3. p \in 1..Len(args) /\ p < i
    BY <2>1, <2>2
  <2>4. CASE Owned(options.commands, p)
    <3>1. PICK n \in 1..Len(options.commands) :
                 p \in {options.commands[n].path, options.commands[n].host,
                        options.commands[n].user}
      BY <2>4 DEF Owned
    <3>2. p \in Places(options.commands[n])
      BY <2>3, <3>1 DEF Places
    <3>3. options.commands[n] \in ToSet(options.commands)
      BY <2>1 DEF ToSet
    <3> QED BY <3>2, <3>3 DEF AllPlaces
  <2> QED BY <2>2, <2>3, <2>4 DEF Placed
<1> QED BY <1>1, CliInvariant, PTL

-----------------------------------------------------------------------------
(* EveryCommandRuns.                                                        *)

\* The task of a command, whichever builder makes it.
RightTask(cmd, task) ==
  /\ cmd.type = "LOCAL" => task.provider = "local"
  /\ cmd.type = "SSH" =>
       task.provider = "ssh" /\ task.interfaces = cmd.interfaces
  /\ IF cmd.type = "SSH" /\ HasBoth(cmd)
     THEN task.host = cmd.host /\ task.user = cmd.user
     ELSE task.host = task.user /\ task.host \in {0, OfFile}

LEMMA SettingsHost ==
  ASSUME NEW found \in Loaded
  PROVE  SettingsContext(found).host = SettingsContext(found).user
         /\ SettingsContext(found).host \in {0, OfFile}
BY DEF Loaded, SettingsContext, Context

\* build_config_from_options makes the right task of a command.
LEMMA BuiltTask ==
  ASSUME NEW cmd \in CommandType, NEW found \in Loaded
  PROVE  RightTask(cmd, CreateContextFromCommand(cmd, found))
<1>1. CASE cmd.type = "LOCAL"
  BY <1>1 DEF RightTask, CreateContextFromCommand, Context
<1>2. CASE cmd.type = "SSH"
  BY <1>2 DEF RightTask, CreateContextFromCommand, Context, HasBoth
<1>3. CASE cmd.type = "SETTINGS"
  BY <1>3, SettingsHost DEF RightTask, CreateContextFromCommand
<1> QED BY <1>1, <1>2, <1>3 DEF CommandType

ContextType ==
  [provider : {"local", "ssh"},
   source : {"", "name", "Local", "Default SSH", "user@host"}, host : Nat,
   user : Nat, device_file : Nat, interfaces : Nat]

\* So does parse_arguments.
LEMMA ParsedTask ==
  ASSUME NEW cmd \in CommandType, NEW exists \in BOOLEAN,
         NEW found \in Loaded, NEW stray \in NoFile, Len(args) \in Nat
  PROVE  RightTask(cmd, MergeContext(cmd, KindContext(cmd,
                          BaseContext(cmd, exists, found, stray))))
<1> DEFINE base == BaseContext(cmd, exists, found, stray)
           kind == KindContext(cmd, base)
           task == MergeContext(cmd, kind)
<1>1. ASSUME NEW l \in Loaded PROVE SettingsContext(l) \in ContextType
  <2>1. OfFile \in Nat
    BY DEF OfFile
  <2>2. CASE l = "local"
    BY <2>2 DEF SettingsContext, Context, ContextType
  <2>3. CASE l = "ssh"
    BY <2>1, <2>3 DEF SettingsContext, Context, ContextType
  <2>4. CASE l = "none, local"
    BY <2>4 DEF SettingsContext, Context, ContextType
  <2>5. CASE l = "none, ssh"
    BY <2>5 DEF SettingsContext, Context, ContextType
  <2> QED BY <2>2, <2>3, <2>4, <2>5 DEF Loaded
<1>2. stray \in Loaded
  BY DEF NoFile, Loaded
<1>3. /\ base \in ContextType
      /\ base.host = base.user /\ base.host \in {0, OfFile}
  BY <1>1, <1>2, SettingsHost DEF BaseContext, CommandType, ContextType
<1> HIDE DEF base
<1>4. /\ kind \in ContextType /\ kind.host = base.host
      /\ kind.user = base.user
      /\ cmd.type = "LOCAL" => kind.provider = "local"
      /\ cmd.type = "SSH" => kind.provider = "ssh"
  <2>1. CASE cmd.type = "LOCAL"
    BY <1>3, <2>1 DEF KindContext, CommandType, ContextType
  <2>2. CASE cmd.type = "SSH"
    BY <1>3, <2>2 DEF KindContext, ContextType
  <2>3. CASE cmd.type = "SETTINGS"
    <3>1. kind = base
      BY <2>3 DEF KindContext
    <3> QED BY <1>3, <2>3, <3>1
  <2> QED BY <2>1, <2>2, <2>3 DEF CommandType
<1> HIDE DEF kind
<1>5. /\ task.provider = kind.provider /\ task.interfaces = cmd.interfaces
      /\ IF cmd.type = "SSH" /\ HasBoth(cmd)
         THEN task.host = cmd.host /\ task.user = cmd.user
         ELSE task.host = kind.host /\ task.user = kind.user
  BY <1>4 DEF MergeContext, HasBoth, CommandType, ContextType
<1> HIDE DEF task
<1>6. RightTask(cmd, task)
  BY <1>3, <1>4, <1>5 DEF RightTask
<1> QED BY <1>6 DEF task, kind, base

\* A task for every command at its place, as the builders make them.
RightTasks(contexts) ==
  /\ Len(contexts) = Len(options.commands)
  /\ \A n \in DOMAIN contexts : RightTask(options.commands[n], contexts[n])

RunsInv == Finished /\ options.global = 0 => RightTasks(config.tasks)

LEMMA OneTaskEach ==
  ASSUME options.commands \in Seq(CommandType), NEW f,
         f = [n \in DOMAIN options.commands |-> f[n]],
         \A n \in DOMAIN options.commands : RightTask(options.commands[n], f[n])
  PROVE  RightTasks(f)
<1>1. /\ DOMAIN f = 1..Len(options.commands)
      /\ Len(options.commands) \in Nat
  OBVIOUS
<1>2. Len(f) = Len(options.commands)
  BY <1>1
<1> QED BY <1>1, <1>2 DEF RightTasks

LEMMA RunsStep == CliIInv /\ RunsInv /\ [CliNext]_cliVars => RunsInv'
<1> SUFFICES ASSUME CliIInv, RunsInv, [CliNext]_cliVars PROVE RunsInv'
  OBVIOUS
<1>1. ASSUME NEW contexts, RightTasks(contexts), UNCHANGED <<args, options>>,
             config' = Tasks(contexts)
      PROVE  RunsInv'
  <2>1. config'.tasks = contexts
    BY <1>1 DEF Tasks, NoConfig
  <2>2. RightTasks(contexts)'
    BY <1>1 DEF RightTasks, RightTask, HasBoth, Empty, OfFile
  <2>3. RightTasks(config.tasks)'
    BY <2>1, <2>2 DEF RightTasks, RightTask
  <2> QED BY <2>3 DEF RunsInv
<1>2. /\ args \in Seq(Tokens) /\ Len(args) \in Nat
      /\ options.commands \in Seq(CommandType)
      /\ \A n \in DOMAIN options.commands :
           options.commands[n] \in CommandType
  BY DEF CliIInv, CliTypeInv
<1>3. CASE BuildConfigFromOptions
  <2>1. UNCHANGED <<args, options>>
    BY <1>3 DEF BuildConfigFromOptions
  <2>2. CASE options.global # 0
    BY <2>1, <2>2 DEF RunsInv
  <2>3. CASE options.global = 0
    <3>1. PICK found \in Loaded :
                 config' = Tasks([n \in DOMAIN options.commands |->
                   CreateContextFromCommand(options.commands[n], found)])
      BY <1>3, <2>3 DEF BuildConfigFromOptions
    <3> DEFINE f == [n \in DOMAIN options.commands |->
                       CreateContextFromCommand(options.commands[n], found)]
    <3>2. \A n \in DOMAIN options.commands :
            RightTask(options.commands[n], f[n])
      BY <1>2, BuiltTask
    <3>3. f = [n \in DOMAIN options.commands |-> f[n]]
      OBVIOUS
    <3> HIDE DEF f
    <3>4. RightTasks(f)
      BY <1>2, <3>2, <3>3, OneTaskEach
    <3> QED BY <1>1, <2>1, <3>1, <3>4 DEF f
  <2> QED BY <2>2, <2>3
<1>4. CASE ParseArguments
  <2>1. UNCHANGED <<args, options>>
    BY <1>4 DEF ParseArguments
  <2>2. CASE options.global # 0
    BY <2>1, <2>2 DEF RunsInv
  <2>3. CASE options.global = 0
    <3>1. PICK exists \in BOOLEAN, found \in Loaded, stray \in NoFile :
                 config' = Tasks([n \in DOMAIN options.commands |->
                   LET cmd == options.commands[n]
                   IN  MergeContext(cmd, KindContext(cmd,
                         BaseContext(cmd, exists, found, stray)))])
      BY <1>4, <2>3 DEF ParseArguments
    <3> DEFINE f == [n \in DOMAIN options.commands |->
                       LET cmd == options.commands[n]
                       IN  MergeContext(cmd, KindContext(cmd,
                             BaseContext(cmd, exists, found, stray)))]
    <3>2. \A n \in DOMAIN options.commands :
            RightTask(options.commands[n], f[n])
      BY <1>2, ParsedTask
    <3>3. f = [n \in DOMAIN options.commands |-> f[n]]
      OBVIOUS
    <3> HIDE DEF f
    <3>4. RightTasks(f)
      BY <1>2, <3>2, <3>3, OneTaskEach
    <3> QED BY <1>1, <2>1, <3>1, <3>4 DEF f
  <2> QED BY <2>2, <2>3
<1>5. CASE pc = "parse_cli" /\ pc' \in {"parse_cli", "build"}
  BY <1>5 DEF RunsInv, Finished
<1>6. CASE UNCHANGED cliVars
  BY <1>6 DEF cliVars, RunsInv, Finished, RightTasks, RightTask, HasBoth,
              Empty, OfFile
<1>7. CASE \/ FlagWithoutValue \/ ConfigFlag \/ PersistentFlag \/ LocalFlag
           \/ SettingsFlag \/ SshFlag \/ InterfacesFlag \/ Positional
           \/ UnknownFlag \/ EndOfArguments
  <2>1. pc = "parse_cli" /\ pc' \in {"parse_cli", "build"}
    BY <1>7 DEF FlagWithoutValue, ConfigFlag, PersistentFlag, LocalFlag,
                SettingsFlag, SshFlag, InterfacesFlag, Positional,
                UnknownFlag, EndOfArguments, AtFlag, Turn
  <2> QED BY <1>5, <2>1
<1> QED BY <1>3, <1>4, <1>6, <1>7 DEF CliNext

\* Every command becomes one task at its place, which reads the machine the
\* command names, for all command lines and whatever the settings files say
\* (build_config_from_options, parse_arguments).
THEOREM CommandsBecomeTasks == CliSpec => []EveryCommandRuns
<1>1. CliInit => RunsInv
  BY DEF CliInit, RunsInv, Finished
<1>2. RunsInv => EveryCommandRuns
  BY DEF RunsInv, EveryCommandRuns, RightTasks, RightTask
<1> QED BY <1>1, <1>2, RunsStep, CliInvariant, PTL DEF CliSpec

-----------------------------------------------------------------------------
(* LuaConfig: the invariant.                                                *)

\* What is loaded is what the file says, but for what was edited since.
LoadedInv ==
  \A s \in Sections : \A f \in Fields(s) :
    ~Explained(s, f) => loaded[s][f] = Deserialize[s][f]

LogLevelInv ==
  ~Explained("root", "log_level") /\ Reached("root") =>
    log_level = ConfiguredLevel(Deserialize.root.log_level)

RunModeInv ==
  ~Explained("root", "run_mode") =>
    context.run_mode = IF Reached("root") THEN ParseConfig(Deserialize).run_mode
                       ELSE NoContext.run_mode

TasksInv == context.tasks # <<>> => context.tasks = <<ParseSettings(loaded)>>

\* Right after a load the program holds what parse_config makes of the file.
ContextInv ==
  changed = {} =>
    context = IF Reached("root") THEN ParseConfig(loaded) ELSE NoContext

LuaIInv == LoadedInv /\ LogLevelInv /\ RunModeInv /\ TasksInv /\ ContextInv

-----------------------------------------------------------------------------
(* Sections, and what is read of each.                                      *)

SectionNames ==
  {"root", "settings", "features", "processes", "batteries", "battery",
   "storage", "filters", "ssh", "window", "scroll"}

LEMMA TheSections == Sections = SectionNames
BY DEF Sections, TableDefaults, SectionNames

\* The constructors differ from the tables in four sections.
LEMMA TheConstructors ==
  /\ StructDefaults["settings"] = [name |-> Blank]
  /\ StructDefaults["processes"] =
       [ProcessDefaults EXCEPT !.count = "1", !.only_user_processes = "false"]
  /\ StructDefaults["storage"] =
       [filesystems |-> "discovered", io_devices |-> "discovered"]
  /\ StructDefaults["batteries"] = [list |-> "discovered"]
  /\ \A s \in SectionNames \ {"settings", "processes", "storage", "batteries"} :
       StructDefaults[s] = TableDefaults[s]
BY DEF StructDefaults, TableDefaults, SectionNames

LEMMA BlankIsNotGiven == Blank # "file"
BY Zenon DEF Blank

\* No default could be taken for what a file says.
LEMMA TablesDiffer ==
  ASSUME NEW s \in Sections, NEW f \in Fields(s)
  PROVE  TableDefaults[s][f] # "file"
<1>1. CASE s = "root"
  <2>1. TableDefaults[s] = RootDefaults
    BY <1>1 DEF TableDefaults
  <2> QED BY <2>1, BlankIsNotGiven DEF Fields, RootDefaults
<1>2. CASE s = "settings"
  <2>1. TableDefaults[s] = [name |-> "unnamed_source"]
    BY <1>2 DEF TableDefaults
  <2> QED BY <2>1, BlankIsNotGiven DEF Fields
<1>3. CASE s = "features"
  <2>1. TableDefaults[s] = FeatureDefaults
    BY <1>3 DEF TableDefaults
  <2> QED BY <2>1, BlankIsNotGiven DEF Fields, FeatureDefaults
<1>4. CASE s = "processes"
  <2>1. TableDefaults[s] = ProcessDefaults
    BY <1>4 DEF TableDefaults
  <2> QED BY <2>1, BlankIsNotGiven DEF Fields, ProcessDefaults
<1>5. CASE s = "batteries"
  <2>1. TableDefaults[s] = [list |-> "empty"]
    BY <1>5 DEF TableDefaults
  <2> QED BY <2>1, BlankIsNotGiven DEF Fields
<1>6. CASE s = "battery"
  <2>1. TableDefaults[s] = BatteryDefaults
    BY <1>6 DEF TableDefaults
  <2> QED BY <2>1, BlankIsNotGiven DEF Fields, BatteryDefaults
<1>7. CASE s = "storage"
  <2>1. TableDefaults[s] = StorageDefaults
    BY <1>7 DEF TableDefaults
  <2> QED BY <2>1, BlankIsNotGiven DEF Fields, StorageDefaults
<1>8. CASE s = "filters"
  <2>1. TableDefaults[s] = FilterDefaults
    BY <1>8 DEF TableDefaults
  <2> QED BY <2>1, BlankIsNotGiven DEF Fields, FilterDefaults
<1>9. CASE s = "ssh"
  <2>1. TableDefaults[s] = SshDefaults
    BY <1>9 DEF TableDefaults
  <2> QED BY <2>1, BlankIsNotGiven DEF Fields, SshDefaults
<1>10. CASE s = "window"
  <2>1. TableDefaults[s] = WindowDefaults
    BY <1>10 DEF TableDefaults
  <2> QED BY <2>1, BlankIsNotGiven DEF Fields, WindowDefaults
<1>11. CASE s = "scroll"
  <2>1. TableDefaults[s] = ScrollDefaults
    BY <1>11 DEF TableDefaults
  <2> QED BY <2>1, BlankIsNotGiven DEF Fields, ScrollDefaults
<1> QED BY <1>1, <1>2, <1>3, <1>4, <1>5, <1>6, <1>7, <1>8, <1>9, <1>10,
           <1>11, TheSections DEF SectionNames

LEMMA ConstructorsDiffer ==
  ASSUME NEW s \in Sections, NEW f \in Fields(s)
  PROVE  StructDefaults[s][f] # "file"
<1>1. CASE s = "settings"
  <2>1. f = "name"
    BY <1>1 DEF Fields, TableDefaults
  <2> QED BY <1>1, <2>1, TheConstructors, BlankIsNotGiven
<1>2. CASE s = "processes"
  <2>1. TableDefaults[s] = ProcessDefaults
    BY <1>2 DEF TableDefaults
  <2>2. ProcessDefaults[f] # "file" /\ f \in DOMAIN ProcessDefaults
    BY <2>1, TablesDiffer DEF Fields
  <2>3. StructDefaults[s][f] \in {ProcessDefaults[f], "1", "false"}
    BY <1>2, <2>2, TheConstructors DEF ProcessDefaults
  <2> QED BY <2>2, <2>3
<1>3. CASE s = "storage"
  <2>1. f \in {"filesystems", "io_devices"}
    BY <1>3 DEF Fields, TableDefaults, StorageDefaults
  <2> QED BY <1>3, <2>1, TheConstructors
<1>4. CASE s = "batteries"
  <2>1. f = "list"
    BY <1>4 DEF Fields, TableDefaults
  <2> QED BY <1>4, <2>1, TheConstructors
<1>5. CASE s \notin {"settings", "processes", "storage", "batteries"}
  BY <1>5, TheSections, TheConstructors, TablesDiffer
<1> QED BY <1>1, <1>2, <1>3, <1>4, <1>5

\* A setting that is read is the file's exactly if the file has it.
LEMMA ReadIsGiven ==
  ASSUME NEW s \in Sections, NEW f \in Fields(s)
  PROVE  Read(s, f) = "file" <=>
           /\ <<s, f>> \in DOMAIN file.value
           /\ file.value[<<s, f>>] = "file"
<1>1. TableDefaults[s][f] # "file"
  BY TablesDiffer
<1> QED BY <1>1 DEF Read

\* A section whose table is not reached is what the constructors left.
LEMMA NotReached ==
  ASSUME NEW s \in Sections, ~Reached(s)
  PROVE  Deserialize[s] = StructDefaults[s]
BY DEF Deserialize

\* One equation for each section that is reached.
LoadedAsRead ==
  /\ \A s \in {"root", "settings", "processes", "storage", "ssh", "window"} :
       Reached(s) => Deserialize[s] = ReadAll(s)
  /\ Reached("features") => Deserialize["features"] = DeserializeFeatures
  /\ Reached("batteries") => Deserialize["batteries"] = DeserializeBatteries
  /\ Reached("battery") => Deserialize["battery"] = DeserializeBattery
  /\ Reached("filters") => Deserialize["filters"] = DeserializeFilters
  /\ Reached("scroll") => Deserialize["scroll"] = DeserializeScroll

LEMMA WhatIsLoaded == LoadedAsRead
<1>1. ASSUME NEW s \in {"root", "settings", "processes", "storage", "ssh",
                        "window"}, Reached(s)
      PROVE  Deserialize[s] = ReadAll(s)
  <2>1. s \in Sections
    BY TheSections DEF SectionNames
  <2> QED BY <1>1, <2>1 DEF Deserialize, DeserializeProcesses,
                            DeserializeStorage, DeserializeSSH,
                            DeserializeWindow
<1>2. \A s \in {"features", "batteries", "battery", "filters", "scroll"} :
        s \in Sections
  BY TheSections DEF SectionNames
<1> QED BY <1>1, <1>2 DEF Deserialize, LoadedAsRead

-----------------------------------------------------------------------------
(* GivenCounts.                                                             *)

\* Settings that deserialize does not read.
NeverRead ==
  {<<"features", "enable_stability_info">>,
   <<"features", "enable_battery_info">>}
    \cup {<<"filters", f>> : f \in Fields("filters")}

\* What the file says is what is loaded of it; a battery is if it has a path.
LEMMA GivenIsLoaded ==
  ASSUME NEW s \in Sections, NEW f \in Fields(s), s # "batteries"
  PROVE  Deserialize[s][f] = "file" <=>
           /\ Says(s, f) /\ <<s, f>> \notin NeverRead
           /\ s = "battery" => Says("battery", "path")
<1>1. CASE ~Reached(s)
  <2>1. Deserialize[s][f] = StructDefaults[s][f]
    BY <1>1, NotReached
  <2> QED BY <1>1, <2>1, ConstructorsDiffer DEF Says
<1>2. CASE Reached(s)
  <2>1. s \in SectionNames
    BY TheSections
  <2>2. CASE s \in {"root", "settings", "processes", "storage", "ssh",
                    "window"}
    <3>1. Deserialize[s][f] = Read(s, f)
      BY <1>2, <2>2, WhatIsLoaded DEF LoadedAsRead, ReadAll
    <3>2. <<s, f>> \notin NeverRead
      BY <2>2 DEF NeverRead
    <3> QED BY <1>2, <2>2, <3>1, <3>2, ReadIsGiven DEF Says
  <2>3. CASE s = "features"
    <3>1. Deserialize[s] = DeserializeFeatures
      BY <1>2, <2>3, WhatIsLoaded DEF LoadedAsRead
    <3>2. CASE f \in {"enable_stability_info", "enable_battery_info"}
      <4>1. Deserialize[s][f] = StructDefaults[s][f]
        BY <2>3, <3>1, <3>2 DEF DeserializeFeatures
      <4>2. <<s, f>> \in NeverRead
        BY <2>3, <3>2 DEF NeverRead
      <4> QED BY <4>1, <4>2, ConstructorsDiffer
    <3>3. CASE f \notin {"enable_stability_info", "enable_battery_info"}
      <4>1. Deserialize[s][f] = Read(s, f)
        BY <2>3, <3>1, <3>3 DEF DeserializeFeatures
      <4>2. <<s, f>> \notin NeverRead
        BY <2>3, <3>3 DEF NeverRead
      <4> QED BY <1>2, <2>3, <4>1, <4>2, ReadIsGiven DEF Says
    <3> QED BY <3>2, <3>3
  <2>4. CASE s = "battery"
    <3>1. /\ "path" \in Fields("battery") /\ "battery" \in Sections
          /\ Read("battery", "path") = "file" <=> Says("battery", "path")
      <4>1. "path" \in Fields("battery") /\ "battery" \in Sections
        BY TheSections DEF SectionNames, Fields, TableDefaults, BatteryDefaults
      <4> QED BY <1>2, <2>4, <4>1, ReadIsGiven DEF Says
    <3>2. <<s, f>> \notin NeverRead
      BY <2>4 DEF NeverRead
    <3>3. CASE Says("battery", "path")
      <4>1. Deserialize[s] =
              [ReadAll("battery") EXCEPT
                 !.status = IF @ = "unknown" THEN "Unknown" ELSE @]
        BY <1>2, <2>4, <3>1, <3>3, WhatIsLoaded
           DEF LoadedAsRead, DeserializeBattery
      <4>2. Deserialize[s][f] = "file" <=> Read(s, f) = "file"
        BY <2>4, <4>1 DEF ReadAll
      <4> QED BY <1>2, <3>2, <3>3, <4>2, ReadIsGiven DEF Says
    <3>4. CASE ~Says("battery", "path")
      <4>1. Deserialize[s][f] = StructDefaults[s][f]
        BY <1>2, <2>4, <3>1, <3>4, WhatIsLoaded
           DEF LoadedAsRead, DeserializeBattery
      <4> QED BY <2>4, <3>4, <4>1, ConstructorsDiffer
    <3> QED BY <3>3, <3>4
  <2>5. CASE s = "filters"
    <3>1. Deserialize[s][f] = StructDefaults[s][f]
      BY <1>2, <2>5, WhatIsLoaded DEF LoadedAsRead, DeserializeFilters
    <3>2. <<s, f>> \in NeverRead
      BY <2>5 DEF NeverRead
    <3> QED BY <3>1, <3>2, ConstructorsDiffer
  <2>6. CASE s = "scroll"
    <3>1. Deserialize[s] = DeserializeScroll
      BY <1>2, <2>6, WhatIsLoaded DEF LoadedAsRead
    <3>2. Deserialize[s][f] = "file" <=> Read(s, f) = "file"
      BY <2>6, <3>1 DEF DeserializeScroll
    <3>3. <<s, f>> \notin NeverRead
      BY <2>6 DEF NeverRead
    <3> QED BY <1>2, <2>6, <3>2, <3>3, ReadIsGiven DEF Says
  <2> QED BY <2>1, <2>2, <2>3, <2>4, <2>5, <2>6 DEF SectionNames
<1> QED BY <1>1, <1>2

-----------------------------------------------------------------------------
(* What an edit leaves alone.                                               *)

\* A setting is read as before.
SameRead(s, f) ==
  Reached(s)' = Reached(s) /\ Read(s, f)' = Read(s, f)

\* Every setting depends on its own key and on the tables around it, those of
\* batteries also on the path of the one in the list.
LEMMA OwnKeyOnly ==
  ASSUME NEW s \in Sections, NEW f \in Fields(s), SameRead(s, f),
         s \in {"battery", "batteries"} => SameRead("battery", "path")
  PROVE  Deserialize'[s][f] = Deserialize[s][f]
<1>1. CASE ~Reached(s)
  <2>1. ~Reached(s)'
    BY <1>1 DEF SameRead
  <2> QED BY <1>1, <2>1 DEF Deserialize
<1>2. CASE Reached(s)
  <2>1. Reached(s)' /\ Read(s, f)' = Read(s, f)
    BY <1>2 DEF SameRead
  <2>2. s \in SectionNames
    BY TheSections
  <2>3. LoadedAsRead /\ LoadedAsRead'
    BY WhatIsLoaded, PTL
  <2>4. CASE s \in {"root", "settings", "processes", "storage", "ssh",
                    "window"}
    <3>1. /\ Deserialize[s] = ReadAll(s)
          /\ Deserialize'[s] = ReadAll(s)'
      BY <1>2, <2>1, <2>3, <2>4 DEF LoadedAsRead
    <3> QED BY <2>1, <3>1 DEF ReadAll
  <2>5. CASE s = "features"
    <3>1. /\ Deserialize[s] = DeserializeFeatures
          /\ Deserialize'[s] = DeserializeFeatures'
      BY <1>2, <2>1, <2>3, <2>5 DEF LoadedAsRead
    <3> QED BY <2>1, <2>5, <3>1 DEF DeserializeFeatures
  <2>6. CASE s = "batteries"
    <3>1. /\ Deserialize[s] = DeserializeBatteries
          /\ Deserialize'[s] = DeserializeBatteries'
      BY <1>2, <2>1, <2>3, <2>6 DEF LoadedAsRead
    <3> QED BY <2>6, <3>1 DEF DeserializeBatteries, SameRead
  <2>7. CASE s = "battery"
    <3>1. /\ Deserialize[s] = DeserializeBattery
          /\ Deserialize'[s] = DeserializeBattery'
      BY <1>2, <2>1, <2>3, <2>7 DEF LoadedAsRead
    <3>2. ReadAll(s)[f] = Read(s, f) /\ ReadAll(s)'[f] = Read(s, f)'
      BY DEF ReadAll
    <3>3. CASE Read("battery", "path") = "file"
      <4>1. /\ Deserialize[s] = [ReadAll(s) EXCEPT
                 !.status = IF @ = "unknown" THEN "Unknown" ELSE @]
            /\ Deserialize'[s] = [ReadAll(s)' EXCEPT
                 !.status = IF @ = "unknown" THEN "Unknown" ELSE @]
        BY <2>7, <3>1, <3>3 DEF DeserializeBattery, SameRead
      <4>2. DOMAIN ReadAll(s) = Fields(s) /\ DOMAIN ReadAll(s)' = Fields(s)
        BY DEF ReadAll
      <4> QED BY <2>1, <3>2, <4>1, <4>2
    <3>4. CASE Read("battery", "path") # "file"
      BY <2>7, <3>1, <3>4 DEF DeserializeBattery, SameRead
    <3> QED BY <3>3, <3>4
  <2>8. CASE s = "filters"
    <3>1. /\ Deserialize[s] = DeserializeFilters
          /\ Deserialize'[s] = DeserializeFilters'
      BY <1>2, <2>1, <2>3, <2>8 DEF LoadedAsRead
    <3> QED BY <3>1 DEF DeserializeFilters
  <2>9. CASE s = "scroll"
    <3>1. /\ Deserialize[s] = DeserializeScroll
          /\ Deserialize'[s] = DeserializeScroll'
      BY <1>2, <2>1, <2>3, <2>9 DEF LoadedAsRead
    <3> QED BY <2>1, <2>9, <3>1 DEF DeserializeScroll
  <2> QED BY <2>2, <2>4, <2>5, <2>6, <2>7, <2>8, <2>9 DEF SectionNames
<1> QED BY <1>1, <1>2

\* The edits so far explain no less than before.
LEMMA ExplainedStays ==
  ASSUME NEW s, NEW f, changed \subseteq changed', Explained(s, f)
  PROVE  Explained(s, f)'
BY DEF Explained

LEMMA OuterReached ==
  /\ Outer("root") = {} /\ Outer("settings") = {"root"}
  /\ Outer("battery") = {"root", "settings", "batteries"}
  /\ Outer("batteries") = {"root", "settings"}
BY DEF Outer

\* A setting that no edit explains is read as before.
LEMMA EditKeeps ==
  ASSUME EditField \/ EditSection, NEW s \in Sections, NEW f \in Fields(s),
         ~Explained(s, f)'
  PROVE  /\ SameRead(s, f)
         /\ s \in {"battery", "batteries"} => SameRead("battery", "path")
<1>1. CASE EditField
  <2>. DEFINE Put(t, g, w) ==
                Edit(<<t, g>>, file.present,
                  [k \in IF w = "none" THEN DOMAIN file.value \ {<<t, g>>}
                         ELSE DOMAIN file.value \cup {<<t, g>>} |->
                     IF k = <<t, g>> THEN w ELSE file.value[k]])
  <2>p. PICK s0 \in file.present, f0 \in UNION {Fields(t) : t \in Sections} :
          \E v \in Given(s0, f0) \cup {"none"} : Put(s0, f0, v)
    BY <1>1 DEF EditField
  <2>1. PICK v \in Given(s0, f0) \cup {"none"} : Put(s0, f0, v)
    BY <2>p
  <2>2. file'.present = file.present /\ <<s0, f0>> \in changed'
    BY <2>1 DEF Edit
  <2>3. \A t : Reached(t)' = Reached(t)
    BY <2>2 DEF Reached
  <2>4. ASSUME NEW t, NEW g, <<t, g>> # <<s0, f0>>
        PROVE  Read(t, g)' = Read(t, g)
    <3> DEFINE key == <<t, g>>
               key0 == <<s0, f0>>
    <3>1. file'.value =
            [k \in IF v = "none" THEN DOMAIN file.value \ {key0}
                   ELSE DOMAIN file.value \cup {key0} |->
               IF k = key0 THEN v ELSE file.value[k]]
      BY <2>1 DEF Edit
    <3>2. key # key0
      BY <2>4
    <3> HIDE DEF key, key0
    <3>3. /\ key \in DOMAIN file'.value <=> key \in DOMAIN file.value
          /\ key \in DOMAIN file.value => file'.value[key] = file.value[key]
      BY <3>1, <3>2
    <3> QED BY <3>3 DEF Read, key
  <2>5. <<s, f>> # <<s0, f0>>
    BY <2>2 DEF Explained
  <2>6. s \in {"battery", "batteries"} => <<"battery", "path">> # <<s0, f0>>
    BY <2>2 DEF Explained
  <2> QED BY <2>3, <2>4, <2>5, <2>6 DEF SameRead
<1>2. CASE EditSection
  <2>1. PICK s0 \in Sections :
          IF s0 \in file.present
          THEN Edit(<<s0, "table">>, file.present \ {s0},
                 [k \in {j \in DOMAIN file.value : j[1] # s0} |->
                    file.value[k]])
          ELSE Edit(<<s0, "table">>, file.present \cup {s0}, file.value)
    BY <1>2 DEF EditSection
  <2>2. <<s0, "table">> \in changed'
    BY <2>1 DEF Edit
  <2>3. \A t : t # s0 => (t \in file'.present <=> t \in file.present)
    BY <2>1 DEF Edit
  <2>4. \A t : s0 \notin {t} \cup Outer(t) => Reached(t)' = Reached(t)
    BY <2>3 DEF Reached
  <2>5. ASSUME NEW t, NEW g, t # s0
        PROVE  Read(t, g)' = Read(t, g)
    <3> DEFINE key == <<t, g>>
    <3>1. key[1] # s0
      BY <2>5
    <3>2. \/ file'.value = file.value
          \/ file'.value = [k \in {j \in DOMAIN file.value : j[1] # s0} |->
                              file.value[k]]
      BY <2>1 DEF Edit
    <3> HIDE DEF key
    <3>3. /\ key \in DOMAIN file'.value <=> key \in DOMAIN file.value
          /\ key \in DOMAIN file.value => file'.value[key] = file.value[key]
      BY <3>1, <3>2
    <3> QED BY <3>3 DEF Read, key
  <2>6. s0 \notin {s} \cup Outer(s)
    BY <2>2 DEF Explained
  <2>7. ASSUME s \in {"battery", "batteries"} PROVE SameRead("battery", "path")
    <3>1. s0 # "battery"
      BY <2>2, <2>7 DEF Explained
    <3>2. s0 \notin {"battery"} \cup Outer("battery")
      BY <2>6, <2>7, <3>1, OuterReached
    <3> QED BY <2>4, <2>5, <3>1, <3>2 DEF SameRead
  <2> QED BY <2>4, <2>5, <2>6, <2>7 DEF SameRead
<1> QED BY <1>1, <1>2

\* An edit loads nothing and forgets no earlier edit.
LEMMA EditOnlyEdits ==
  ASSUME EditField \/ EditSection
  PROVE  /\ UNCHANGED <<loaded, context, log_level>>
         /\ changed \subseteq changed' /\ changed' # {}
BY DEF EditField, EditSection, Edit

-----------------------------------------------------------------------------
(* The invariant.                                                           *)

LEMMA RootFields ==
  /\ "root" \in Sections /\ "log_level" \in Fields("root")
  /\ "run_mode" \in Fields("root")
BY TheSections DEF SectionNames, Fields, TableDefaults, RootDefaults

\* What parse_config makes of a configuration.
LEMMA ParsedConfig ==
  ASSUME NEW c
  PROVE  /\ ParseConfig(c).run_mode =
              IF c.root.run_mode = "unknown" THEN NoContext.run_mode
              ELSE c.root.run_mode
         /\ ParseConfig(c).tasks # <<>> =>
              ParseConfig(c).tasks = <<ParseSettings(c)>>
BY DEF ParseConfig

LEMMA LuaStart == LuaInit => LuaIInv
<1> SUFFICES ASSUME LuaInit PROVE LuaIInv
  OBVIOUS
<1>1. loaded = Deserialize /\ changed = {}
  BY DEF LuaInit
<1>2. LoadedInv
  BY <1>1 DEF LoadedInv
<1>3. LogLevelInv /\ RunModeInv
  BY DEF LuaInit, LogLevelInv, RunModeInv
<1>4. TasksInv
  BY <1>1, ParsedConfig DEF LuaInit, TasksInv, NoContext
<1>5. ContextInv
  BY <1>1 DEF LuaInit, ContextInv
<1> QED BY <1>2, <1>3, <1>4, <1>5 DEF LuaIInv

\* What the file says depends on nothing else.
LEMMA SameFile ==
  ASSUME UNCHANGED file
  PROVE  /\ \A s \in Sections : Deserialize'[s] = Deserialize[s]
         /\ \A s : Reached(s)' = Reached(s)
<1>1. \A s : Reached(s)' = Reached(s)
  BY DEF Reached
<1>2. \A s, f : Read(s, f)' = Read(s, f)
  BY DEF Read
<1>3. \A s : ReadAll(s)' = ReadAll(s)
  BY <1>2 DEF ReadAll
<1>4. DeserializeFeatures' = DeserializeFeatures
  BY <1>2 DEF DeserializeFeatures
<1>5. DeserializeBatteries' = DeserializeBatteries
  BY <1>1, <1>2 DEF DeserializeBatteries
<1>6. DeserializeBattery' = DeserializeBattery
  BY <1>2, <1>3 DEF DeserializeBattery
<1>7. DeserializeFilters' = DeserializeFilters
  BY DEF DeserializeFilters
<1>8. DeserializeScroll' = DeserializeScroll
  BY <1>2 DEF DeserializeScroll
<1>9. ASSUME NEW s \in Sections PROVE Deserialize'[s] = Deserialize[s]
  <2>1. CASE ~Reached(s)
    BY <1>1, <2>1 DEF Deserialize
  <2>2. CASE Reached(s)
    <3>1. LoadedAsRead /\ LoadedAsRead'
      BY WhatIsLoaded, PTL
    <3>2. s \in SectionNames /\ Reached(s)'
      BY <1>1, <2>2, TheSections
    <3> QED BY <1>3, <1>4, <1>5, <1>6, <1>7, <1>8, <2>2, <3>1, <3>2
            DEF LoadedAsRead, SectionNames
  <2> QED BY <2>1, <2>2
<1> QED BY <1>1, <1>9

LEMMA LoadKeeps == LuaIInv /\ LoadLuaConfig => LuaIInv'
<1> SUFFICES ASSUME LuaIInv, LoadLuaConfig PROVE LuaIInv'
  OBVIOUS
<1>1. /\ loaded' = Deserialize /\ changed' = {} /\ file' = file
      /\ \A s : Reached(s)' = Reached(s)
      /\ \A s \in Sections : Deserialize'[s] = Deserialize[s]
  BY SameFile DEF LoadLuaConfig
<1>2. LoadedInv'
  BY <1>1 DEF LoadedInv
<1>3. LogLevelInv'
  BY <1>1, RootFields DEF LoadLuaConfig, LogLevelInv
<1>4. RunModeInv'
  <2>1. context'.run_mode = IF Reached("root")
                            THEN ParseConfig(Deserialize).run_mode
                            ELSE NoContext.run_mode
    BY DEF LoadLuaConfig
  <2>2. ParseConfig(Deserialize)'.run_mode = ParseConfig(Deserialize).run_mode
    BY <1>1, RootFields DEF ParseConfig
  <2> QED BY <1>1, <2>1, <2>2 DEF RunModeInv, NoContext
<1>5. TasksInv'
  <2>1. context'.tasks # <<>> => context'.tasks = <<ParseSettings(Deserialize)>>
    BY ParsedConfig DEF LoadLuaConfig, NoContext
  <2>2. ParseSettings(loaded)' = ParseSettings(loaded')
    BY DEF ParseSettings
  <2> QED BY <1>1, <2>1, <2>2 DEF TasksInv
<1>6. ContextInv'
  BY <1>1 DEF LoadLuaConfig, ContextInv, NoContext, ParseConfig, ParseSettings
<1> QED BY <1>2, <1>3, <1>4, <1>5, <1>6 DEF LuaIInv

LEMMA EditStep == LuaIInv /\ (EditField \/ EditSection) => LuaIInv'
<1> SUFFICES ASSUME LuaIInv, EditField \/ EditSection PROVE LuaIInv'
  OBVIOUS
<1>1. /\ UNCHANGED <<loaded, context, log_level>>
      /\ changed \subseteq changed' /\ changed' # {}
  BY EditOnlyEdits
<1>2. ASSUME NEW s \in Sections, NEW f \in Fields(s), ~Explained(s, f)'
      PROVE  /\ ~Explained(s, f) /\ Reached(s)' = Reached(s)
             /\ Deserialize'[s][f] = Deserialize[s][f]
  <2>1. ~Explained(s, f)
    BY <1>1, <1>2, ExplainedStays
  <2>2. /\ SameRead(s, f)
        /\ s \in {"battery", "batteries"} => SameRead("battery", "path")
    BY <1>2, EditKeeps
  <2> QED BY <2>1, <2>2, OwnKeyOnly DEF SameRead
<1>3. LoadedInv'
  BY <1>1, <1>2 DEF LuaIInv, LoadedInv
<1>4. LogLevelInv'
  BY <1>1, <1>2, RootFields DEF LuaIInv, LogLevelInv
<1>5. RunModeInv'
  <2> SUFFICES ASSUME ~Explained("root", "run_mode")'
               PROVE  context.run_mode =
                        IF Reached("root")'
                        THEN ParseConfig(Deserialize)'.run_mode
                        ELSE NoContext.run_mode
    BY <1>1 DEF RunModeInv, NoContext
  <2>1. /\ ~Explained("root", "run_mode")
        /\ Reached("root")' = Reached("root")
        /\ Deserialize'["root"]["run_mode"] = Deserialize["root"]["run_mode"]
    BY <1>2, RootFields
  <2>2. ParseConfig(Deserialize)'.run_mode = ParseConfig(Deserialize).run_mode
    BY <2>1 DEF ParseConfig
  <2> QED BY <2>1, <2>2 DEF LuaIInv, RunModeInv
<1>6. TasksInv'
  BY <1>1 DEF LuaIInv, TasksInv, ParseSettings
<1>7. ContextInv'
  BY <1>1 DEF ContextInv
<1> QED BY <1>3, <1>4, <1>5, <1>6, <1>7 DEF LuaIInv

LEMMA LuaStutter == LuaIInv /\ UNCHANGED luaVars => LuaIInv'
<1> SUFFICES ASSUME LuaIInv, UNCHANGED luaVars PROVE LuaIInv'
  OBVIOUS
<1>1. UNCHANGED <<file, loaded, context, log_level, changed>>
  BY DEF luaVars
<1>2. /\ \A s \in Sections : Deserialize'[s] = Deserialize[s]
      /\ \A s : Reached(s)' = Reached(s)
  BY <1>1, SameFile
<1>3. \A s, f : Explained(s, f)' <=> Explained(s, f)
  BY <1>1 DEF Explained
<1>4. LoadedInv' /\ LogLevelInv'
  BY <1>1, <1>2, <1>3, RootFields DEF LuaIInv, LoadedInv, LogLevelInv
<1>5. RunModeInv'
  <2>1. ParseConfig(Deserialize)'.run_mode = ParseConfig(Deserialize).run_mode
    BY <1>2, RootFields DEF ParseConfig
  <2> QED BY <1>1, <1>2, <1>3, <2>1 DEF LuaIInv, RunModeInv, NoContext
<1>6. TasksInv'
  BY <1>1 DEF LuaIInv, TasksInv, ParseSettings
<1>7. ContextInv'
  BY <1>1, <1>2 DEF LuaIInv, ContextInv, NoContext, ParseConfig, ParseSettings
<1> QED BY <1>4, <1>5, <1>6, <1>7 DEF LuaIInv

\* What the program holds is what deserialize and parse_settings make of the
\* file, but for what was edited since: settings, log level, run mode and task.
THEOREM LuaInvariant == LuaSpec => []LuaIInv
<1>1. LuaIInv /\ [LuaNext]_luaVars => LuaIInv'
  BY LoadKeeps, EditStep, LuaStutter DEF LuaNext
<1> QED BY <1>1, LuaStart, PTL DEF LuaSpec

\* A section that is read, in force: the cases of InForce.
LEMMA ForceOfRoot ==
  ASSUME Reached("root"), context = ParseConfig(loaded),
         log_level = ConfiguredLevel(loaded.root.log_level),
         NEW f \in Fields("root")
  PROVE  InForce("root", f) = "file" <=> loaded["root"][f] = "file"
<1>1. f \in {"run_mode", "output_format", "polling_interval_ms", "log_level"}
  BY DEF Fields, TableDefaults, RootDefaults
<1>2. CASE f = "run_mode"
  BY <1>2 DEF InForce, ParseConfig, NoContext
<1>3. CASE f = "output_format"
  BY <1>3 DEF InForce, ParseConfig, NoContext
<1>4. CASE f = "polling_interval_ms"
  BY <1>4 DEF InForce, ParseConfig
<1>5. CASE f = "log_level"
  BY <1>5 DEF InForce, ConfiguredLevel
<1> QED BY <1>1, <1>2, <1>3, <1>4, <1>5

LEMMA ForceOfTask ==
  ASSUME context.tasks = <<ParseSettings(loaded)>>,
         NEW s \in Sections, NEW f \in Fields(s), s \notin {"root", "storage"}
  PROVE  InForce(s, f) = "file" <=>
           /\ loaded[s][f] = "file"
           /\ s = "ssh" /\ f \in {"host", "user", "key_path"} =>
                loaded.ssh.enabled = "file"
<1> DEFINE task == ParseSettings(loaded)
<1>1. context.tasks[1] = task
  OBVIOUS
<1>2. CASE s = "settings"
  <2>1. f = "name" /\ task.source_name = loaded.settings.name
    BY <1>2 DEF Fields, TableDefaults, ParseSettings
  <2> QED BY <1>1, <1>2, <2>1 DEF InForce
<1>3. CASE s = "ssh"
  <2>1. f \in {"enabled", "host", "user", "key_path", "timeout_sec",
               "keepalive"}
    BY <1>3 DEF Fields, TableDefaults, SshDefaults
  <2>2. CASE f = "enabled"
    BY <1>1, <1>3, <2>2 DEF InForce, ParseSettings
  <2>3. CASE f \in {"host", "user", "key_path"}
    <3>1. InForce(s, f) = IF loaded.ssh.enabled = "file" THEN loaded.ssh[f]
                          ELSE Blank
      BY <1>1, <1>3, <2>3 DEF InForce, ParseSettings
    <3> QED BY <1>3, <2>3, <3>1, BlankIsNotGiven
  <2>4. CASE f \in {"timeout_sec", "keepalive"}
    <3>1. InForce(s, f) = task.settings[s][f]
      BY <1>1, <1>3, <2>4 DEF InForce
    <3>2. task.settings[s][f] = loaded[s][f]
      BY <1>3 DEF ParseSettings
    <3> QED BY <1>3, <2>4, <3>1, <3>2
  <2> QED BY <2>1, <2>2, <2>3, <2>4
<1>4. CASE s \notin {"settings", "ssh"}
  <2>1. InForce(s, f) = task.settings[s][f]
    BY <1>1, <1>4 DEF InForce
  <2>2. task.settings[s][f] = loaded[s][f]
    BY DEF ParseSettings
  <2> QED BY <1>4, <2>1, <2>2
<1> QED BY <1>2, <1>3, <1>4

\* What the file says, and nothing else, is in force after a load, where the
\* program looks for it, for all files and any number of edits; the lists of the
\* storage are not (deserialize, parse_settings, parse_config).
THEOREM FileIsInForce == LuaSpec => []GivenCounts
<1>1. ASSUME LuaIInv, changed = {}
      PROVE  /\ context.tasks # <<>> <=> Reached("settings")
             /\ \A s \in Sections : \A f \in Fields(s) :
                  /\ s # "batteries"
                  /\ s = "root" \/ context.tasks # <<>>
                  /\ f = "log_level" => Reached("root")
                  => (InForce(s, f) = "file" <=> HasEffect(s, f))
  <2>1. \A t, g : ~Explained(t, g)
    BY <1>1 DEF Explained
  <2>2. \A t \in Sections : \A g \in Fields(t) :
          loaded[t][g] = Deserialize[t][g]
    BY <1>1, <2>1 DEF LuaIInv, LoadedInv
  <2>3. context = IF Reached("root") THEN ParseConfig(loaded) ELSE NoContext
    BY <1>1 DEF LuaIInv, ContextInv
  <2>4. Reached("settings") => Reached("root")
    BY DEF Reached, Outer
  <2>5. context.tasks # <<>> <=> Reached("settings")
    BY <2>3, <2>4 DEF ParseConfig, NoContext
  <2>6. ASSUME NEW f \in Fields("root"), f = "log_level" => Reached("root")
        PROVE  InForce("root", f) = "file" <=> HasEffect("root", f)
    <3>1. HasEffect("root", f) <=> Says("root", f)
      BY DEF HasEffect, NoEffect
    <3>2. CASE Reached("root")
      <4>1. loaded.root.log_level = Deserialize.root.log_level
        BY <2>2, RootFields
      <4>2. log_level = ConfiguredLevel(loaded.root.log_level)
        BY <1>1, <2>1, <3>2, <4>1 DEF LuaIInv, LogLevelInv
      <4>3. loaded["root"][f] = "file" <=> Says("root", f)
        BY <2>2, RootFields, GivenIsLoaded DEF NeverRead
      <4> QED BY <2>3, <3>1, <3>2, <4>2, <4>3, ForceOfRoot
    <3>3. CASE ~Reached("root")
      <4>1. f \in {"run_mode", "output_format", "polling_interval_ms"}
        BY <2>6, <3>3 DEF Fields, TableDefaults, RootDefaults
      <4>2. InForce("root", f) # "file"
        BY <2>3, <3>3, <4>1 DEF InForce, NoContext
      <4> QED BY <3>1, <3>3, <4>2 DEF Says
    <3> QED BY <3>2, <3>3
  <2>7. ASSUME NEW s \in Sections, NEW f \in Fields(s),
               s \notin {"root", "batteries"}, context.tasks # <<>>
        PROVE  InForce(s, f) = "file" <=> HasEffect(s, f)
    <3>1. context.tasks = <<ParseSettings(loaded)>>
      BY <1>1, <2>7 DEF LuaIInv, TasksInv
    <3>2. CASE s = "storage"
      <4>1. f \in {"filesystems", "io_devices"}
        BY <3>2 DEF Fields, TableDefaults, StorageDefaults
      <4>2. InForce(s, f) = "empty"
        BY <3>1, <3>2, <4>1 DEF InForce, ParseSettings
      <4>3. <<s, f>> \in NoEffect
        BY <3>2, <4>1 DEF NoEffect
      <4> QED BY <4>2, <4>3 DEF HasEffect
    <3>3. CASE s # "storage"
      <4>1. InForce(s, f) = "file" <=>
              /\ loaded[s][f] = "file"
              /\ s = "ssh" /\ f \in {"host", "user", "key_path"} =>
                   loaded.ssh.enabled = "file"
        BY <2>7, <3>1, <3>3, ForceOfTask
      <4>2. loaded[s][f] = "file" <=>
              /\ Says(s, f) /\ <<s, f>> \notin NeverRead
              /\ s = "battery" => Says("battery", "path")
        BY <2>2, <2>7, GivenIsLoaded
      <4>3. /\ "ssh" \in Sections /\ "enabled" \in Fields("ssh")
            /\ <<"ssh", "enabled">> \notin NeverRead
        BY TheSections
           DEF SectionNames, Fields, TableDefaults, SshDefaults, NeverRead
      <4>4. loaded.ssh.enabled = "file" <=> Says("ssh", "enabled")
        BY <2>2, <4>3, GivenIsLoaded
      <4>5. <<s, f>> \in NoEffect <=> <<s, f>> \in NeverRead
        BY <3>3 DEF NoEffect, NeverRead
      <4> QED BY <4>1, <4>2, <4>4, <4>5 DEF HasEffect
    <3> QED BY <3>2, <3>3
  <2> QED BY <2>5, <2>6, <2>7
<1>2. LuaIInv => GivenCounts
  BY <1>1 DEF GivenCounts
<1> QED BY <1>2, LuaInvariant, PTL

\* Loading again changes only what was edited, for all files and any number of
\* edits between two loads (deserialize, parse_settings).
THEOREM EditsAreLocal == LuaSpec => OnlyWhatWasEdited
<1> DEFINE A ==
      /\ \A s \in Sections : \A f \in Fields(s) :
           loaded'[s][f] # loaded[s][f] => Explained(s, f)
      /\ log_level' # log_level => Explained("root", "log_level")
      /\ context'.run_mode # context.run_mode => Explained("root", "run_mode")
      /\ context'.tasks # <<>> /\ context.tasks # <<>> =>
           \A x \in {"provider", "host", "user", "key"} :
             context'.tasks[1][x] # context.tasks[1][x] =>
               \E f \in Fields("ssh") : Explained("ssh", f)
<1>1. ASSUME LuaIInv, LoadLuaConfig PROVE A
  <2>1. \A s \in Sections : \A f \in Fields(s) :
          loaded'[s][f] # loaded[s][f] => Explained(s, f)
    BY <1>1 DEF LuaIInv, LoadedInv, LoadLuaConfig
  <2>2. log_level' # log_level => Explained("root", "log_level")
    BY <1>1 DEF LuaIInv, LogLevelInv, LoadLuaConfig
  <2>3. context'.run_mode # context.run_mode => Explained("root", "run_mode")
    BY <1>1 DEF LuaIInv, RunModeInv, LoadLuaConfig
  <2>4. ASSUME context'.tasks # <<>>, context.tasks # <<>>,
               NEW x \in {"provider", "host", "user", "key"},
               context'.tasks[1][x] # context.tasks[1][x]
        PROVE  \E f \in Fields("ssh") : Explained("ssh", f)
    <3>1. context.tasks[1] = ParseSettings(loaded)
      BY <1>1, <2>4 DEF LuaIInv, TasksInv
    <3>2. context'.tasks[1] = ParseSettings(Deserialize)
      BY <1>1, <2>4, ParsedConfig DEF LoadLuaConfig, NoContext
    <3>3. "ssh" \in Sections /\
          {"enabled", "host", "user", "key_path"} \subseteq Fields("ssh")
      BY TheSections DEF SectionNames, Fields, TableDefaults, SshDefaults
    <3>4. PICK f \in {"enabled", "host", "user", "key_path"} :
                 loaded["ssh"][f] # Deserialize["ssh"][f]
      BY <2>4, <3>1, <3>2 DEF ParseSettings
    <3> QED BY <1>1, <3>3, <3>4 DEF LuaIInv, LoadedInv
  <2> QED BY <2>1, <2>2, <2>3, <2>4
<1>2. LuaIInv /\ [LuaNext]_luaVars => [A]_luaVars
  <2>1. ASSUME EditField \/ EditSection PROVE A
    BY <2>1, EditOnlyEdits
  <2> QED BY <1>1, <2>1 DEF LuaNext
<1> QED BY <1>2, LuaInvariant, PTL DEF LuaSpec, OnlyWhatWasEdited
=============================================================================
