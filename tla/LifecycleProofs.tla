-------------------------- MODULE LifecycleProofs --------------------------
(***************************************************************************)
(* For any directories, ports, addresses and number of starts: the agent   *)
(* listens where it was asked to, tells of itself only when it listens,    *)
(* calls back only whom it was asked to, as often as it was asked to, and  *)
(* finds the callback that is stored where it looks.  At the end, of the   *)
(* registration a start sends: read_ini() delivers what a file says, and   *)
(* the query that gen_query_url() makes gives back what went into it.      *)
(***************************************************************************)
EXTENDS Lifecycle, IniFile, QueryUrl, FiniteSetTheorems, SequenceTheorems, NaturalsInduction,
  WellFoundedInduction, TLAPS

\* The options that survive are ports, and the agent serves when it tells.
PortsFit == pc \notin {"options", "exit"} => \A k \in Kinds : ToInt16(args[k]) > 0
Telling == pc \in {"register", "callback", "send", "delete"} => Serving
PortsInv == TypeOK /\ PortsFit /\ ListensWhereAsked /\ Telling

\* No port, and every port that fits, is a value of bound.
LEMMA PortsThere == 0 \in 0 .. MaxPort /\ 1 .. MaxPort \subseteq 0 .. MaxPort
<1>1. MaxPort \in Nat
  BY DEF MaxPort
<1>2. 0 \in 0 .. MaxPort
  BY <1>1
<1>3. 1 .. MaxPort \subseteq 0 .. MaxPort
  BY <1>1
<1> QED
  BY <1>2, <1>3

\* What is positive as a PRInt16 fits one; and of a port number it is the port.
LEMMA PositiveFits ==
  ASSUME NEW v \in Int, ToInt16(v) > 0
  PROVE  ToInt16(v) \in 1 .. MaxPort /\ (v \in Ports => ToInt16(v) = v)
<1> DEFINE half == v % 65536
<1>1. ToInt16(v) = Signed(half)
  BY DEF ToInt16
<1>2. half \in 0 .. 65535
  OBVIOUS
<1>3. v \in Ports => half = v
  <2> SUFFICES ASSUME v \in Ports PROVE half = v
    OBVIOUS
  <2>1. v \in Nat /\ v < 65536
    BY DEF Ports
  <2>2. v % 65536 = v
    BY <2>1
  <2> QED
    BY <2>2
<1> HIDE DEF half
<1>4. Signed(half) = half /\ half \in 1 .. MaxPort
  <2>1. Signed(half) > 0
    BY <1>1
  <2> QED
    BY <1>2, <2>1 DEF Signed, MaxPort
<1> QED
  BY <1>1, <1>3, <1>4

\* The type invariant in parts.
Located ==
  /\ pc \in Steps /\ cwd \in Dirs /\ testRoot \in TestRoots
  /\ args \in [Kinds -> PortArgs] /\ bound \in [Kinds -> 0 .. MaxPort]
  /\ line \in Addresses \cup {Garbage, NoFile} /\ (pc \in {"send", "delete"} => line # NoFile)
  /\ rebtArg \in Addresses \cup {NoFile} /\ (pc = "write" => rebtArg # NoFile)
  /\ files \in [Dirs -> Contents]
Counted ==
  /\ boots \in Nat /\ requests \in [Addresses -> Nat]
  /\ pending \in SUBSET Addresses /\ strayed \in SUBSET Addresses
  /\ calls \in [Addresses \cup {Garbage} -> Nat] /\ queries \in Nat /\ repeats \in Nat

LEMMA TypeParts == TypeOK <=> Located /\ Counted /\ damaged \in BOOLEAN
BY Zenon DEF TypeOK, Located, Counted

LEMMA SameCallback ==
  ASSUME Counted, damaged \in BOOLEAN, UNCHANGED <<boots, callback>>
  PROVE  Counted' /\ damaged' \in BOOLEAN
<1>1. Counted'
  BY DEF Counted, callback
<1>2. damaged' \in BOOLEAN
  BY Zenon DEF callback
<1> QED
  BY <1>1, <1>2

LEMMA ResolvedIsDir ==
  ASSUME TypeOK
  PROVE  Resolve(testRoot) \in Dirs
BY LifecycleAssumption DEF TypeOK, Resolve

LEMMA PortsAtFirst == Init => PortsInv
<1> SUFFICES ASSUME Init PROVE PortsInv
  OBVIOUS
<1>1. TypeOK
  <2>1. pc \in Steps /\ cwd \in Dirs /\ testRoot \in TestRoots /\ pc = "options"
    BY LifecycleAssumption DEF Init, Steps
  <2>2. args \in [Kinds -> PortArgs] /\ bound \in [Kinds -> 0 .. MaxPort]
    BY PortsThere DEF Init, Nowhere
  <2>3. /\ line \in Addresses \cup {Garbage, NoFile}
        /\ rebtArg \in Addresses \cup {NoFile}
        /\ files \in [Dirs -> Contents]
    BY DEF Init, Contents
  <2>4. /\ boots \in Nat /\ requests \in [Addresses -> Nat]
        /\ pending \in SUBSET Addresses /\ strayed \in SUBSET Addresses
        /\ calls \in [Addresses \cup {Garbage} -> Nat] /\ queries \in Nat /\ repeats \in Nat
    BY DEF Init
  <2>5. damaged \in BOOLEAN
    BY DEF Init
  <2> QED
    BY <2>1, <2>2, <2>3, <2>4, <2>5 DEF TypeOK
<1>2. PortsFit /\ ListensWhereAsked /\ Telling
  BY DEF Init, PortsFit, ListensWhereAsked, Telling, Serving, Nowhere, Kinds
<1> QED
  BY <1>1, <1>2 DEF PortsInv

\* Every start is as the first.
LEMMA PortsAtStart ==
  ASSUME PortsInv, Starting
  PROVE  /\ pc' \in Steps /\ pc' = "options" /\ cwd' \in Dirs /\ testRoot' \in TestRoots
         /\ args' \in [Kinds -> PortArgs] /\ bound' \in [Kinds -> 0 .. MaxPort]
         /\ PortsFit' /\ ListensWhereAsked' /\ Telling'
<1>1. bound' = Nowhere /\ pc' = "options"
  BY DEF Starting
<1>2. PortsFit' /\ Telling'
  BY <1>1 DEF PortsFit, Telling
<1>3. ListensWhereAsked'
  BY <1>1 DEF ListensWhereAsked, Serving, Nowhere, Kinds
<1>4. pc' \in Steps /\ bound' \in [Kinds -> 0 .. MaxPort]
  BY <1>1, PortsThere DEF Steps, Nowhere
<1>5. cwd' \in Dirs /\ testRoot' \in TestRoots /\ args' \in [Kinds -> PortArgs]
  BY LifecycleAssumption, TypeParts DEF Starting, PortsInv, Located
<1> QED
  BY <1>1, <1>2, <1>3, <1>4, <1>5

\* What the options allow is a port that fits.
LEMMA ArgumentIsPort ==
  ASSUME TypeOK, NEW k \in Kinds, ToInt16(args[k]) > 0
  PROVE  ToInt16(args[k]) \in 1 .. MaxPort /\ (args[k] \in Ports => ToInt16(args[k]) = args[k])
<1>1. args[k] \in Int
  BY LifecycleAssumption DEF TypeOK
<1> QED
  BY <1>1, PositiveFits

\* A port is opened only if nobody has it.
LEMMA PortOpens ==
  ASSUME TypeOK, ListensWhereAsked, NEW k \in Kinds, NEW p \in 1 .. MaxPort,
         args[k] \in Ports => p = args[k],
         \A other \in Kinds : bound[other] # p,
         bound' = [bound EXCEPT ![k] = p], UNCHANGED args
  PROVE  /\ bound' \in [Kinds -> 0 .. MaxPort]
         /\ \A other \in Kinds : bound'[other] = IF other = k THEN p ELSE bound[other]
         /\ ListensWhereAsked'
<1>1. bound \in [Kinds -> 0 .. MaxPort]
  BY DEF TypeOK
<1>2. \A other \in Kinds : bound'[other] = IF other = k THEN p ELSE bound[other]
  BY <1>1
<1>3. bound' \in [Kinds -> 0 .. MaxPort]
  BY <1>1, PortsThere
<1>4. ListensWhereAsked'
  BY <1>2 DEF ListensWhereAsked, Serving, Kinds
<1> QED
  BY <1>2, <1>3, <1>4

\* Steps that leave the history alone keep it typed.
LEMMA TypeIfLocated ==
  ASSUME TypeOK, Located', UNCHANGED <<boots, callback>>
  PROVE  TypeOK'
<1>1. TypeOK' <=> Located' /\ Counted' /\ damaged' \in BOOLEAN
  BY Zenon DEF TypeOK, Located, Counted
<1>2. Counted /\ damaged \in BOOLEAN
  BY TypeParts
<1>3. Counted' /\ damaged' \in BOOLEAN
  BY <1>2, SameCallback
<1> QED
  BY <1>1, <1>3

\* The two ports are opened one after the other.
LEMMA PortsAtListen ==
  ASSUME PortsInv, Listen
  PROVE  PortsInv'
<1>0. /\ TypeOK /\ Located /\ ListensWhereAsked /\ pc = "listen"
      /\ UNCHANGED <<cwd, testRoot, args, line, rebtArg, files, boots, callback>>
  BY TypeParts DEF PortsInv, Listen
<1>1. ASSUME NEW k \in Kinds, k = IF bound["command"] = 0 THEN "command" ELSE "heartbeat",
             \A other \in Kinds : bound[other] # ToInt16(args[k]),
             bound' = [bound EXCEPT ![k] = ToInt16(args[k])],
             pc' = IF k = "command" THEN "listen" ELSE "register"
      PROVE  PortsInv'
  <2>1. PICK p \in 1 .. MaxPort : p = ToInt16(args[k]) /\ (args[k] \in Ports => p = args[k])
    BY <1>0, ArgumentIsPort DEF PortsInv, PortsFit
  <2>2. /\ bound' \in [Kinds -> 0 .. MaxPort]
        /\ \A other \in Kinds : bound'[other] = IF other = k THEN p ELSE bound[other]
        /\ ListensWhereAsked'
    BY <1>0, <1>1, <2>1, PortOpens
  <2>7. p # 0
    BY DEF MaxPort
  <2>3. Located'
    BY <1>0, <1>1, <2>2 DEF Located, Steps
  <2>4. TypeOK'
    BY <1>0, <2>3, TypeIfLocated
  <2>5. PortsFit'
    BY <1>0, <1>1 DEF PortsInv, PortsFit
  <2>6. Telling'
    BY <1>1, <2>2, <2>7 DEF Telling, Serving, Kinds
  <2> QED
    BY <2>2, <2>4, <2>5, <2>6 DEF PortsInv
<1>2. CASE bound' = Nowhere /\ pc' = "exit"
  <2>1. Located'
    BY <1>0, <1>2, PortsThere DEF Located, Nowhere, Steps
  <2>2. TypeOK'
    BY <1>0, <2>1, TypeIfLocated
  <2>3. PortsFit' /\ Telling'
    BY <1>2 DEF PortsFit, Telling
  <2>4. ListensWhereAsked'
    BY <1>2 DEF ListensWhereAsked, Serving, Nowhere, Kinds
  <2> QED
    BY <2>2, <2>3, <2>4 DEF PortsInv
<1> DEFINE k == IF bound["command"] = 0 THEN "command" ELSE "heartbeat"
<1>3. k \in Kinds
  BY DEF Kinds
<1>4. \/ bound' = Nowhere /\ pc' = "exit"
      \/ /\ \A other \in Kinds : bound[other] # ToInt16(args[k])
         /\ bound' = [bound EXCEPT ![k] = ToInt16(args[k])]
         /\ pc' = IF k = "command" THEN "listen" ELSE "register"
  BY DEF Listen
<1> HIDE DEF k
<1>5. k = IF bound["command"] = 0 THEN "command" ELSE "heartbeat"
  BY DEF k
<1> QED
  BY <1>1, <1>2, <1>3, <1>4, <1>5

\* Steps that leave the ports alone, and steps that close them.
LEMMA PortsStay ==
  ASSUME PortsInv, TypeOK', UNCHANGED network, pc \notin {"options", "exit"},
         pc' \in {"register", "callback", "send", "delete"}
           => pc \in {"register", "callback", "send", "delete"}
  PROVE  PortsInv'
<1>1. PortsFit'
  BY DEF PortsInv, PortsFit, network
<1>2. ListensWhereAsked' /\ Telling'
  BY DEF PortsInv, ListensWhereAsked, Telling, Serving, network
<1> QED
  BY <1>1, <1>2 DEF PortsInv

LEMMA PortsGo ==
  ASSUME PortsInv, TypeOK', UNCHANGED args, bound' = Nowhere, pc \notin {"options", "exit"},
         pc' \notin {"register", "callback", "send", "delete"}
  PROVE  PortsInv'
<1>1. PortsFit' /\ Telling'
  BY DEF PortsInv, PortsFit, Telling
<1>2. ListensWhereAsked'
  BY DEF ListensWhereAsked, Serving, Nowhere, Kinds
<1> QED
  BY <1>1, <1>2 DEF PortsInv

\* Each step from the options to the loop keeps the types and the ports.
LEMMA PortsAtStartup ==
  ASSUME PortsInv, Startup
  PROVE  PortsInv'
<1>0. TypeOK /\ Located /\ Counted /\ damaged \in BOOLEAN
  BY TypeParts DEF PortsInv
<1>1. CASE ParseOptions
  <2>1. Located'
    BY <1>0, <1>1 DEF ParseOptions, Located, network, Steps
  <2>2. TypeOK'
    BY <1>0, <1>1, <2>1, TypeIfLocated DEF ParseOptions
  <2>3. PortsFit' /\ Telling'
    BY <1>1 DEF ParseOptions, PortsFit, Telling, network
  <2>4. ListensWhereAsked'
    BY <1>1 DEF PortsInv, ParseOptions, ListensWhereAsked, Serving, network
  <2> QED
    BY <2>2, <2>3, <2>4 DEF PortsInv
<1>2. CASE SetTestRoot
  <2>1. Located'
    BY <1>0, <1>2 DEF SetTestRoot, Located, network, Steps
  <2>2. TypeOK'
    BY <1>0, <1>2, <2>1, TypeIfLocated DEF SetTestRoot
  <2> QED
    BY <1>2, <2>2, PortsStay DEF SetTestRoot
<1>3. CASE Listen
  BY <1>3, PortsAtListen
<1>4. CASE Register
  <2>1. Located'
    BY <1>0, <1>4 DEF Register, Located, network, Steps
  <2>2. Counted' /\ UNCHANGED damaged
    BY <1>0, <1>4 DEF Register, Counted
  <2>3. TypeOK'
    BY <1>0, <2>1, <2>2, Zenon DEF TypeOK, Located, Counted
  <2> QED
    BY <1>4, <2>3, PortsStay DEF Register
<1>5. CASE OpenCallback
  <2>1. files[cwd] \in Addresses \cup {Empty, NoFile} /\ Garbage # NoFile
    BY <1>0, LifecycleAssumption DEF Located, Contents
  <2>2. line' \in Addresses \cup {Garbage, NoFile} /\ (pc' \in {"send", "delete"} => line' # NoFile)
    BY <1>0, <1>5, <2>1 DEF OpenCallback, Located
  <2>3. Located'
    BY <1>0, <1>5, <2>2 DEF OpenCallback, Located, network, Steps
  <2>4. TypeOK'
    BY <1>0, <1>5, <2>3, TypeIfLocated DEF OpenCallback
  <2> QED
    BY <1>5, <2>4, PortsStay DEF OpenCallback
<1>6. CASE SendCallback
  <2>1. Located'
    BY <1>0, <1>6 DEF SendCallback, Located, network, Steps
  <2>2. line \in Addresses \cup {Garbage}
    BY <1>0, <1>6 DEF SendCallback, Located
  <2>3. Counted' /\ UNCHANGED damaged
    BY <1>0, <1>6, <2>2 DEF SendCallback, Counted
  <2>4. TypeOK'
    BY <1>0, <2>1, <2>3, Zenon DEF TypeOK, Located, Counted
  <2> QED
    BY <1>6, <2>4, PortsStay DEF SendCallback
<1>7. CASE DeleteCallback
  <2>1. Located'
    BY <1>0, <1>7 DEF DeleteCallback, Located, network, Steps, Contents
  <2>2. Counted' /\ UNCHANGED damaged
    BY <1>0, <1>7 DEF DeleteCallback, Counted
  <2>3. TypeOK'
    BY <1>0, <2>1, <2>2, Zenon DEF TypeOK, Located, Counted
  <2> QED
    BY <1>7, <2>3, PortsStay DEF DeleteCallback
<1> QED
  BY <1>1, <1>2, <1>3, <1>4, <1>5, <1>6, <1>7 DEF Startup

\* So does each step of rebt, and whatever ends the agent.
LEMMA PortsAtLoop ==
  ASSUME PortsInv, Cd \/ RebtPlain \/ RebtOpen \/ RebtWrite \/ StopReactor \/ Signal
  PROVE  PortsInv'
<1>0. TypeOK /\ Located /\ Counted /\ damaged \in BOOLEAN
  BY TypeParts DEF PortsInv
<1>1. CASE Cd
  <2>1. Located'
    BY <1>0, <1>1 DEF Cd, Located, network
  <2>2. TypeOK'
    BY <1>0, <1>1, <2>1, TypeIfLocated DEF Cd
  <2> QED
    BY <1>1, <2>2, PortsStay DEF Cd
<1>2. CASE RebtPlain
  <2>1. Located'
    BY <1>0, <1>2 DEF RebtPlain, Located, network, Steps
  <2>2. TypeOK'
    BY <1>0, <1>2, <2>1, TypeIfLocated DEF RebtPlain
  <2> QED
    BY <1>2, <2>2, PortsStay DEF RebtPlain
<1>3. CASE RebtOpen
  <2>1. rebtArg' # NoFile
    BY <1>3, LifecycleAssumption DEF RebtOpen
  <2>2. Located'
    BY <1>0, <1>3, <2>1 DEF RebtOpen, Located, network, Steps, Contents
  <2>3. Counted' /\ UNCHANGED damaged
    BY <1>0, <1>3 DEF RebtOpen, Counted
  <2>4. TypeOK'
    BY <1>0, <2>2, <2>3, Zenon DEF TypeOK, Located, Counted
  <2> QED
    BY <1>3, <2>4, PortsStay DEF RebtOpen
<1>4. CASE RebtWrite
  <2>1. rebtArg \in Addresses
    BY <1>0, <1>4 DEF RebtWrite, Located
  <2>2. files' \in [Dirs -> Contents]
    BY <1>0, <1>4, <2>1 DEF RebtWrite, Located, Contents
  <2>3. Located'
    BY <1>0, <1>4, <2>1, <2>2 DEF RebtWrite, Located, network, Steps
  <2>4. Counted'
    BY <1>0, <1>4, <2>1 DEF RebtWrite, Counted
  <2>5. damaged' \in BOOLEAN
    BY <1>0, <1>4, Zenon DEF RebtWrite
  <2>6. TypeOK'
    BY <2>3, <2>4, <2>5, Zenon DEF TypeOK, Located, Counted
  <2> QED
    BY <1>4, <2>6, PortsStay DEF RebtWrite
<1>5. CASE StopReactor
  <2>1. Located'
    BY <1>0, <1>5, PortsThere DEF StopReactor, Located, Nowhere, Steps
  <2>2. TypeOK'
    BY <1>0, <1>5, <2>1, TypeIfLocated DEF StopReactor
  <2> QED
    BY <1>5, <2>2, PortsGo DEF StopReactor
<1>6. CASE Signal
  <2>1. Located'
    BY <1>0, <1>6, PortsThere DEF Signal, Located, Nowhere, Steps
  <2>2. TypeOK'
    BY <1>0, <1>6, <2>1, TypeIfLocated DEF Signal
  <2> QED
    BY <1>6, <2>2, PortsGo DEF Signal
<1> QED
  BY <1>1, <1>2, <1>3, <1>4, <1>5, <1>6

\* A start, asked for or not, begins with no ports.
LEMMA PortsAtRestart ==
  ASSUME PortsInv, Reboot \/ Crash
  PROVE  PortsInv'
<1>0. TypeOK /\ Located /\ Counted /\ damaged \in BOOLEAN
  BY TypeParts DEF PortsInv
<1>1. CASE Reboot /\ boots' = boots + 1 /\ Starting
  <2>1. Located'
    BY <1>0, <1>1, PortsAtStart DEF Reboot, Located
  <2>2. Counted' /\ UNCHANGED damaged
    BY <1>0, <1>1 DEF Reboot, Counted, callback
  <2>3. TypeOK'
    BY <1>0, <2>1, <2>2, Zenon DEF TypeOK, Located, Counted
  <2> QED
    BY <1>1, <2>3, PortsAtStart DEF PortsInv
<1>2. CASE Reboot /\ pc' = "deaf" /\ UNCHANGED <<cwd, testRoot, network, boots>>
  <2>1. Located'
    BY <1>0, <1>2 DEF Reboot, Located, network, Steps
  <2>2. TypeOK'
    BY <1>0, <1>2, <2>1, TypeIfLocated DEF Reboot
  <2> QED
    BY <1>2, <2>2, PortsStay DEF Reboot
<1>3. CASE Crash
  <2>1. Located'
    BY <1>0, <1>3, PortsAtStart DEF Crash, Located
  <2>2. Counted'
    BY <1>0, <1>3 DEF Crash, Counted
  <2>3. damaged' \in BOOLEAN
    BY <1>0, <1>3, Zenon DEF Crash
  <2>4. TypeOK'
    BY <2>1, <2>2, <2>3, Zenon DEF TypeOK, Located, Counted
  <2> QED
    BY <1>3, <2>4, PortsAtStart DEF Crash, PortsInv
<1> QED
  BY <1>1, <1>2, <1>3 DEF Reboot

LEMMA PortsKept == PortsInv /\ [Next]_vars => PortsInv'
<1> SUFFICES ASSUME PortsInv, [Next]_vars PROVE PortsInv'
  OBVIOUS
<1>1. CASE Startup
  BY <1>1, PortsAtStartup
<1>2. CASE Cd \/ RebtPlain \/ RebtOpen \/ RebtWrite \/ StopReactor \/ Signal
  BY <1>2, PortsAtLoop
<1>3. CASE Reboot \/ Crash
  BY <1>3, PortsAtRestart
<1>4. CASE UNCHANGED vars
  <2>1. Located'
    BY <1>4, TypeParts DEF vars, network, PortsInv, Located
  <2>2. TypeOK'
    BY <1>4, <2>1, TypeIfLocated DEF vars, PortsInv
  <2>3. PortsFit' /\ Telling' /\ ListensWhereAsked'
    BY <1>4 DEF vars, network, PortsInv, PortsFit, Telling, ListensWhereAsked, Serving
  <2> QED
    BY <2>2, <2>3 DEF PortsInv
<1> QED
  BY <1>1, <1>2, <1>3, <1>4 DEF Next

-----------------------------------------------------------------------------
(***************************************************************************)
(* Callbacks.  The files in which an address is stored and not yet tried   *)
(* are as many as the calls that were asked for and not made, or fewer.    *)
(***************************************************************************)
Owed(a) == {d \in Dirs : files[d] = a /\ ~(pc = "delete" /\ d = cwd)}
Asking(a) == IF pc = "write" /\ rebtArg = a THEN 1 ELSE 0
Owes == \A a \in Addresses : calls[a] + Cardinality(Owed(a)) + Asking(a) <= requests[a] + repeats

\* What is about to be called is what the file holds.
LineRead == pc = "send" => line = IF files[cwd] = Empty THEN Garbage ELSE files[cwd]

\* An empty file is one that rebt is about to fill, or something went wrong.
Empties == ~damaged => \A d \in Dirs : files[d] = Empty => pc = "write" /\ d = Resolve(testRoot)
GarbageCalled == calls[Garbage] > 0 => damaged

CallsInv == PortsInv /\ Owes /\ LineRead /\ Empties /\ GarbageCalled

LEMMA OwedIsFinite ==
  ASSUME NEW a
  PROVE  Owed(a) \in SUBSET Dirs /\ IsFiniteSet(Owed(a)) /\ Cardinality(Owed(a)) \in Nat
<1>1. Owed(a) \in SUBSET Dirs
  BY DEF Owed
<1>2. IsFiniteSet(Owed(a))
  BY <1>1, LifecycleAssumption, FS_Subset
<1> QED
  BY <1>1, <1>2, FS_CardinalityType

\* Fewer files owe no more, and one more file owes at most one more.
LEMMA OwedShrinks ==
  ASSUME NEW S, NEW T, IsFiniteSet(T), S \subseteq T
  PROVE  Cardinality(S) \in Nat /\ Cardinality(T) \in Nat /\ Cardinality(S) <= Cardinality(T)
BY FS_Subset, FS_CardinalityType

LEMMA OwedGrows ==
  ASSUME NEW S, NEW T, NEW d, IsFiniteSet(T), S \subseteq T \cup {d}
  PROVE  Cardinality(S) \in Nat /\ Cardinality(T) \in Nat /\ Cardinality(S) <= Cardinality(T) + 1
<1>1. IsFiniteSet(T \cup {d}) /\ Cardinality(T) \in Nat
      /\ Cardinality(T \cup {d}) = IF d \in T THEN Cardinality(T) ELSE Cardinality(T) + 1
  BY FS_AddElement, FS_CardinalityType
<1>2. Cardinality(S) \in Nat /\ Cardinality(S) <= Cardinality(T \cup {d})
  BY <1>1, OwedShrinks
<1>3. Cardinality(T \cup {d}) <= Cardinality(T) + 1
  BY <1>1
<1> QED
  BY <1>1, <1>2, <1>3, FS_CardinalityType

LEMMA OwedWithout ==
  ASSUME NEW S, NEW T, NEW d, IsFiniteSet(T), d \in T, S \subseteq T \ {d}
  PROVE  Cardinality(S) \in Nat /\ Cardinality(T) \in Nat /\ Cardinality(S) + 1 <= Cardinality(T)
<1>1. IsFiniteSet(T \ {d}) /\ Cardinality(T \ {d}) = Cardinality(T) - 1 /\ Cardinality(T) \in Nat
  BY FS_RemoveElement, FS_CardinalityType
<1>2. Cardinality(S) \in Nat /\ Cardinality(S) <= Cardinality(T \ {d})
  BY <1>1, OwedShrinks
<1> QED
  BY <1>1, <1>2

\* Numbers of the books.
LEMMA OweNumbers ==
  ASSUME TypeOK, NEW a \in Addresses
  PROVE  /\ calls[a] \in Nat /\ requests[a] \in Nat /\ repeats \in Nat
         /\ Cardinality(Owed(a)) \in Nat /\ IsFiniteSet(Owed(a)) /\ Asking(a) \in {0, 1}
BY OwedIsFinite DEF TypeOK, Asking

\* Steps that make no call and store nothing: an address is owed no more than
\* before, or by one more and that is excused.
LEMMA OwesStays ==
  ASSUME TypeOK, Owes, NEW a \in Addresses, calls'[a] = calls[a], requests'[a] = requests[a],
         \/ repeats' = repeats /\ Owed(a)' \subseteq Owed(a)
         \/ repeats' = repeats + 1 /\ Owed(a)' \subseteq Owed(a) \cup {cwd},
         Asking(a)' \in {0, 1}, Asking(a)' <= Asking(a)
  PROVE  calls'[a] + Cardinality(Owed(a)') + Asking(a)' <= requests'[a] + repeats'
<1>1. /\ calls[a] \in Nat /\ requests[a] \in Nat /\ repeats \in Nat
      /\ Cardinality(Owed(a)) \in Nat /\ IsFiniteSet(Owed(a)) /\ Asking(a) \in {0, 1}
  BY OweNumbers
<1>2. calls[a] + Cardinality(Owed(a)) + Asking(a) <= requests[a] + repeats
  BY DEF Owes
<1>3. CASE repeats' = repeats /\ Owed(a)' \subseteq Owed(a)
  <2>1. Cardinality(Owed(a)') \in Nat /\ Cardinality(Owed(a)') <= Cardinality(Owed(a))
    BY <1>1, <1>3, OwedShrinks
  <2> QED
    BY <1>1, <1>2, <1>3, <2>1
<1>4. CASE repeats' = repeats + 1 /\ Owed(a)' \subseteq Owed(a) \cup {cwd}
  <2>1. Cardinality(Owed(a)') \in Nat /\ Cardinality(Owed(a)') <= Cardinality(Owed(a)) + 1
    BY <1>1, <1>4, OwedGrows
  <2> QED
    BY <1>1, <1>2, <1>4, <2>1
<1> QED
  BY <1>3, <1>4

LEMMA CallsAtFirst == Init => CallsInv
<1> SUFFICES ASSUME Init PROVE CallsInv
  OBVIOUS
<1>1. PortsInv
  BY PortsAtFirst
<1>2. ASSUME NEW a \in Addresses
      PROVE  calls[a] + Cardinality(Owed(a)) + Asking(a) <= requests[a] + repeats
  <2>1. Owed(a) = {}
    BY LifecycleAssumption DEF Init, Owed
  <2>2. Cardinality(Owed(a)) = 0
    BY <2>1, FS_EmptySet
  <2>3. calls[a] = 0 /\ requests[a] = 0 /\ repeats = 0 /\ Asking(a) = 0
    BY DEF Init, Asking
  <2> QED
    BY <2>2, <2>3
<1>3. LineRead /\ Empties /\ GarbageCalled
  BY LifecycleAssumption DEF Init, LineRead, Empties, GarbageCalled
<1> QED
  BY <1>1, <1>2, <1>3 DEF CallsInv, Owes

\* Steps that have nothing to do with callbacks.
LEMMA QuietCalls ==
  ASSUME CallsInv, PortsInv', UNCHANGED <<files, requests, calls, repeats, damaged>>,
         pc \notin {"send", "delete", "write"}, pc' \notin {"send", "delete", "write"}
  PROVE  CallsInv'
<1>1. ASSUME NEW a \in Addresses
      PROVE  calls'[a] + Cardinality(Owed(a)') + Asking(a)' <= requests'[a] + repeats'
  <2>1. Owed(a)' = Owed(a) /\ Asking(a)' = Asking(a)
    BY DEF Owed, Asking
  <2> QED
    BY <2>1 DEF CallsInv, Owes
<1>2. LineRead' /\ GarbageCalled'
  BY DEF CallsInv, LineRead, GarbageCalled
<1>3. Empties'
  BY DEF CallsInv, Empties
<1> QED
  BY <1>1, <1>2, <1>3 DEF CallsInv, Owes

\* handle_reboot() calls what it has read and then removes the file.
LEMMA CallsAtStartup ==
  ASSUME CallsInv, PortsInv', OpenCallback \/ SendCallback \/ DeleteCallback
  PROVE  CallsInv'
<1>0. TypeOK /\ Located /\ Counted /\ Owes
  BY TypeParts DEF CallsInv, PortsInv
<1>1. CASE OpenCallback
  <2>1. ASSUME NEW a \in Addresses
        PROVE  calls'[a] + Cardinality(Owed(a)') + Asking(a)' <= requests'[a] + repeats'
    <3>1. Owed(a)' = Owed(a) /\ Asking(a)' = Asking(a)
      BY <1>1 DEF OpenCallback, Owed, Asking
    <3> QED
      BY <1>0, <1>1, <3>1 DEF OpenCallback, callback, Owes
  <2>2. LineRead'
    BY <1>1 DEF OpenCallback, LineRead
  <2>3. Empties' /\ GarbageCalled'
    BY <1>1 DEF OpenCallback, callback, CallsInv, Empties, GarbageCalled
  <2> QED
    BY <2>1, <2>2, <2>3 DEF CallsInv, Owes
<1>2. CASE SendCallback
  <2>0. files[cwd] \in Contents /\ cwd \in Dirs
    BY <1>0 DEF Located
  <2>1. line = IF files[cwd] = Empty THEN Garbage ELSE files[cwd]
    BY <1>2 DEF SendCallback, CallsInv, LineRead
  <2>2. ASSUME NEW a \in Addresses
        PROVE  calls'[a] + Cardinality(Owed(a)') + Asking(a)' <= requests'[a] + repeats'
    <3>1. CASE a = line
      <4>1. files[cwd] = a
        BY <2>1, <3>1, LifecycleAssumption
      <4>2. cwd \in Owed(a) /\ Owed(a)' \subseteq Owed(a) \ {cwd}
        BY <1>2, <2>0, <4>1 DEF SendCallback, Owed
      <4>3. /\ calls[a] \in Nat /\ requests[a] \in Nat /\ repeats \in Nat
            /\ Cardinality(Owed(a)) \in Nat /\ IsFiniteSet(Owed(a)) /\ Asking(a) = 0
        BY <1>0, <1>2, OweNumbers DEF SendCallback, Asking
      <4>4. Cardinality(Owed(a)') \in Nat /\ Cardinality(Owed(a)') + 1 <= Cardinality(Owed(a))
        BY <4>2, <4>3, OwedWithout
      <4>5. calls'[a] \in {calls[a], calls[a] + 1} /\ Asking(a)' = 0
            /\ requests' = requests /\ repeats' = repeats
        BY <1>0, <1>2, <3>1 DEF SendCallback, Counted, Asking
      <4>6. calls[a] + Cardinality(Owed(a)) + Asking(a) <= requests[a] + repeats
        BY <1>0 DEF Owes
      <4> QED
        BY <4>3, <4>4, <4>5, <4>6
    <3>2. CASE a # line
      <4>1. calls'[a] = calls[a] /\ requests'[a] = requests[a] /\ repeats' = repeats
        BY <1>0, <1>2, <3>2 DEF SendCallback, Counted
      <4>2. Owed(a)' \subseteq Owed(a) /\ Asking(a)' \in {0, 1} /\ Asking(a)' <= Asking(a)
        BY <1>2 DEF SendCallback, Owed, Asking
      <4> QED
        BY <1>0, <4>1, <4>2, OwesStays
    <3> QED
      BY <3>1, <3>2
  <2>3. LineRead' /\ Empties'
    BY <1>2 DEF SendCallback, CallsInv, LineRead, Empties
  <2>4. GarbageCalled'
    <3>1. CASE line = Garbage
      <4>1. files[cwd] = Empty
        BY <2>0, <2>1, <3>1, LifecycleAssumption DEF Contents
      <4>2. damaged
        BY <1>2, <2>0, <4>1 DEF SendCallback, CallsInv, Empties
      <4> QED
        BY <1>2, <4>2 DEF SendCallback, GarbageCalled
    <3>2. CASE line # Garbage
      <4>1. calls'[Garbage] = calls[Garbage]
        BY <1>0, <1>2, <3>2 DEF SendCallback, Counted
      <4> QED
        BY <1>2, <4>1 DEF SendCallback, CallsInv, GarbageCalled
    <3> QED
      BY <3>1, <3>2
  <2> QED
    BY <2>2, <2>3, <2>4 DEF CallsInv, Owes
<1>3. CASE DeleteCallback
  <2>1. ASSUME NEW a \in Addresses
        PROVE  calls'[a] + Cardinality(Owed(a)') + Asking(a)' <= requests'[a] + repeats'
    <3>1. calls'[a] = calls[a] /\ requests'[a] = requests[a]
      BY <1>3 DEF DeleteCallback
    <3>2. Asking(a)' \in {0, 1} /\ Asking(a)' <= Asking(a)
      BY <1>3 DEF DeleteCallback, Asking
    <3>3. \/ repeats' = repeats /\ Owed(a)' \subseteq Owed(a)
          \/ repeats' = repeats + 1 /\ Owed(a)' \subseteq Owed(a) \cup {cwd}
      <4>1. CASE files' = [files EXCEPT ![cwd] = NoFile] /\ repeats' = repeats
        <5>1. \A d \in Dirs : files'[d] = IF d = cwd THEN NoFile ELSE files[d]
          BY <1>0, <4>1 DEF Located
        <5> QED
          BY <1>3, <4>1, <5>1, LifecycleAssumption DEF DeleteCallback, Owed
      <4>2. CASE files' = files /\ repeats' = repeats + 1
        BY <1>3, <4>2 DEF DeleteCallback, Owed
      <4> QED
        BY <1>3, <4>1, <4>2 DEF DeleteCallback
    <3> QED
      BY <1>0, <3>1, <3>2, <3>3, OwesStays
  <2>2. LineRead' /\ GarbageCalled'
    BY <1>3 DEF DeleteCallback, CallsInv, LineRead, GarbageCalled
  <2>3. Empties'
    <3>1. \A d \in Dirs : files'[d] \in {files[d], NoFile}
      BY <1>0, <1>3 DEF DeleteCallback, Located
    <3> QED
      BY <1>3, <3>1, LifecycleAssumption DEF DeleteCallback, CallsInv, Empties
  <2> QED
    BY <2>1, <2>2, <2>3 DEF CallsInv, Owes
<1> QED
  BY <1>1, <1>2, <1>3

\* rebt is asked for one more call, empties the file and stores the address.
LEMMA CallsAtRebt ==
  ASSUME CallsInv, PortsInv', RebtOpen \/ RebtWrite
  PROVE  CallsInv'
<1>0. TypeOK /\ Located /\ Counted /\ Owes
  BY TypeParts DEF CallsInv, PortsInv
<1> DEFINE f == Resolve(testRoot)
<1>f. f \in Dirs
  BY <1>0, ResolvedIsDir
<1>1. CASE RebtOpen
  <2>0. /\ files' = [files EXCEPT ![f] = Empty] /\ pc' = "write" /\ pc = "loop"
        /\ requests' = [requests EXCEPT ![rebtArg'] = @ + 1] /\ rebtArg' \in Addresses
        /\ UNCHANGED <<cwd, testRoot, calls, repeats, damaged>>
    BY <1>1 DEF RebtOpen
  <2>1. \A d \in Dirs : files'[d] = IF d = f THEN Empty ELSE files[d]
    BY <1>0, <1>f, <2>0 DEF Located
  <2>2. ASSUME NEW a \in Addresses
        PROVE  calls'[a] + Cardinality(Owed(a)') + Asking(a)' <= requests'[a] + repeats'
    <3>1. /\ calls[a] \in Nat /\ requests[a] \in Nat /\ repeats \in Nat
          /\ Cardinality(Owed(a)) \in Nat /\ IsFiniteSet(Owed(a)) /\ Asking(a) \in {0, 1}
      BY <1>0, OweNumbers
    <3>2. Owed(a)' \subseteq Owed(a)
      BY <2>0, <2>1, LifecycleAssumption DEF Owed
    <3>3. Cardinality(Owed(a)') \in Nat /\ Cardinality(Owed(a)') <= Cardinality(Owed(a))
      BY <3>1, <3>2, OwedShrinks
    <3>4. requests'[a] = requests[a] + Asking(a)' /\ Asking(a)' \in {0, 1}
      BY <1>0, <2>0 DEF Counted, Asking
    <3>5. calls'[a] = calls[a] /\ repeats' = repeats
      BY <2>0
    <3>6. calls[a] + Cardinality(Owed(a)) + Asking(a) <= requests[a] + repeats
      BY <1>0 DEF Owes
    <3> QED
      BY <3>1, <3>3, <3>4, <3>5, <3>6
  <2>3. LineRead' /\ GarbageCalled'
    BY <2>0 DEF CallsInv, LineRead, GarbageCalled
  <2>4. Empties'
    <3>1. f' = f
      BY <2>0 DEF Resolve
    <3> QED
      BY <2>0, <2>1, <3>1 DEF CallsInv, Empties
  <2> QED
    BY <2>2, <2>3, <2>4 DEF CallsInv, Owes
<1>2. CASE RebtWrite
  <2>0. /\ pc = "write" /\ pc' = "stop"
        /\ UNCHANGED <<cwd, testRoot, rebtArg, requests, calls, repeats>>
    BY <1>2 DEF RebtWrite
  <2>1. rebtArg \in Addresses /\ rebtArg # Empty
    BY <1>0, <2>0, LifecycleAssumption DEF Located
  <2>2. \/ files' = [files EXCEPT ![f] = rebtArg] /\ damaged' = damaged
        \/ files' = files /\ damaged' = TRUE
    BY <1>2 DEF RebtWrite
  <2>3. \A d \in Dirs : \/ files'[d] = files[d]
                        \/ d = f /\ files'[d] = rebtArg
    BY <1>0, <1>f, <2>2 DEF Located
  <2>4. ASSUME NEW a \in Addresses
        PROVE  calls'[a] + Cardinality(Owed(a)') + Asking(a)' <= requests'[a] + repeats'
    <3>1. /\ calls[a] \in Nat /\ requests[a] \in Nat /\ repeats \in Nat
          /\ Cardinality(Owed(a)) \in Nat /\ IsFiniteSet(Owed(a)) /\ Asking(a) \in {0, 1}
      BY <1>0, OweNumbers
    <3>2. calls'[a] = calls[a] /\ requests'[a] = requests[a] /\ repeats' = repeats
      BY <2>0
    <3>3. Asking(a)' = 0
      BY <2>0 DEF Asking
    <3>4. calls[a] + Cardinality(Owed(a)) + Asking(a) <= requests[a] + repeats
      BY <1>0 DEF Owes
    <3>5. CASE a = rebtArg
      <4>1. Asking(a) = 1 /\ Owed(a)' \subseteq Owed(a) \cup {f}
        BY <2>0, <2>3, <3>5 DEF Asking, Owed
      <4>2. Cardinality(Owed(a)') \in Nat /\ Cardinality(Owed(a)') <= Cardinality(Owed(a)) + 1
        BY <3>1, <4>1, OwedGrows
      <4> QED
        BY <3>1, <3>2, <3>3, <3>4, <4>1, <4>2
    <3>6. CASE a # rebtArg
      <4>1. Asking(a) = 0 /\ Owed(a)' \subseteq Owed(a)
        BY <2>0, <2>3, <3>6 DEF Asking, Owed
      <4>2. Cardinality(Owed(a)') \in Nat /\ Cardinality(Owed(a)') <= Cardinality(Owed(a))
        BY <3>1, <4>1, OwedShrinks
      <4> QED
        BY <3>1, <3>2, <3>3, <3>4, <4>1, <4>2
    <3> QED
      BY <3>5, <3>6
  <2>5. LineRead'
    BY <2>0 DEF LineRead
  <2>6. Empties' /\ GarbageCalled'
    <3>1. CASE damaged' = TRUE
      BY <3>1 DEF Empties, GarbageCalled
    <3>2. CASE files' = [files EXCEPT ![f] = rebtArg] /\ damaged' = damaged
      <4>1. \A d \in Dirs : files'[d] = IF d = f THEN rebtArg ELSE files[d]
        BY <1>0, <1>f, <3>2 DEF Located
      <4>2. Empties'
        BY <2>1, <3>2, <4>1 DEF CallsInv, Empties
      <4>3. GarbageCalled'
        BY <2>0, <3>2 DEF CallsInv, GarbageCalled
      <4> QED
        BY <4>2, <4>3
    <3> QED
      BY <2>2, <3>1, <3>2
  <2> QED
    BY <2>4, <2>5, <2>6 DEF CallsInv, Owes
<1> QED
  BY <1>1, <1>2

\* A crash excuses one repeated call, or one file left empty.
LEMMA CallsAtCrash ==
  ASSUME CallsInv, PortsInv', Crash
  PROVE  CallsInv'
<1>0. TypeOK /\ Located /\ Counted /\ Owes
  BY TypeParts DEF CallsInv, PortsInv
<1>1. pc' = "options" /\ UNCHANGED <<files, requests, calls>>
  BY DEF Crash, Starting
<1>2. ASSUME NEW a \in Addresses
      PROVE  calls'[a] + Cardinality(Owed(a)') + Asking(a)' <= requests'[a] + repeats'
  <2>1. Asking(a)' \in {0, 1} /\ Asking(a)' <= Asking(a)
    BY <1>1 DEF Asking
  <2>2. \/ repeats' = repeats /\ Owed(a)' \subseteq Owed(a)
        \/ repeats' = repeats + 1 /\ Owed(a)' \subseteq Owed(a) \cup {cwd}
    BY <1>1 DEF Crash, Owed
  <2> QED
    BY <1>0, <1>1, <2>1, <2>2, OwesStays
<1>3. LineRead'
  BY <1>1 DEF LineRead
<1>4. damaged' <=> damaged \/ pc = "write"
  BY Zenon DEF Crash
<1>5. Empties'
  BY <1>1, <1>4 DEF CallsInv, Empties
<1>6. GarbageCalled'
  BY <1>1, <1>4 DEF CallsInv, GarbageCalled
<1> QED
  BY <1>2, <1>3, <1>5, <1>6 DEF CallsInv, Owes

LEMMA CallsKept == CallsInv /\ [Next]_vars => CallsInv'
<1> SUFFICES ASSUME CallsInv, [Next]_vars PROVE CallsInv'
  OBVIOUS
<1>1. PortsInv'
  BY PortsKept DEF CallsInv
<1>2. CASE ParseOptions \/ SetTestRoot \/ Listen \/ Register
  BY <1>1, <1>2, QuietCalls DEF ParseOptions, SetTestRoot, Listen, Register, callback
<1>3. CASE OpenCallback \/ SendCallback \/ DeleteCallback
  BY <1>1, <1>3, CallsAtStartup
<1>4. CASE Cd \/ RebtPlain \/ StopReactor \/ Reboot \/ Signal
  BY <1>1, <1>4, QuietCalls DEF Cd, RebtPlain, StopReactor, Reboot, Starting, Signal, callback
<1>5. CASE RebtOpen \/ RebtWrite
  BY <1>1, <1>5, CallsAtRebt
<1>6. CASE Crash
  BY <1>1, <1>6, CallsAtCrash
<1>7. CASE UNCHANGED vars
  <2>1. ASSUME NEW a \in Addresses
        PROVE  calls'[a] + Cardinality(Owed(a)') + Asking(a)' <= requests'[a] + repeats'
    <3>1. Owed(a)' = Owed(a) /\ Asking(a)' = Asking(a)
      BY <1>7 DEF vars, Owed, Asking
    <3> QED
      BY <1>7, <3>1 DEF CallsInv, Owes, vars, callback
  <2>2. LineRead' /\ Empties' /\ GarbageCalled'
    BY <1>7 DEF CallsInv, LineRead, Empties, GarbageCalled, Resolve, vars, callback
  <2> QED
    BY <1>1, <2>1, <2>2 DEF CallsInv, Owes
<1> QED
  BY <1>2, <1>3, <1>4, <1>5, <1>6, <1>7 DEF Next, Startup

-----------------------------------------------------------------------------
(***************************************************************************)
(* Callbacks that are stored.  The agent comes up in StartDir; a callback  *)
(* that is pending and has not strayed is the one in the file of that      *)
(* directory, and there is none once the agent has got to its loop.        *)
(***************************************************************************)
AtHome ==
  pc \in {"options", "testroot", "listen", "register", "callback", "send", "delete"} =>
    cwd = StartDir
Stored ==
  /\ pending \ strayed \subseteq {files[StartDir]}
  /\ pc \in {"delete", "loop", "write"} => pending \subseteq strayed

LEMMA AtHomeKept == AtHome /\ [Next]_vars => AtHome'
<1> SUFFICES ASSUME AtHome, [Next]_vars PROVE AtHome'
  OBVIOUS
<1>1. CASE Startup
  BY <1>1 DEF Startup, ParseOptions, SetTestRoot, Listen, Register, OpenCallback, SendCallback,
              DeleteCallback, AtHome
<1>2. CASE Cd \/ RebtPlain \/ RebtOpen \/ RebtWrite \/ StopReactor \/ Signal
  BY <1>2 DEF Cd, RebtPlain, RebtOpen, RebtWrite, StopReactor, Signal, AtHome
<1>3. CASE Reboot \/ Crash
  BY <1>3 DEF Reboot, Crash, Starting, AtHome
<1>4. CASE UNCHANGED vars
  BY <1>4 DEF vars, AtHome
<1> QED
  BY <1>1, <1>2, <1>3, <1>4 DEF Next

\* A step that leaves files and callbacks alone, not to the loop.
LEMMA StoredStays ==
  ASSUME Stored, files' = files, pending' = pending, strayed' = strayed,
         pc' \in {"delete", "loop", "write"} =>
           pc \in {"delete", "loop", "write"} \/ pending \subseteq strayed
  PROVE  Stored'
BY DEF Stored

LEMMA StoredKept == CallsInv /\ AtHome /\ Stored /\ [Next]_vars => Stored'
<1> SUFFICES ASSUME CallsInv, AtHome, Stored, [Next]_vars PROVE Stored'
  OBVIOUS
<1>0. TypeOK /\ files \in [Dirs -> Contents] /\ pending \subseteq Addresses /\ StartDir \in Dirs
      /\ NoFile \notin Addresses /\ Empty \notin Addresses /\ NoFile # Empty
  BY LifecycleAssumption DEF CallsInv, PortsInv, TypeOK
<1>1. CASE ParseOptions \/ SetTestRoot \/ Listen \/ Register
  BY <1>1, StoredStays DEF ParseOptions, SetTestRoot, Listen, Register, callback
<1>2. CASE OpenCallback
  <2>1. files' = files /\ pending' = pending /\ strayed' = strayed /\ cwd = StartDir
    BY <1>2 DEF OpenCallback, callback, AtHome
  <2>2. CASE files[cwd] = NoFile
    BY <1>0, <2>1, <2>2, StoredStays DEF Stored
  <2>3. CASE files[cwd] # NoFile
    BY <1>2, <2>1, <2>3, StoredStays DEF OpenCallback
  <2> QED
    BY <2>2, <2>3
<1>3. CASE SendCallback
  <2>1. /\ files' = files /\ strayed' = strayed /\ pending' = pending \ {line}
        /\ line = IF files[StartDir] = Empty THEN Garbage ELSE files[StartDir]
    BY <1>3 DEF SendCallback, AtHome, CallsInv, LineRead
  <2>2. pending' \subseteq strayed'
    BY <1>0, <2>1 DEF Stored
  <2> QED
    BY <2>2 DEF Stored
<1>4. CASE DeleteCallback
  <2>1. pending' = pending /\ strayed' = strayed /\ pc = "delete"
    BY <1>4 DEF DeleteCallback
  <2> QED
    BY <2>1 DEF Stored
<1>5. CASE Cd \/ RebtPlain \/ StopReactor \/ Reboot \/ Signal \/ Crash
  BY <1>5, StoredStays DEF Cd, RebtPlain, StopReactor, Reboot, Starting, Signal, Crash, callback
<1>6. CASE RebtOpen
  <2>1. pending' = pending /\ strayed' = strayed /\ pc = "loop"
    BY <1>6 DEF RebtOpen
  <2> QED
    BY <2>1 DEF Stored
<1>7. CASE RebtWrite
  <2>1. pc = "write" /\ rebtArg \in Addresses /\ pc' = "stop" /\ pending \subseteq strayed
    BY <1>0, <1>7 DEF RebtWrite, TypeOK, Stored
  <2>2. CASE files' = files /\ pending' = pending /\ strayed' = strayed
    BY <2>1, <2>2, StoredStays
  <2>3. CASE pending' = pending \cup {rebtArg} /\ strayed' = strayed \cup {rebtArg}
    BY <2>1, <2>3 DEF Stored
  <2>4. CASE /\ ~LeadsAway /\ files' = [files EXCEPT ![Resolve(testRoot)] = rebtArg]
             /\ pending' = pending \cup {rebtArg} /\ strayed' = strayed \ {rebtArg}
    <3>1. Resolve(testRoot) = StartDir
      BY <1>0, <2>4, LifecycleAssumption DEF LeadsAway, Resolve
    <3>2. files'[StartDir] = rebtArg
      BY <1>0, <2>4, <3>1
    <3> QED
      BY <2>1, <2>4, <3>2 DEF Stored
  <2> QED
    BY <1>7, <2>2, <2>3, <2>4 DEF RebtWrite
<1>8. CASE UNCHANGED vars
  BY <1>8, StoredStays DEF vars, callback
<1> QED
  BY <1>1, <1>2, <1>3, <1>4, <1>5, <1>6, <1>7, <1>8 DEF Next, Startup

-----------------------------------------------------------------------------
(***************************************************************************)
(* The theorems.                                                           *)
(***************************************************************************)
\* Whatever is typed, stored or interrupted, every variable keeps its type; so
\* a port listened on is one that a PRInt16 holds (SUTAgent.cpp:156).
THEOREM LifecycleTyped == Spec => []TypeOK
<1>1. PortsInv => TypeOK
  BY DEF PortsInv
<1> QED
  BY PortsAtFirst, PortsKept, <1>1, PTL DEF Spec

\* Whatever numbers the agent is given, if they are port numbers it listens on
\* them or ends, and never on one port for both (SUTAgent.cpp:156, 188).
THEOREM ListensAsAsked == Spec => []ListensWhereAsked
<1>1. PortsInv => ListensWhereAsked
  BY DEF PortsInv
<1> QED
  BY PortsAtFirst, PortsKept, <1>1, PTL DEF Spec

\* Whoever learns of the agent can connect at once (SUTAgent.cpp:189-216), and
\* does so on the ports that were asked for, if they are port numbers.
THEOREM TellsWhenServing == Spec => ToldWhenServing
<1> DEFINE There == Serving /\ \A k \in Kinds : args[k] \in Ports => bound[k] = args[k]
<1>1. PortsInv /\ [Next]_vars => [queries' # queries \/ calls' # calls => There]_vars
  <2> SUFFICES ASSUME PortsInv, Next, queries' # queries \/ calls' # calls PROVE There
    OBVIOUS
  <2>1. pc \in {"register", "send"}
    BY DEF Next, Startup, ParseOptions, SetTestRoot, Listen, Register, OpenCallback,
           SendCallback, DeleteCallback, Cd, RebtPlain, RebtOpen, RebtWrite, StopReactor,
           Reboot, Signal, Crash, callback
  <2>2. Serving
    BY <2>1 DEF PortsInv, Telling
  <2> QED
    BY <2>2 DEF Serving, PortsInv, ListensWhereAsked
<1> QED
  BY PortsAtFirst, PortsKept, <1>1, PTL DEF Spec, ToldWhenServing

\* Every call was asked for, and none is made twice but for a crash or a file
\* that cannot be removed (SUTAgent.cpp:77-99, CommandEventHandler.cpp:753-766).
THEOREM CalledAsRequested == Spec => []CallsAreRequested
<1>1. CallsInv => CallsAreRequested
  <2> SUFFICES ASSUME CallsInv PROVE CallsAreRequested
    OBVIOUS
  <2>1. ASSUME NEW a \in Addresses PROVE calls[a] <= requests[a] + repeats
    <3>1. /\ calls[a] \in Nat /\ requests[a] \in Nat /\ repeats \in Nat
          /\ Cardinality(Owed(a)) \in Nat /\ Asking(a) \in {0, 1}
      BY OweNumbers DEF CallsInv, PortsInv
    <3>2. calls[a] + Cardinality(Owed(a)) + Asking(a) <= requests[a] + repeats
      BY DEF CallsInv, Owes
    <3> QED
      BY <3>1, <3>2
  <2> QED
    BY <2>1 DEF CallsInv, GarbageCalled, CallsAreRequested
<1> QED
  BY CallsAtFirst, CallsKept, <1>1, PTL DEF Spec

\* "No reboot callback data." (SUTAgent.cpp:82) is true but for callbacks that rebt
\* has stored in a directory handle_reboot() does not look into: wherever the test
\* roots are, and however often the device has gone down meanwhile.
THEOREM CallbackIsFound == Spec => CallbackFound
<1> DEFINE Inv == AtHome /\ Stored
<1>1. Init => Inv
  BY DEF Init, AtHome, Stored
<1>2. CallsInv /\ Inv /\ [Next]_vars => Inv'
  BY AtHomeKept, StoredKept
<1>3. CallsInv /\ Inv /\ [Next]_vars =>
        [pc = "callback" /\ pc' = "loop" => pending \subseteq strayed]_vars
  <2> SUFFICES ASSUME CallsInv, Inv, Next, pc = "callback", pc' = "loop"
               PROVE  pending \subseteq strayed
    OBVIOUS
  <2>1. OpenCallback
    <3>1. ~Crash /\ ~Reboot
      BY DEF Crash, Reboot, Starting
    <3> QED
      BY <3>1 DEF Next, Startup, ParseOptions, SetTestRoot, Listen, Register, SendCallback,
                  DeleteCallback, Cd, RebtPlain, RebtOpen, RebtWrite, StopReactor, Signal
  <2>2. files[StartDir] = NoFile
    BY <2>1 DEF OpenCallback, AtHome
  <2>3. pending \subseteq Addresses /\ NoFile \notin Addresses
    BY LifecycleAssumption DEF CallsInv, PortsInv, TypeOK
  <2> QED
    BY <2>2, <2>3 DEF Stored
<1> HIDE DEF Inv
<1> QED
  BY CallsAtFirst, CallsKept, <1>1, <1>2, <1>3, PTL DEF Spec, CallbackFound
-----------------------------------------------------------------------------
(***************************************************************************)
(* read_ini(), which is part of the step Register: it delivers what the    *)
(* file says, whatever the sections, names and values are and however long *)
(* the file is.                                                            *)
(*                                                                         *)
(* The invariant is SaysWhatItSays for the lines that have been read: each *)
(* name of a section has the value of its last assignment among them below *)
(* the last title of that section among them.  It needs that c_section is  *)
(* the section the next line is in.                                        *)
(***************************************************************************)
\* Every variable has its type, and the next line is one of the file or past its
\* end.
IniTypes ==
  /\ file \in File
  /\ at \in 1 .. Len(file.lines) + 1
  /\ section \in Sections
  /\ data \in [Sections -> Dict]
  /\ opened \in BOOLEAN
  /\ ret \in {"none", "true", "false"}

\* A file is open only between fopen() and a return; which return it is depends
\* on the file.
IniExits ==
  /\ opened => file.exists /\ ~Returned
  /\ ret # "false" => \A i \in Before(at) : file.lines[i].kind # "unclosed"
  /\ ret = "true" => file.exists /\ at = Len(file.lines) + 1
  /\ ret = "false" => ~(WellFormed /\ file.exists)

\* Of the lines read, none after line i sets n of section s or begins s anew.
Stays(i, s, n) ==
  \A j \in Before(at) : j > i =>
    /\ ~Sets(j, s, n)
    /\ j \in Titles => file.lines[j].section # s

\* Line i of those read is the one that says what n is in section s.
Decides(i, s, n) == i \in Before(at) /\ Sets(i, s, n) /\ Stays(i, s, n)

\* The lines read are in the dictionary.
ReadSoFar ==
  \A s \in Sections, n \in Names, v \in Values :
    data[s][n] = v <=> \E i \in Before(at) : Decides(i, s, n) /\ file.lines[i].value = v

IniInv == IniTypes /\ IniExits /\ In(at, section) /\ ReadSoFar
-----------------------------------------------------------------------------
\* The lines of a file are a sequence of lines.
LEMMA LinesAreLines ==
  ASSUME IniAssumption, NEW f \in File
  PROVE  /\ Len(f.lines) \in Nat
         /\ DOMAIN f.lines = 1 .. Len(f.lines)
         /\ \A i \in 1 .. Len(f.lines) : f.lines[i] \in Line
         /\ f.exists \in BOOLEAN
<1>1. CASE f = Missing
  BY <1>1 DEF Missing
<1>2. CASE f # Missing
  <2>1. PICK k \in 0 .. MaxLines : f.lines \in [1 .. k -> Line] /\ f.exists = TRUE
    BY <1>2 DEF File, Missing
  <2>2. k \in Nat
    BY <2>1 DEF IniAssumption
  <2>3. f.lines \in Seq(Line) /\ Len(f.lines) = k
    BY <2>1, <2>2
  <2> QED
    BY <2>1, <2>2, <2>3
<1> QED
  BY <1>1, <1>2

\* A line is in one section only.
LEMMA OneSection ==
  ASSUME NEW i \in Nat, NEW s, NEW t, In(i, s), In(i, t), Titles \subseteq Nat
  PROVE  s = t
<1> DEFINE above == Titles \cap Before(i)
<1>1. CASE above = {}
  BY <1>1 DEF In
<1>2. CASE above # {}
  <2>1. PICK a \in above : file.lines[a].section = s /\ \A u \in above : u <= a
    BY <1>2 DEF In
  <2>2. PICK b \in above : file.lines[b].section = t /\ \A u \in above : u <= b
    BY <1>2 DEF In
  <2>3. a <= b /\ b <= a /\ a \in Nat /\ b \in Nat
    BY <2>1, <2>2
  <2>4. a = b
    BY <2>3
  <2> QED
    BY <2>1, <2>2, <2>4
<1> QED
  BY <1>1, <1>2

\* A line that is no title leaves the next one in the same section.
LEMMA SameSection ==
  ASSUME NEW i \in Nat \ {0}, i \notin Titles, NEW s, In(i, s)
  PROVE  In(i + 1, s)
<1>1. Titles \cap Before(i + 1) = Titles \cap Before(i)
  BY DEF Before
<1> QED
  BY <1>1 DEF In

\* A title puts the next line in its section.
LEMMA NewSection ==
  ASSUME NEW i \in Nat \ {0}, i \in Titles PROVE In(i + 1, file.lines[i].section)
<1>1. i \in Titles \cap Before(i + 1) /\ \A u \in Titles \cap Before(i + 1) : u <= i
  BY DEF Before
<1> QED
  BY <1>1 DEF In
-----------------------------------------------------------------------------
\* Nothing has been read, and nothing is in the dictionary.
LEMMA NothingRead == ASSUME IniAssumption, IniInit PROVE IniInv
<1>1. IniTypes
  <2>1. file \in File /\ 1 \in 1 .. Len(file.lines) + 1
    <3>1. Len(file.lines) \in Nat
      BY LinesAreLines DEF IniInit
    <3> QED
      BY <3>1 DEF IniInit
  <2>2. EmptyDict \in Dict
    BY DEF EmptyDict, Dict
  <2> QED
    BY <2>1, <2>2 DEF IniInit, Fresh, IniTypes, IniAssumption
<1>2. Before(at) = {}
  BY DEF IniInit, Fresh, Before
<1>3. IniExits
  BY <1>2 DEF IniInit, Fresh, IniExits, Returned
<1>4. In(at, section)
  BY <1>2 DEF In, IniInit, Fresh
<1>5. ReadSoFar
  BY <1>2 DEF ReadSoFar, Decides, IniInit, Fresh, EmptyDict, IniAssumption
<1> QED
  BY <1>1, <1>3, <1>4, <1>5 DEF IniInv

\* fopen() changes nothing that has been read.
LEMMA OpenKeeps == ASSUME IniAssumption, IniInv, Open PROVE IniInv'
<1> USE DEF IniInv
<1>1. UNCHANGED <<file, at, section, data>>
  BY DEF Open
<1>2. IniTypes'
  BY <1>1 DEF IniTypes, Open
<1>3. IniExits'
  BY <1>1, LinesAreLines DEF IniTypes, IniExits, Open, Returned, WellFormed, Before
<1>4. In(at, section)' /\ ReadSoFar'
  BY <1>1 DEF In, Before, Titles, ReadSoFar, Decides, Stays, Sets
<1> QED
  BY <1>2, <1>3, <1>4

\* At the end of the file all its lines have been read.
LEMMA EndKeeps == ASSUME IniAssumption, IniInv, End PROVE IniInv'
<1> USE DEF IniInv
<1>1. UNCHANGED <<file, at, section, data>>
  BY DEF End
<1>2. IniTypes'
  BY <1>1 DEF IniTypes, End
<1>3. IniExits'
  BY <1>1, LinesAreLines DEF IniTypes, IniExits, End, Returned, WellFormed, Before
<1>4. In(at, section)' /\ ReadSoFar'
  BY <1>1 DEF In, Before, Titles, ReadSoFar, Decides, Stays, Sets
<1> QED
  BY <1>2, <1>3, <1>4
-----------------------------------------------------------------------------
\* What a line read tells of those before it: line i sets n of s as before, and is
\* overridden by one more only if that line sets it again or begins s anew.
LEMMA OneMore ==
  ASSUME IniTypes, at' = at + 1, UNCHANGED file, at \in Nat \ {0},
         NEW s, NEW n, NEW i \in Before(at)
  PROVE  Decides(i, s, n)' <=>
           /\ Decides(i, s, n)
           /\ ~Sets(at, s, n)
           /\ at \in Titles => file.lines[at].section # s
<1>1. Before(at)' = Before(at) \cup {at}
  BY DEF Before
<1>2. Sets(i, s, n)' <=> Sets(i, s, n)
  BY DEF Sets, In, Titles
<1>3. Stays(i, s, n)' <=>
        /\ Stays(i, s, n)
        /\ ~Sets(at, s, n)
        /\ at \in Titles => file.lines[at].section # s
  <2>1. \A j : Sets(j, s, n)' <=> Sets(j, s, n)
    BY DEF Sets, In, Titles
  <2>2. at > i /\ i \in Nat
    BY DEF Before
  <2> QED
    BY <1>1, <2>1, <2>2 DEF Stays, Titles
<1> QED
  BY <1>1, <1>2, <1>3 DEF Decides

\* The line just read decides what it sets.
LEMMA NewDecides ==
  ASSUME IniTypes, NEW k \in Nat \ {0}, k = at, at' = k + 1, UNCHANGED file, NEW s, NEW n
  PROVE  Decides(k, s, n)' <=> Sets(k, s, n)
<1>1. Before(at)' = 1 .. k
  BY DEF Before
<1>2. Sets(k, s, n)' <=> Sets(k, s, n)
  BY DEF Sets, In, Titles
<1>3. Stays(k, s, n)'
  BY <1>1 DEF Stays
<1> QED
  BY <1>1, <1>2, <1>3 DEF Decides

\* What the dictionary holds before a line, and after it: a step that reads a line
\* keeps ReadSoFar if it does to the dictionary what the line does to the values.
LEMMA ReadOneMore ==
  ASSUME IniAssumption, IniInv, at \in Nat \ {0}, at' = at + 1, UNCHANGED file,
         \A s \in Sections, n \in Names, v \in Values :
           data'[s][n] = v <=>
             \/ Sets(at, s, n) /\ file.lines[at].value = v
             \/ /\ data[s][n] = v
                /\ ~Sets(at, s, n)
                /\ at \in Titles => file.lines[at].section # s
  PROVE  ReadSoFar'
<1>0. PICK k \in Nat \ {0} :
        k = at /\ at' = k + 1 /\ IniTypes /\ Before(at)' = Before(at) \cup {k}
  BY DEF IniInv, Before
<1> SUFFICES ASSUME NEW s \in Sections, NEW n \in Names, NEW v \in Values
             PROVE  data'[s][n] = v <=>
                      \E i \in Before(at)' : Decides(i, s, n)' /\ file.lines[i].value = v
  BY DEF ReadSoFar
<1>1. Decides(k, s, n)' <=> Sets(k, s, n)
  BY <1>0, NewDecides
<1>2. \A i \in Before(at) :
        Decides(i, s, n)' <=>
          /\ Decides(i, s, n)
          /\ ~Sets(k, s, n)
          /\ k \in Titles => file.lines[k].section # s
  BY <1>0, OneMore
<1>3. data[s][n] = v <=> \E i \in Before(at) : Decides(i, s, n) /\ file.lines[i].value = v
  BY DEF IniInv, ReadSoFar
<1>4. data'[s][n] = v <=>
        \/ Sets(k, s, n) /\ file.lines[k].value = v
        \/ /\ data[s][n] = v
           /\ ~Sets(k, s, n)
           /\ k \in Titles => file.lines[k].section # s
  BY <1>0
<1> QED
  BY <1>0, <1>1, <1>2, <1>3, <1>4
-----------------------------------------------------------------------------
\* A line that fgets() reads is one of the file.
LEMMA ReadsALine ==
  ASSUME IniAssumption, IniInv, NEW l, Reads(l), UNCHANGED file
  PROVE  /\ at \in Nat \ {0} /\ at \in DOMAIN file.lines
         /\ l \in Line /\ l = file.lines[at]
         /\ at' = at + 1 /\ at' \in 1 .. Len(file.lines) + 1
         /\ opened /\ ret = "none" /\ file.exists
BY LinesAreLines DEF IniInv, IniTypes, IniExits, Reads, Returned

\* Only the line of an assignment sets something: its name, in the section that
\* c_section is.
LEMMA SetsHere ==
  ASSUME IniAssumption, IniInv, at \in DOMAIN file.lines, NEW s, NEW n
  PROVE  Sets(at, s, n) <=>
           /\ file.lines[at].kind = "assignment"
           /\ file.lines[at].name = n
           /\ s = section
<1>1. at \in Nat /\ Titles \subseteq Nat /\ In(at, section)
  BY LinesAreLines DEF IniInv, IniTypes, Titles
<1>2. In(at, s) <=> s = section
  BY <1>1, OneSection
<1> QED
  BY <1>2 DEF Sets

\* A line that is blank, a comment or bogus.
LEMMA SkipKeeps ==
  ASSUME IniAssumption, IniInv, NEW l, Reads(l), Skip(l), UNCHANGED file PROVE IniInv'
<1>1. /\ at \in Nat \ {0} /\ at \in DOMAIN file.lines /\ l = file.lines[at]
      /\ at' = at + 1 /\ at' \in 1 .. Len(file.lines) + 1
  BY ReadsALine
<1>2. IniTypes'
  BY <1>1 DEF IniInv, IniTypes, Skip
<1>3. IniExits'
  BY <1>1 DEF IniInv, IniExits, Skip, Returned, WellFormed, Before
<1>4. at \notin Titles /\ \A s, n : ~Sets(at, s, n)
  BY <1>1 DEF Skip, Titles, Sets
<1>5. In(at + 1, section)
  BY <1>1, <1>4, SameSection DEF IniInv
<1>6. In(at, section)'
  BY <1>1, <1>5 DEF Skip, In, Titles
<1>7. ReadSoFar'
  BY <1>1, <1>4, ReadOneMore DEF Skip
<1> QED
  BY <1>2, <1>3, <1>6, <1>7 DEF IniInv

\* A title without its closing bracket: the file is refused.
LEMMA UnclosedKeeps ==
  ASSUME IniAssumption, IniInv, NEW l, Reads(l), Unclosed(l), UNCHANGED file PROVE IniInv'
<1>1. /\ at \in Nat \ {0} /\ at \in DOMAIN file.lines /\ l = file.lines[at]
      /\ at' = at + 1 /\ at' \in 1 .. Len(file.lines) + 1
  BY ReadsALine
<1>2. IniTypes'
  BY <1>1 DEF IniInv, IniTypes, Unclosed
<1>3. IniExits'
  BY <1>1 DEF IniInv, IniExits, Unclosed, Returned, WellFormed
<1>4. at \notin Titles /\ \A s, n : ~Sets(at, s, n)
  BY <1>1 DEF Unclosed, Titles, Sets
<1>5. In(at + 1, section)
  BY <1>1, <1>4, SameSection DEF IniInv
<1>6. In(at, section)'
  BY <1>1, <1>5 DEF Unclosed, In, Titles
<1>7. ReadSoFar'
  BY <1>1, <1>4, ReadOneMore DEF Unclosed
<1> QED
  BY <1>2, <1>3, <1>6, <1>7 DEF IniInv

\* A title: what its section held is forgotten.
LEMMA TitleKeeps ==
  ASSUME IniAssumption, IniInv, NEW l, Reads(l), Title(l), UNCHANGED file PROVE IniInv'
<1>1. /\ at \in Nat \ {0} /\ at \in DOMAIN file.lines /\ l = file.lines[at] /\ l \in Line
      /\ at' = at + 1 /\ at' \in 1 .. Len(file.lines) + 1
  BY ReadsALine
<1>2. l.kind = "title" /\ l.section \in Sections /\ section' = l.section
  BY <1>1 DEF Title, Line
<1>3. /\ data \in [Sections -> Dict]
      /\ \A s \in Sections : data'[s] = IF s = l.section THEN EmptyDict ELSE data[s]
  BY <1>2 DEF Title, IniInv, IniTypes
<1>4. IniTypes'
  <2>1. EmptyDict \in Dict
    BY DEF EmptyDict, Dict
  <2> QED
    BY <1>1, <1>2, <2>1 DEF IniInv, IniTypes, Title
<1>5. IniExits'
  BY <1>1, <1>2 DEF IniInv, IniExits, Title, Returned, WellFormed, Before
<1>6. at \in Titles /\ \A s, n : ~Sets(at, s, n)
  BY <1>1, <1>2 DEF Titles, Sets
<1>7. In(at + 1, l.section)
  BY <1>1, <1>6, NewSection
<1>8. In(at, section)'
  BY <1>1, <1>2, <1>7 DEF In, Titles
<1>9. ReadSoFar'
  <2>1. ASSUME NEW s \in Sections, NEW n \in Names, NEW v \in Values
        PROVE  data'[s][n] = v <=> data[s][n] = v /\ l.section # s
    <3>1. EmptyDict[n] # v
      BY DEF EmptyDict, IniAssumption
    <3> QED
      BY <1>3, <3>1
  <2> QED
    BY <1>1, <1>6, <2>1, ReadOneMore
<1> QED
  BY <1>4, <1>5, <1>8, <1>9 DEF IniInv

\* An assignment takes the place of an older one in its section.
LEMMA AssignKeeps ==
  ASSUME IniAssumption, IniInv, NEW l, Reads(l), Assign(l), UNCHANGED file PROVE IniInv'
<1>1. /\ at \in Nat \ {0} /\ at \in DOMAIN file.lines /\ l = file.lines[at] /\ l \in Line
      /\ at' = at + 1 /\ at' \in 1 .. Len(file.lines) + 1
  BY ReadsALine
<1>2. /\ l.kind = "assignment" /\ l.name \in Names /\ l.value \in Values
      /\ section \in Sections /\ data \in [Sections -> Dict]
  BY <1>1 DEF Assign, Line, IniInv, IniTypes
<1>3. \A s \in Sections, n \in Names :
        data'[s][n] = IF s = section /\ n = l.name THEN l.value ELSE data[s][n]
  BY <1>2 DEF Assign, Dict
<1>4. IniTypes'
  BY <1>1, <1>2 DEF IniInv, IniTypes, Assign, Dict
<1>5. IniExits'
  BY <1>1, <1>2 DEF IniInv, IniExits, Assign, Returned, WellFormed, Before
<1>6. at \notin Titles
  BY <1>1, <1>2 DEF Titles
<1>7. In(at + 1, section)
  BY <1>1, <1>6, SameSection DEF IniInv
<1>8. In(at, section)'
  BY <1>1, <1>7 DEF Assign, In, Titles
<1>9. ReadSoFar'
  <2>1. \A s, n : Sets(at, s, n) <=> l.name = n /\ s = section
    BY <1>1, <1>2, SetsHere
  <2> QED
    BY <1>1, <1>3, <1>6, <2>1, ReadOneMore
<1> QED
  BY <1>4, <1>5, <1>8, <1>9 DEF IniInv

\* When nothing happens, nothing changes.
LEMMA StutterKeeps == ASSUME IniInv, UNCHANGED iniVars PROVE IniInv'
<1>1. UNCHANGED <<file, at, section, data, opened, ret>>
  BY DEF iniVars
<1>2. IniTypes' /\ IniExits'
  BY <1>1 DEF IniInv, IniTypes, IniExits, Returned, WellFormed, Before
<1>3. In(at, section)' /\ ReadSoFar'
  BY <1>1 DEF IniInv, In, Before, Titles, ReadSoFar, Decides, Stays, Sets
<1> QED
  BY <1>2, <1>3 DEF IniInv

\* The invariant at the end of the file is the property.
LEMMA ReadAll == ASSUME IniAssumption, IniInv PROVE SaysWhatItSays
<1>1. DOMAIN file.lines = 1 .. Len(file.lines) /\ Len(file.lines) \in Nat
  BY LinesAreLines DEF IniInv, IniTypes
<1>2. CASE ret = "true"
  <2>1. Before(at) = DOMAIN file.lines
    BY <1>1, <1>2 DEF IniInv, IniExits, Before
  <2>2. WellFormed /\ file.exists
    BY <1>2, <2>1 DEF IniInv, IniExits, WellFormed
  <2>3. \A i, s, n : Stays(i, s, n) <=> Lasts(i, s, n)
    BY <2>1 DEF Stays, Lasts
  <2>4. \A s \in Sections, n \in Names, v \in Values :
          data[s][n] = v <=>
            \E i \in DOMAIN file.lines :
              Sets(i, s, n) /\ Lasts(i, s, n) /\ file.lines[i].value = v
    BY <2>1, <2>3 DEF IniInv, ReadSoFar, Decides
  <2> QED
    BY <1>2, <2>2, <2>4 DEF SaysWhatItSays, IniInv, IniExits
<1>3. CASE ret # "true"
  BY <1>3 DEF SaysWhatItSays, IniInv, IniExits
<1> QED
  BY <1>2, <1>3
-----------------------------------------------------------------------------
\* read_ini() delivers exactly what a well-formed file says, refuses any other, and
\* leaves the file closed.
THEOREM IniFileDelivered == ASSUME IniAssumption PROVE IniSpec => []SaysWhatItSays
<1>1. IniInit => IniInv
  BY NothingRead
<1>2. IniInv /\ [IniNext]_(iniVars) => IniInv'
  <2> SUFFICES ASSUME IniInv, [IniNext]_(iniVars) PROVE IniInv'
    OBVIOUS
  <2>1. CASE Open
    BY <2>1, OpenKeeps
  <2>2. CASE ReadLine
    BY <2>2, SkipKeeps, TitleKeeps, UnclosedKeeps, AssignKeeps DEF ReadLine
  <2>3. CASE End
    BY <2>3, EndKeeps
  <2>4. CASE UNCHANGED iniVars
    BY <2>4, StutterKeeps
  <2> QED
    BY <2>1, <2>2, <2>3, <2>4 DEF IniNext
<1>3. IniInv => SaysWhatItSays
  BY ReadAll
<1> QED
  BY <1>1, <1>2, <1>3, PTL DEF IniSpec
-----------------------------------------------------------------------------
(***************************************************************************)
(* The query: what urlencode() makes of a text, then the fields of what    *)
(* the loop has written.                                                   *)
(***************************************************************************)
\* A set of numbers that is not empty has a smallest one.
LEMMA SmallestOf ==
  ASSUME NEW S \in SUBSET Nat, S # {}
  PROVE  \E k \in S : \A j \in S : k <= j
<1> DEFINE R == OpToRel(<, Nat)
<1>1. IsWellFoundedOn(R, Nat)
  BY NatLessThanWellFounded
<1>2. \A x, y \in Nat : <<x, y>> \in R <=> x < y
  BY DEF OpToRel
<1> HIDE DEF R
<1>3. PICK k \in S : \A j \in S : ~ (<<j, k>> \in R)
  BY <1>1, WFMin
<1>4. \A j \in S : k <= j
  <2> TAKE j \in S
  <2>1. j \in Nat /\ k \in Nat
    OBVIOUS
  <2>2. ~ (j < k)
    BY <1>2, <1>3, <2>1
  <2> QED
    BY <2>1, <2>2
<1> QED
  BY <1>4

\* The two parts of a concatenation, and the parts of the first one.
LEMMA Halves ==
  ASSUME NEW T, NEW u \in Seq(T), NEW v \in Seq(T)
  PROVE  /\ SubSeq(u \o v, 1, Len(u)) = u
         /\ SubSeq(u \o v, Len(u) + 1, Len(u) + Len(v)) = v
         /\ \A m, n \in Nat : 1 <= m /\ n <= Len(u) => SubSeq(u \o v, m, n) = SubSeq(u, m, n)
<1> DEFINE w == u \o v
<1>1. /\ w \in Seq(T) /\ Len(w) = Len(u) + Len(v) /\ Len(u) \in Nat /\ Len(v) \in Nat
      /\ \A i \in 1 .. Len(u) + Len(v) : w[i] = IF i <= Len(u) THEN u[i] ELSE v[i - Len(u)]
  BY ConcatProperties, LenProperties
<1>2. /\ \A i \in 1 .. Len(u) : u[i] \in T
      /\ \A i \in 1 .. Len(v) : v[i] \in T
      /\ \A i \in 1 .. Len(w) : w[i] \in T
  BY <1>1, ElementOfSeq
<1> HIDE DEF w
<1>3. SubSeq(w, Len(u) + 1, Len(u) + Len(v)) = v
  <2> DEFINE x == SubSeq(w, Len(u) + 1, Len(u) + Len(v))
  <2>1. \A i \in Len(u) + 1 .. Len(u) + Len(v) : w[i] \in T
    BY <1>1, <1>2
  <2>2. /\ x \in Seq(T)
        /\ Len(x) = IF Len(u) + 1 <= Len(u) + Len(v) THEN Len(u) + Len(v) - (Len(u) + 1) + 1 ELSE 0
        /\ \A i \in 1 .. Len(u) + Len(v) - (Len(u) + 1) + 1 : x[i] = w[Len(u) + 1 + i - 1]
    BY <1>1, <2>1, SubSeqProperties
  <2> HIDE DEF x
  <2>3. Len(x) = Len(v)
    BY <1>1, <2>2
  <2>4. \A i \in 1 .. Len(x) : x[i] = v[i]
    <3> TAKE i \in 1 .. Len(x)
    <3>1. i \in 1 .. Len(v) /\ i \in 1 .. Len(u) + Len(v) - (Len(u) + 1) + 1
      BY <1>1, <2>3
    <3>2. /\ Len(u) + 1 + i - 1 = Len(u) + i /\ Len(u) + i \in 1 .. Len(u) + Len(v)
          /\ ~ (Len(u) + i <= Len(u)) /\ Len(u) + i - Len(u) = i
      BY <1>1, <3>1
    <3>3. w[Len(u) + i] = v[Len(u) + i - Len(u)]
      BY <1>1, <3>2
    <3> QED
      BY <2>2, <3>1, <3>2, <3>3
  <2>5. x = v
    BY <2>2, <2>3, <2>4, SeqEqual
  <2> QED
    BY <2>5 DEF x
<1>4. ASSUME NEW m \in Nat, NEW n \in Nat, 1 <= m, n <= Len(u)
      PROVE  SubSeq(w, m, n) = SubSeq(u, m, n)
  <2> DEFINE x == SubSeq(w, m, n)
             y == SubSeq(u, m, n)
  <2>1. \A i \in m .. n : i \in 1 .. Len(u) /\ i \in 1 .. Len(w) /\ i \in 1 .. Len(u) + Len(v) /\ i <= Len(u)
    BY <1>1, <1>4
  <2>2. \A i \in m .. n : w[i] = u[i] /\ w[i] \in T /\ u[i] \in T
    BY <1>1, <1>2, <2>1
  <2>3. /\ x \in Seq(T) /\ Len(x) = IF m <= n THEN n - m + 1 ELSE 0
        /\ \A i \in 1 .. n - m + 1 : x[i] = w[m + i - 1]
    BY <2>2, SubSeqProperties
  <2>4. /\ y \in Seq(T) /\ Len(y) = IF m <= n THEN n - m + 1 ELSE 0
        /\ \A i \in 1 .. n - m + 1 : y[i] = u[m + i - 1]
    BY <2>2, SubSeqProperties
  <2> HIDE DEF x, y
  <2>5. \A i \in 1 .. Len(x) : x[i] = y[i]
    <3> TAKE i \in 1 .. Len(x)
    <3>1. i \in 1 .. n - m + 1 /\ m + i - 1 \in m .. n
      BY <2>3, LenProperties
    <3> QED
      BY <2>2, <2>3, <2>4, <3>1
  <2>6. Len(x) = Len(y)
    BY <2>3, <2>4
  <2>7. x = y
    BY <2>3, <2>4, <2>5, <2>6, SeqEqual
  <2> QED
    BY <2>7 DEF x, y
<1>5. SubSeq(u, 1, Len(u)) = u
  BY SubSeqFull
<1>6. SubSeq(w, 1, Len(u)) = u
  BY <1>1, <1>4, <1>5
<1> QED
  BY <1>3, <1>4, <1>6 DEF w

\* FlattenSeq() goes through its parts one by one.
LEMMA Flattened ==
  ASSUME NEW ss, Len(ss) \in Nat, Len(ss) # 0
  PROVE  \E f : /\ f = [i \in 1 .. Len(ss) |-> IF i = 1 THEN ss[i] ELSE f[i - 1] \o ss[i]]
                /\ FlattenSeq(ss) = f[Len(ss)]
<1> DEFINE Flat(n, f) == f = [i \in 1 .. n |-> IF i = 1 THEN ss[i] ELSE f[i - 1] \o ss[i]]
           Short == {n \in Nat : ~ \E f : Flat(n, f)}
<1>1. Short = {}
  <2> SUFFICES ASSUME Short # {} PROVE FALSE
    OBVIOUS
  <2>1. PICK n \in Short : \A m \in Short : n <= m
    BY SmallestOf
  <2>2. n \in Nat /\ ~ \E f : Flat(n, f)
    BY <2>1
  <2>3. n # 0
    <3> SUFFICES ASSUME n = 0 PROVE FALSE
      OBVIOUS
    <3>1. 1 .. 0 = {}
      OBVIOUS
    <3>2. Flat(0, [i \in {} |-> i])
      BY <3>1
    <3> QED
      BY <2>2, <3>2
  <2>4. n - 1 \in Nat /\ ~ (n <= n - 1)
    BY <2>2, <2>3
  <2>5. PICK f : Flat(n - 1, f)
    BY <2>1, <2>4
  <2> DEFINE g == [i \in 1 .. n |-> IF i = n THEN (IF i = 1 THEN ss[i] ELSE f[i - 1] \o ss[i]) ELSE f[i]]
  <2>6. \A i \in 1 .. n : g[i] = IF i = 1 THEN ss[i] ELSE g[i - 1] \o ss[i]
    <3> TAKE i \in 1 .. n
    <3>1. i # 1 => i - 1 \in 1 .. n /\ i - 1 # n
      BY <2>2
    <3>2. i # 1 => g[i - 1] = f[i - 1]
      BY <3>1
    <3>3. CASE i = n
      BY <3>2, <3>3
    <3>4. CASE i # n
      <4>1. i \in 1 .. n - 1 /\ g[i] = f[i]
        BY <2>2, <3>4
      <4>2. f[i] = IF i = 1 THEN ss[i] ELSE f[i - 1] \o ss[i]
        BY <2>5, <4>1
      <4> QED
        BY <3>2, <4>1, <4>2
    <3> QED
      BY <3>3, <3>4
  <2>7. DOMAIN g = 1 .. n /\ g = [i \in 1 .. n |-> g[i]]
    OBVIOUS
  <2> HIDE DEF g
  <2>8. Flat(n, g)
    BY <2>6, <2>7
  <2> QED
    BY <2>2, <2>8
<1>2. \E f : Flat(Len(ss), f)
  BY <1>1
<1> DEFINE f == CHOOSE f : Flat(Len(ss), f)
<1>3. Flat(Len(ss), f)
  BY <1>2
<1>4. FlattenSeq(ss) = f[Len(ss)]
  BY DEF FlattenSeq
<1> QED
  BY <1>3, <1>4

\* One more character is written behind a text.
LEMMA WritesMore ==
  ASSUME NEW T, NEW u \in Seq(T), NEW v \in Seq(T), NEW t \in Seq(Characters),
         NEW c \in Characters, Writes(u, t), IsCode(v, c), v # <<>>
  PROVE  Writes(u \o v, Append(t, c))
<1>1. PICK ends \in [0 .. Len(t) -> 0 .. Len(u)] :
        /\ ends[0] = 0 /\ ends[Len(t)] = Len(u)
        /\ \A i \in DOMAIN t : IsCode(SubSeq(u, ends[i - 1] + 1, ends[i]), t[i])
  BY DEF Writes
<1>2. /\ Len(u) \in Nat /\ Len(v) \in Nat /\ Len(t) \in Nat
      /\ DOMAIN t = 1 .. Len(t)
      /\ Len(u \o v) = Len(u) + Len(v)
  BY LenProperties, ConcatProperties
<1>3. /\ Append(t, c) \in Seq(Characters) /\ Len(Append(t, c)) = Len(t) + 1
      /\ \A i \in 1 .. Len(t) : Append(t, c)[i] = t[i]
      /\ Append(t, c)[Len(t) + 1] = c
      /\ DOMAIN Append(t, c) = 1 .. Len(t) + 1
  BY AppendProperties, LenProperties
<1> DEFINE more == [i \in 0 .. Len(t) + 1 |-> IF i = Len(t) + 1 THEN Len(u) + Len(v) ELSE ends[i]]
<1>4. more \in [0 .. Len(t) + 1 -> 0 .. Len(u) + Len(v)]
  BY <1>1, <1>2
<1>5. /\ \A i \in 0 .. Len(t) : more[i] = ends[i]
      /\ more[Len(t) + 1] = Len(u) + Len(v)
  BY <1>2
<1> HIDE DEF more
<1>6. ASSUME NEW i \in 1 .. Len(t)
      PROVE  IsCode(SubSeq(u \o v, more[i - 1] + 1, more[i]), Append(t, c)[i])
  <2>1. i \in 0 .. Len(t) /\ i - 1 \in 0 .. Len(t)
    BY <1>2
  <2>2. more[i - 1] = ends[i - 1] /\ more[i] = ends[i]
    BY <1>5, <2>1
  <2>3. ends[i] \in 0 .. Len(u) /\ ends[i - 1] \in 0 .. Len(u)
    BY <1>1, <2>1
  <2>4. ends[i] \in Nat /\ ends[i] <= Len(u) /\ ends[i - 1] + 1 \in Nat /\ 1 <= ends[i - 1] + 1
    BY <1>2, <2>3
  <2>5. SubSeq(u \o v, ends[i - 1] + 1, ends[i]) = SubSeq(u, ends[i - 1] + 1, ends[i])
    <3> DEFINE a == ends[i - 1] + 1
               b == ends[i]
    <3>1. a \in Nat /\ b \in Nat /\ 1 <= a /\ b <= Len(u)
      BY <2>4
    <3> HIDE DEF a, b
    <3>2. SubSeq(u \o v, a, b) = SubSeq(u, a, b)
      BY <3>1, Halves
    <3> QED
      BY <3>2 DEF a, b
  <2> QED
    BY <1>1, <1>2, <1>3, <2>2, <2>5
<1>7. IsCode(SubSeq(u \o v, more[Len(t) + 1 - 1] + 1, more[Len(t) + 1]), Append(t, c)[Len(t) + 1])
  <2>1. Len(t) + 1 - 1 = Len(t) /\ Len(t) \in 0 .. Len(t)
    BY <1>2
  <2>2. more[Len(t)] = Len(u)
    BY <1>1, <1>5, <2>1
  <2>3. SubSeq(u \o v, Len(u) + 1, Len(u) + Len(v)) = v
    BY Halves
  <2> QED
    BY <1>3, <1>5, <2>1, <2>2, <2>3
<1>8. \A i \in DOMAIN Append(t, c) :
        IsCode(SubSeq(u \o v, more[i - 1] + 1, more[i]), Append(t, c)[i])
  <2>1. \A i \in 1 .. Len(t) + 1 : i \in 1 .. Len(t) \/ i = Len(t) + 1
    BY <1>2
  <2> QED
    BY <1>3, <1>6, <1>7, <2>1
<1>9. more[0] = 0 /\ more[Len(Append(t, c))] = Len(u \o v)
  BY <1>1, <1>2, <1>3, <1>5
<1>10. more \in [0 .. Len(Append(t, c)) -> 0 .. Len(u \o v)]
  BY <1>2, <1>3, <1>4
<1> QED
  BY <1>8, <1>9, <1>10 DEF Writes

Codes == Plain \cup {Percent}
Letters == Codes \cup {Equals, And}

LEMMA EncodedIsCode ==
  ASSUME UrlAssumption, NEW c \in Characters, c \notin Wide
  PROVE  Encoded(c) \in Seq(Codes) /\ Encoded(c) # <<>> /\ IsCode(Encoded(c), c)
<1>1. CASE c \in Plain
  <2>1. Encoded(c) = <<c>> /\ c \in Codes
    BY <1>1 DEF Encoded, Codes
  <2> QED
    BY <1>1, <2>1 DEF IsCode
<1>2. CASE c \notin Plain
  <2>1. c \in DOMAIN Hex /\ Hex[c] \in Plain \X Plain
    BY <1>2 DEF Characters, UrlAssumption
  <2>2. Hex[c][1] \in Codes /\ Hex[c][2] \in Codes /\ Percent \in Codes
    BY <2>1 DEF Codes
  <2>3. Encoded(c) = <<Percent, Hex[c][1], Hex[c][2]>>
    BY <1>2 DEF Encoded
  <2> QED
    BY <2>1, <2>2, <2>3 DEF IsCode
<1> QED
  BY <1>1, <1>2

LEMMA NothingWritten == Writes(<<>>, <<>>)
<1> DEFINE ends == [i \in 0 .. 0 |-> 0]
<1>1. Len(<<>>) = 0 /\ DOMAIN <<>> = {}
  OBVIOUS
<1>2. ends \in [0 .. 0 -> 0 .. 0] /\ ends[0] = 0
  OBVIOUS
<1> HIDE DEF ends
<1> QED
  BY <1>1, <1>2 DEF Writes

\* urlencode() writes the whole text, and no sign of the query among it.
LEMMA Encodes ==
  ASSUME UrlAssumption, NEW s \in Seq(Characters), ~Overflows(s)
  PROVE  urlencode(s) \in Seq(Codes) /\ Writes(urlencode(s), s)
<1> DEFINE n == Len(s)
           ss == [i \in DOMAIN s |-> Encoded(s[i])]
<1>1. n \in Nat /\ DOMAIN s = 1 .. n /\ \A i \in 1 .. n : s[i] \in Characters
  BY LenProperties, ElementOfSeq
<1>2. \A i \in 1 .. n :
        Encoded(s[i]) \in Seq(Codes) /\ Encoded(s[i]) # <<>> /\ IsCode(Encoded(s[i]), s[i])
  <2> TAKE i \in 1 .. n
  <2>1. s[i] \in Characters /\ s[i] \notin Wide
    BY <1>1 DEF Overflows
  <2> QED
    BY <2>1, EncodedIsCode
<1>3. Len(ss) = n /\ \A i \in 1 .. n : ss[i] = Encoded(s[i])
  BY <1>1
<1>4. urlencode(s) = FlattenSeq(ss)
  BY DEF urlencode
<1> HIDE DEF ss
<1>5. CASE n = 0
  <2>1. s = <<>>
    BY <1>5, EmptySeq
  <2>2. ss = <<>>
    BY <1>5, <1>1 DEF ss
  <2>3. FlattenSeq(ss) = <<>>
    BY <2>2 DEF FlattenSeq
  <2> QED
    BY <1>4, <2>1, <2>3, NothingWritten, EmptySeq
<1>6. CASE n # 0
  <2>1. PICK f :
          /\ f = [i \in 1 .. Len(ss) |-> IF i = 1 THEN ss[i] ELSE f[i - 1] \o ss[i]]
          /\ FlattenSeq(ss) = f[Len(ss)]
    BY <1>1, <1>3, <1>6, Flattened
  <2>2. \A i \in 1 .. n : f[i] = IF i = 1 THEN ss[i] ELSE f[i - 1] \o ss[i]
    BY <1>3, <2>1
  <2> DEFINE Good(i) == f[i] \in Seq(Codes) /\ Writes(f[i], SubSeq(s, 1, i))
             Bad == {i \in 1 .. n : ~Good(i)}
  <2>3. Bad = {}
    <3> SUFFICES ASSUME Bad # {} PROVE FALSE
      OBVIOUS
    <3>1. Bad \in SUBSET Nat
      BY <1>1
    <3>2. PICK i \in Bad : \A j \in Bad : i <= j
      BY <3>1, SmallestOf
    <3>3. i \in 1 .. n /\ ~Good(i)
      BY <3>2
    <3> DEFINE t == SubSeq(s, 1, i - 1)
               u == IF i = 1 THEN <<>> ELSE f[i - 1]
    <3>4. u \in Seq(Codes) /\ Writes(u, t)
      <4>1. CASE i = 1
        <5>1. t = <<>>
          <6>1. 1 \in Int /\ 0 \in Int /\ 0 < 1 /\ i - 1 = 0
            BY <4>1
          <6> QED
            BY <6>1, SubSeqEmpty
        <5> QED
          BY <4>1, <5>1, NothingWritten, EmptySeq
      <4>2. CASE i # 1
        <5>1. i - 1 \in 1 .. n /\ ~ (i <= i - 1)
          BY <1>1, <3>3, <4>2
        <5>2. i - 1 \notin Bad
          BY <3>2, <5>1
        <5>3. Good(i - 1)
          BY <5>1, <5>2
        <5> QED
          BY <4>2, <5>3
      <4> QED
        BY <4>1, <4>2
    <3>5. t \in Seq(Characters) /\ Append(t, s[i]) = SubSeq(s, 1, i)
      <4> DEFINE m == i - 1
      <4>1. m \in Nat /\ i \in Nat /\ 1 <= i /\ i <= n /\ i = m + 1
        BY <1>1, <3>3
      <4>2. \A j \in 1 .. i : j \in 1 .. n
        BY <1>1, <4>1
      <4>3. (\A j \in 1 .. i : s[j] \in Characters) /\ (\A j \in 1 .. m : s[j] \in Characters)
        BY <1>1, <4>1, <4>2
      <4>4. /\ SubSeq(s, 1, m) \in Seq(Characters)
            /\ Len(SubSeq(s, 1, m)) = IF 1 <= m THEN m - 1 + 1 ELSE 0
            /\ \A j \in 1 .. m - 1 + 1 : SubSeq(s, 1, m)[j] = s[1 + j - 1]
        BY <4>1, <4>3, SubSeqProperties
      <4>5. /\ SubSeq(s, 1, i) \in Seq(Characters)
            /\ Len(SubSeq(s, 1, i)) = IF 1 <= i THEN i - 1 + 1 ELSE 0
            /\ \A j \in 1 .. i - 1 + 1 : SubSeq(s, 1, i)[j] = s[1 + j - 1]
        BY <4>1, <4>3, SubSeqProperties
      <4>6. t = SubSeq(s, 1, m)
        OBVIOUS
      <4> HIDE DEF m, t
      <4>7. Len(t) = m /\ t \in Seq(Characters) /\ \A j \in 1 .. m : t[j] = s[j]
        BY <4>1, <4>4, <4>6
      <4>8. Len(SubSeq(s, 1, i)) = m + 1 /\ \A j \in 1 .. m + 1 : SubSeq(s, 1, i)[j] = s[j]
        BY <4>1, <4>5
      <4>9. s[i] \in Characters
        BY <1>1, <3>3
      <4>10. /\ Append(t, s[i]) \in Seq(Characters) /\ Len(Append(t, s[i])) = m + 1
             /\ \A j \in 1 .. m : Append(t, s[i])[j] = s[j]
             /\ Append(t, s[i])[m + 1] = s[i]
        BY <4>7, <4>9, AppendProperties
      <4>11. \A j \in 1 .. m + 1 : Append(t, s[i])[j] = SubSeq(s, 1, i)[j]
        <5> TAKE j \in 1 .. m + 1
        <5>1. j \in 1 .. m \/ (j = m + 1 /\ j = i)
          BY <4>1
        <5> QED
          BY <4>8, <4>10, <5>1
      <4>12. Append(t, s[i]) = SubSeq(s, 1, i)
        BY <4>5, <4>8, <4>10, <4>11, SeqEqual
      <4> QED
        BY <4>7, <4>12
    <3>6. f[i] = u \o Encoded(s[i])
      <4>1. CASE i = 1
        <5>1. f[i] = ss[i] /\ ss[i] = Encoded(s[i]) /\ Encoded(s[i]) \in Seq(Codes)
          BY <1>2, <1>3, <2>2, <3>3, <4>1
        <5> QED
          BY <4>1, <5>1, ConcatEmptySeq
      <4>2. CASE i # 1
        BY <1>3, <2>2, <3>3, <4>2
      <4> QED
        BY <4>1, <4>2
    <3> HIDE DEF t, u
    <3>7. /\ Encoded(s[i]) \in Seq(Codes) /\ Encoded(s[i]) # <<>> /\ IsCode(Encoded(s[i]), s[i])
          /\ s[i] \in Characters
      BY <1>1, <1>2, <3>3
    <3>8. Writes(u \o Encoded(s[i]), Append(t, s[i]))
      BY <3>4, <3>5, <3>7, WritesMore
    <3>9. u \o Encoded(s[i]) \in Seq(Codes)
      BY <3>4, <3>7, ConcatProperties
    <3> QED
      BY <3>3, <3>5, <3>6, <3>8, <3>9
  <2>4. n \in 1 .. n
    BY <1>1, <1>6
  <2>5. Good(n)
    BY <2>3, <2>4
  <2>6. SubSeq(s, 1, n) = s
    BY SubSeqFull
  <2> QED
    BY <1>3, <1>4, <2>1, <2>5, <2>6
<1> QED
  BY <1>5, <1>6

\* The key, an equals sign and the value are a field.
LEMMA OneField ==
  ASSUME UrlAssumption, NEW u \in Seq(Codes), NEW v \in Seq(Codes), NEW k,
         Writes(u, k), Writes(v, pairs[k])
  PROVE  LET f == (u \o <<Equals>>) \o v
         IN  f \in Seq(Letters) /\ Signs(f, And) = {} /\ IsField(f, k)
<1> DEFINE h == u \o <<Equals>>
           f == h \o v
           e == Len(u) + 1
<1>1. Equals \in Letters /\ Codes \subseteq Letters /\ And \in Letters
  BY DEF Letters
<1>2. Equals \notin Codes /\ And \notin Codes /\ And # Equals
  BY DEF Codes, UrlAssumption, And, Equals, Percent
<1>3. u \in Seq(Letters) /\ v \in Seq(Letters) /\ <<Equals>> \in Seq(Letters)
  BY <1>1, SeqMonotonic
<1>4. /\ Len(u) \in Nat /\ Len(v) \in Nat /\ Len(<<Equals>>) = 1
      /\ \A x \in 1 .. Len(u) : u[x] \in Codes
      /\ \A x \in 1 .. Len(v) : v[x] \in Codes
  BY LenProperties, ElementOfSeq
<1>5. /\ h \in Seq(Letters) /\ Len(h) = Len(u) + 1
      /\ \A x \in 1 .. Len(u) + 1 : h[x] = IF x <= Len(u) THEN u[x] ELSE <<Equals>>[x - Len(u)]
  BY <1>3, <1>4, ConcatProperties
<1>6. /\ f \in Seq(Letters) /\ Len(f) = Len(h) + Len(v)
      /\ \A x \in 1 .. Len(h) + Len(v) : f[x] = IF x <= Len(h) THEN h[x] ELSE v[x - Len(h)]
  BY <1>3, <1>5, ConcatProperties
<1>7. h[e] = Equals
  <2>1. e \in 1 .. Len(u) + 1 /\ ~ (e <= Len(u)) /\ e - Len(u) = 1
    BY <1>4
  <2>2. h[e] = <<Equals>>[1]
    BY <1>5, <2>1
  <2> QED
    BY <2>2
<1>8. \A x \in 1 .. Len(u) : h[x] = u[x]
  BY <1>4, <1>5
<1> HIDE DEF h
<1>9. DOMAIN f = 1 .. Len(f) /\ Len(f) = e + Len(v) /\ e \in Nat /\ e \in 1 .. Len(f)
  BY <1>4, <1>5, <1>6, LenProperties
<1>10. \A x \in 1 .. Len(f) :
         \/ x \in 1 .. Len(u) /\ f[x] = u[x]
         \/ x = e /\ f[x] = Equals
         \/ x - e \in 1 .. Len(v) /\ f[x] = v[x - e]
  <2> TAKE x \in 1 .. Len(f)
  <2>1. x \in 1 .. Len(h) + Len(v)
    BY <1>6
  <2>2. x \in 1 .. Len(u) \/ x = e \/ (x - e \in 1 .. Len(v) /\ ~ (x <= Len(h)) /\ x - Len(h) = x - e)
    BY <1>4, <1>5, <2>1
  <2>3. ASSUME x \in 1 .. Len(u) PROVE f[x] = u[x]
    <3>1. x <= Len(h)
      BY <1>4, <1>5, <2>3
    <3> QED
      BY <1>6, <1>8, <2>1, <2>3, <3>1
  <2>4. ASSUME x = e PROVE f[x] = Equals
    <3>1. x <= Len(h)
      BY <1>4, <1>5, <2>4
    <3> QED
      BY <1>6, <1>7, <2>1, <2>4, <3>1
  <2>5. ASSUME ~ (x <= Len(h)), x - Len(h) = x - e PROVE f[x] = v[x - e]
    <3>1. f[x] = v[x - Len(h)]
      BY <1>6, <2>1, <2>5
    <3> QED
      BY <2>5, <3>1
  <2> QED
    BY <2>2, <2>3, <2>4, <2>5
<1> HIDE DEF e
<1>11. \A x \in 1 .. Len(f) : f[x] # And /\ (f[x] = Equals <=> x = e)
  <2> TAKE x \in 1 .. Len(f)
  <2>1. CASE x = e
    <3>1. f[x] = Equals
      <4>1. f[e] = Equals
        BY <1>5, <1>6, <1>7, <1>9, <1>4 DEF e
      <4> QED
        BY <2>1, <4>1
    <3> QED
      BY <1>2, <2>1, <3>1
  <2>2. CASE x # e
    <3>1. f[x] \in Codes
      BY <1>4, <1>10, <2>2
    <3> QED
      BY <1>2, <2>2, <3>1
  <2> QED
    BY <2>1, <2>2
<1>12. Signs(f, And) = {} /\ Signs(f, Equals) = {e}
  BY <1>9, <1>11 DEF Signs
<1>13. SubSeq(f, 1, e - 1) = u
  <2>1. e - 1 = Len(u) /\ 1 \in Nat /\ Len(u) \in Nat /\ Len(u) <= Len(h)
    BY <1>4, <1>5 DEF e
  <2>2. SubSeq(f, 1, Len(u)) = SubSeq(h, 1, Len(u))
    BY <1>3, <1>5, <2>1, Halves
  <2>3. SubSeq(h, 1, Len(u)) = u
    BY <1>3, Halves DEF h
  <2> QED
    BY <2>1, <2>2, <2>3
<1>14. SubSeq(f, e + 1, Len(f)) = v
  <2>1. e = Len(h)
    BY <1>5 DEF e
  <2>2. SubSeq(f, Len(h) + 1, Len(h) + Len(v)) = v
    BY <1>3, <1>5, Halves
  <2> QED
    BY <1>6, <2>1, <2>2
<1>15. IsField(f, k)
  BY <1>9, <1>12, <1>13, <1>14 DEF IsField
<1> QED
  BY <1>6, <1>12, <1>15 DEF h

\* One more field and the ampersand behind it.
LEMMA BehindTheRest ==
  ASSUME NEW b \in Seq(Letters), NEW f \in Seq(Letters), Signs(f, And) = {}
  PROVE  LET w == (b \o f) \o <<And>>
         IN  /\ w \in Seq(Letters) /\ Len(w) = Len(b) + Len(f) + 1
             /\ w[Len(w)] = And /\ Signs(w, And) = Signs(b, And) \cup {Len(w)}
             /\ SubSeq(w, Len(b) + 1, Len(w) - 1) = f
             /\ \A m, n \in Nat : 1 <= m /\ n <= Len(b) => SubSeq(w, m, n) = SubSeq(b, m, n)
<1> DEFINE h == b \o f
           w == h \o <<And>>
<1>1. And \in Letters /\ <<And>> \in Seq(Letters) /\ Len(<<And>>) = 1 /\ <<And>>[1] = And
  BY DEF Letters
<1>2. /\ Len(b) \in Nat /\ Len(f) \in Nat /\ DOMAIN b = 1 .. Len(b) /\ DOMAIN f = 1 .. Len(f)
  BY LenProperties
<1>3. /\ h \in Seq(Letters) /\ Len(h) = Len(b) + Len(f)
      /\ \A x \in 1 .. Len(b) + Len(f) : h[x] = IF x <= Len(b) THEN b[x] ELSE f[x - Len(b)]
  BY ConcatProperties
<1>4. /\ w \in Seq(Letters) /\ Len(w) = Len(h) + 1
      /\ \A x \in 1 .. Len(h) + 1 : w[x] = IF x <= Len(h) THEN h[x] ELSE <<And>>[x - Len(h)]
  BY <1>1, <1>3, ConcatProperties
<1>5. DOMAIN w = 1 .. Len(w)
  BY <1>4, LenProperties
<1> HIDE DEF h
<1>6. w[Len(w)] = And
  <2>1. Len(w) \in 1 .. Len(h) + 1 /\ ~ (Len(w) <= Len(h)) /\ Len(w) - Len(h) = 1
    BY <1>2, <1>3, <1>4
  <2>2. w[Len(w)] = <<And>>[Len(w) - Len(h)]
    BY <1>4, <2>1
  <2> QED
    BY <1>1, <2>1, <2>2
<1> HIDE DEF w
<1>7. ASSUME NEW x \in 1 .. Len(h)
      PROVE  w[x] = And <=> x \in 1 .. Len(b) /\ b[x] = And
  <2>1. x \in 1 .. Len(h) + 1 /\ x <= Len(h) /\ x \in 1 .. Len(b) + Len(f)
    BY <1>2, <1>3
  <2>2. w[x] = h[x] /\ h[x] = IF x <= Len(b) THEN b[x] ELSE f[x - Len(b)]
    BY <1>3, <1>4, <2>1
  <2>3. CASE x <= Len(b)
    <3>1. x \in 1 .. Len(b)
      BY <1>2, <2>3
    <3> QED
      BY <2>2, <2>3, <3>1
  <2>4. CASE ~ (x <= Len(b))
    <3>1. x - Len(b) \in 1 .. Len(f) /\ x \notin 1 .. Len(b)
      BY <1>2, <1>3, <2>4
    <3>2. f[x - Len(b)] # And
      BY <1>2, <3>1 DEF Signs
    <3> QED
      BY <2>2, <2>4, <3>1, <3>2
  <2> QED
    BY <2>3, <2>4
<1>8. Signs(w, And) = Signs(b, And) \cup {Len(w)}
  <2>1. \A x : x \in 1 .. Len(w) <=> x \in 1 .. Len(h) \/ x = Len(w)
    BY <1>2, <1>3, <1>4
  <2>2. \A x \in 1 .. Len(b) : x \in 1 .. Len(h)
    BY <1>2, <1>3
  <2> QED
    BY <1>2, <1>5, <1>6, <1>7, <2>1, <2>2 DEF Signs
<1>9. SubSeq(w, Len(b) + 1, Len(w) - 1) = f
  <2>1. SubSeq(h, Len(b) + 1, Len(b) + Len(f)) = f
    BY Halves DEF h
  <2> DEFINE m == Len(b) + 1
             n == Len(b) + Len(f)
  <2>2. m \in Nat /\ n \in Nat /\ 1 <= m /\ n <= Len(h) /\ Len(w) - 1 = n
    BY <1>2, <1>3, <1>4
  <2> HIDE DEF m, n
  <2>3. SubSeq(w, m, n) = SubSeq(h, m, n)
    BY <1>1, <1>3, <2>2, Halves DEF w
  <2> QED
    BY <2>1, <2>2, <2>3 DEF m, n
<1>10. ASSUME NEW m \in Nat, NEW n \in Nat, 1 <= m, n <= Len(b)
       PROVE  SubSeq(w, m, n) = SubSeq(b, m, n)
  <2>1. n <= Len(h)
    BY <1>2, <1>3, <1>10
  <2>2. SubSeq(w, m, n) = SubSeq(h, m, n)
    BY <1>1, <1>3, <1>10, <2>1, Halves DEF w
  <2>3. SubSeq(h, m, n) = SubSeq(b, m, n)
    BY <1>10, Halves DEF h
  <2> QED
    BY <2>2, <2>3
<1>11. Len(w) = Len(b) + Len(f) + 1
  BY <1>2, <1>3, <1>4
<1> QED
  BY <1>4, <1>6, <1>8, <1>9, <1>10, <1>11 DEF w, h

(***************************************************************************)
(* The query that the loop has written: the fields of b between zero and   *)
(* its ampersands are those of the keys of D, and of no others.            *)
(***************************************************************************)
Marks(b) == {0} \cup Signs(b, And)
Part(b, i, j) == SubSeq(b, i + 1, j - 1)
Holds(b, D) ==
  /\ \A i, j \in Marks(b) :
       Neighbours(Marks(b), i, j) => \E k \in D : IsField(Part(b, i, j), k)
  /\ \A k \in D : \E i, j \in Marks(b) :
       Neighbours(Marks(b), i, j) /\ IsField(Part(b, i, j), k)
Closed(b) == b # <<>> => b[Len(b)] = And

LEMMA MarksWithin ==
  ASSUME NEW b \in Seq(Letters), Closed(b)
  PROVE  /\ Len(b) \in Nat /\ Len(b) \in Marks(b)
         /\ \A x \in Marks(b) : x \in Nat /\ x <= Len(b)
<1>1. Len(b) \in Nat /\ DOMAIN b = 1 .. Len(b)
  BY LenProperties
<1>2. \A x \in Marks(b) : x \in Nat /\ x <= Len(b)
  BY <1>1 DEF Marks, Signs
<1>3. CASE b = <<>>
  BY <1>1, <1>2, <1>3 DEF Marks
<1>4. CASE b # <<>>
  <2>1. Len(b) \in 1 .. Len(b)
    BY <1>1, <1>4, EmptySeq
  <2> QED
    BY <1>1, <1>2, <1>4, <2>1 DEF Closed, Marks, Signs
<1> QED
  BY <1>3, <1>4

\* A place behind them all is next to the last only.
LEMMA NewNeighbour ==
  ASSUME NEW B \in SUBSET Nat, NEW m \in B, NEW n \in Nat, m < n, \A x \in B : x <= m
  PROVE  /\ Neighbours(B \cup {n}, m, n)
         /\ \A i, j : Neighbours(B \cup {n}, i, j) <=> (Neighbours(B, i, j) \/ (i = m /\ j = n))
<1>1. \A x \in B : x \in Nat /\ x < n /\ x # n
  OBVIOUS
<1>2. Neighbours(B \cup {n}, m, n)
  BY <1>1 DEF Neighbours
<1>3. ASSUME NEW i, NEW j, Neighbours(B, i, j)
      PROVE  Neighbours(B \cup {n}, i, j)
  <2>1. i \in B /\ j \in B /\ j <= n
    BY <1>1, <1>3 DEF Neighbours
  <2> QED
    BY <1>3, <2>1 DEF Neighbours
<1>4. ASSUME NEW i, NEW j, Neighbours(B \cup {n}, i, j)
      PROVE  Neighbours(B, i, j) \/ (i = m /\ j = n)
  <2>1. i \in B \cup {n} /\ j \in B \cup {n} /\ i < j
    BY <1>4 DEF Neighbours
  <2>2. i \in B
    BY <1>1, <2>1
  <2>3. CASE j \in B
    BY <1>4, <2>2, <2>3 DEF Neighbours
  <2>4. CASE j = n
    <3>1. m <= i
      BY <1>1, <1>4, <2>4 DEF Neighbours
    <3>2. i <= m /\ i \in Nat /\ m \in Nat
      BY <2>2
    <3> QED
      BY <2>4, <3>1, <3>2
  <2> QED
    BY <2>1, <2>3, <2>4
<1> QED
  BY <1>2, <1>3, <1>4

\* One more field is held.
LEMMA HoldsOneMore ==
  ASSUME NEW b \in Seq(Letters), Closed(b), NEW f \in Seq(Letters), Signs(f, And) = {},
         NEW D, NEW k, Holds(b, D), IsField(f, k)
  PROVE  LET w == (b \o f) \o <<And>>
         IN  /\ w \in Seq(Letters) /\ Closed(w) /\ Holds(w, D \cup {k})
             /\ Signs(w, And) = Signs(b, And) \cup {Len(w)} /\ Len(w) \notin Signs(b, And)
<1> DEFINE w == (b \o f) \o <<And>>
<1>1. /\ w \in Seq(Letters) /\ Len(w) = Len(b) + Len(f) + 1
      /\ w[Len(w)] = And /\ Signs(w, And) = Signs(b, And) \cup {Len(w)}
      /\ SubSeq(w, Len(b) + 1, Len(w) - 1) = f
      /\ \A m, n \in Nat : 1 <= m /\ n <= Len(b) => SubSeq(w, m, n) = SubSeq(b, m, n)
  BY BehindTheRest
<1> HIDE DEF w
<1>2. /\ Len(b) \in Nat /\ Len(b) \in Marks(b) /\ Len(f) \in Nat
      /\ \A x \in Marks(b) : x \in Nat /\ x <= Len(b)
  BY MarksWithin, LenProperties
<1>3. Len(w) \in Nat /\ Len(b) < Len(w)
  BY <1>1, <1>2
<1>4. Marks(w) = Marks(b) \cup {Len(w)}
  BY <1>1 DEF Marks
<1>5. Marks(b) \in SUBSET Nat
  BY <1>2
<1>6. /\ Neighbours(Marks(w), Len(b), Len(w))
      /\ \A i, j : Neighbours(Marks(w), i, j) <=>
                     (Neighbours(Marks(b), i, j) \/ (i = Len(b) /\ j = Len(w)))
  <2> DEFINE B == Marks(b)
             m == Len(b)
             n == Len(w)
  <2>1. B \in SUBSET Nat /\ m \in B /\ n \in Nat /\ m < n /\ \A x \in B : x <= m
    BY <1>2, <1>3, <1>5
  <2> HIDE DEF B, m, n
  <2>2. /\ Neighbours(B \cup {n}, m, n)
        /\ \A i, j : Neighbours(B \cup {n}, i, j) <=> (Neighbours(B, i, j) \/ (i = m /\ j = n))
    BY <2>1, NewNeighbour
  <2>3. Marks(w) = B \cup {n}
    BY <1>4 DEF B, n
  <2> QED
    BY <2>2, <2>3 DEF B, m, n
<1>7. Part(w, Len(b), Len(w)) = f
  BY <1>1 DEF Part
<1>8. ASSUME NEW i, NEW j, Neighbours(Marks(b), i, j)
      PROVE  Part(w, i, j) = Part(b, i, j)
  <2>1. i \in Marks(b) /\ j \in Marks(b) /\ i < j
    BY <1>8 DEF Neighbours
  <2>2. i \in Nat /\ j \in Nat /\ j <= Len(b)
    BY <1>2, <2>1
  <2> DEFINE m == i + 1
             n == j - 1
  <2>3. m \in Nat /\ n \in Nat /\ 1 <= m /\ n <= Len(b)
    BY <1>2, <2>1, <2>2
  <2> HIDE DEF m, n
  <2>4. SubSeq(w, m, n) = SubSeq(b, m, n)
    BY <1>1, <2>3
  <2> QED
    BY <2>4 DEF Part, m, n
<1>9. ASSUME NEW i, NEW j, Neighbours(Marks(w), i, j)
      PROVE  \E x \in D \cup {k} : IsField(Part(w, i, j), x)
  <2>1. CASE Neighbours(Marks(b), i, j)
    <3>1. i \in Marks(b) /\ j \in Marks(b)
      BY <2>1 DEF Neighbours
    <3>2. PICK x \in D : IsField(Part(b, i, j), x)
      BY <2>1, <3>1 DEF Holds
    <3> QED
      BY <1>8, <2>1, <3>2
  <2>2. CASE i = Len(b) /\ j = Len(w)
    BY <1>7, <2>2
  <2> QED
    BY <1>6, <1>9, <2>1, <2>2
<1>10. ASSUME NEW x \in D \cup {k}
       PROVE  \E i, j \in Marks(w) : Neighbours(Marks(w), i, j) /\ IsField(Part(w, i, j), x)
  <2>1. CASE x \in D
    <3>1. PICK i \in Marks(b), j \in Marks(b) :
            Neighbours(Marks(b), i, j) /\ IsField(Part(b, i, j), x)
      BY <2>1 DEF Holds
    <3>2. i \in Marks(w) /\ j \in Marks(w) /\ Neighbours(Marks(w), i, j)
      BY <1>4, <1>6, <3>1
    <3>3. Part(w, i, j) = Part(b, i, j)
      BY <1>8, <3>1
    <3> QED
      BY <3>1, <3>2, <3>3
  <2>2. CASE x = k
    <3>1. Len(b) \in Marks(w) /\ Len(w) \in Marks(w)
      BY <1>2, <1>4
    <3> QED
      BY <1>6, <1>7, <2>2, <3>1
  <2> QED
    BY <2>1, <2>2
<1>11. Holds(w, D \cup {k})
  BY <1>9, <1>10 DEF Holds
<1>12. Len(w) \notin Signs(b, And)
  BY <1>2, <1>3 DEF Marks
<1> QED
  BY <1>1, <1>11, <1>12 DEF Closed, w

\* Without the last ampersand the fields are the same, between the same bounds.
LEMMA LastMarkGoes ==
  ASSUME NEW b \in Seq(Letters), b # <<>>, Closed(b), NEW D, Holds(b, D)
  PROVE  LET w == SubSeq(b, 1, Len(b) - 1)
         IN  /\ w \in Seq(Letters)
             /\ Signs(w, And) = Signs(b, And) \ {Len(b)} /\ Len(b) \in Signs(b, And)
             /\ \A f \in Fields(w) : \E k \in D : IsField(f, k)
             /\ \A k \in D : \E f \in Fields(w) : IsField(f, k)
<1> DEFINE n == Len(b) - 1
           w == SubSeq(b, 1, n)
<1>1. /\ Len(b) \in Nat /\ Len(b) # 0 /\ DOMAIN b = 1 .. Len(b) /\ b[Len(b)] = And
      /\ \A x \in 1 .. Len(b) : b[x] \in Letters
  BY LenProperties, ElementOfSeq, EmptySeq DEF Closed
<1>2. n \in Nat /\ n + 1 = Len(b) /\ n <= Len(b) /\ Len(b) \in 1 .. Len(b)
  BY <1>1
<1> HIDE DEF n
<1>3. \A x \in 1 .. n : x \in 1 .. Len(b) /\ x # Len(b)
  BY <1>2
<1>4. /\ w \in Seq(Letters) /\ Len(w) = IF 1 <= n THEN n - 1 + 1 ELSE 0
      /\ \A x \in 1 .. n - 1 + 1 : w[x] = b[1 + x - 1]
  <2>1. \A x \in 1 .. n : b[x] \in Letters
    BY <1>1, <1>3
  <2>2. 1 \in Int /\ n \in Int
    BY <1>2
  <2> QED
    BY <2>1, <2>2, SubSeqProperties DEF w
<1> HIDE DEF w
<1>5. Len(w) = n /\ DOMAIN w = 1 .. n /\ \A x \in 1 .. n : w[x] = b[x]
  BY <1>2, <1>4, LenProperties
<1>6. Len(b) \in Signs(b, And)
  BY <1>1, <1>2 DEF Signs
<1>7. Signs(w, And) = Signs(b, And) \ {Len(b)}
  <2>1. \A x : x \in 1 .. n <=> x \in 1 .. Len(b) /\ x # Len(b)
    BY <1>2
  <2> QED
    BY <1>1, <1>5, <2>1 DEF Signs
<1>8. Bounds(w) = Marks(b)
  BY <1>2, <1>5, <1>6, <1>7 DEF Bounds, Marks
<1>9. ASSUME NEW i, NEW j, Neighbours(Marks(b), i, j)
      PROVE  SubSeq(w, i + 1, j - 1) = Part(b, i, j)
  <2>1. i \in Nat /\ j \in Nat /\ j <= Len(b) /\ i < j
    BY <1>9, MarksWithin DEF Neighbours
  <2> DEFINE p == i + 1
             q == j - 1
  <2>2. p \in Nat /\ q \in Nat /\ 1 <= p /\ q <= n
    BY <1>2, <2>1
  <2> HIDE DEF p, q
  <2>3. /\ \A x \in p .. q : x \in 1 .. n
    BY <1>2, <2>2
  <2>4. \A x \in p .. q : w[x] \in Letters /\ b[x] \in Letters /\ w[x] = b[x]
    BY <1>1, <1>3, <1>5, <2>3
  <2>5. /\ SubSeq(w, p, q) \in Seq(Letters)
        /\ Len(SubSeq(w, p, q)) = IF p <= q THEN q - p + 1 ELSE 0
        /\ \A x \in 1 .. q - p + 1 : SubSeq(w, p, q)[x] = w[p + x - 1]
    BY <2>2, <2>4, SubSeqProperties
  <2>6. /\ SubSeq(b, p, q) \in Seq(Letters)
        /\ Len(SubSeq(b, p, q)) = IF p <= q THEN q - p + 1 ELSE 0
        /\ \A x \in 1 .. q - p + 1 : SubSeq(b, p, q)[x] = b[p + x - 1]
    BY <2>2, <2>4, SubSeqProperties
  <2>7. ASSUME NEW x \in 1 .. Len(SubSeq(w, p, q))
        PROVE  SubSeq(w, p, q)[x] = SubSeq(b, p, q)[x]
    <3>1. x \in 1 .. q - p + 1 /\ p + x - 1 \in p .. q
      <4>1. Len(SubSeq(w, p, q)) = 0 \/ Len(SubSeq(w, p, q)) = q - p + 1
        BY <2>5
      <4> QED
        BY <2>2, <4>1
    <3> QED
      BY <2>4, <2>5, <2>6, <3>1
  <2>8. SubSeq(w, p, q) = SubSeq(b, p, q)
    BY <2>5, <2>6, <2>7, SeqEqual
  <2> QED
    BY <2>8 DEF p, q, Part
<1>10. ASSUME NEW f \in Fields(w) PROVE \E k \in D : IsField(f, k)
  <2>1. PICK p \in Bounds(w) \X Bounds(w) :
          Neighbours(Bounds(w), p[1], p[2]) /\ f = SubSeq(w, p[1] + 1, p[2] - 1)
    BY DEF Fields
  <2>2. p[1] \in Marks(b) /\ p[2] \in Marks(b) /\ Neighbours(Marks(b), p[1], p[2])
    BY <1>8, <2>1
  <2>3. f = Part(b, p[1], p[2])
    BY <1>9, <2>1, <2>2
  <2> QED
    BY <2>2, <2>3 DEF Holds
<1>11. ASSUME NEW k \in D PROVE \E f \in Fields(w) : IsField(f, k)
  <2>1. PICK i \in Marks(b), j \in Marks(b) :
          Neighbours(Marks(b), i, j) /\ IsField(Part(b, i, j), k)
    BY DEF Holds
  <2>2. SubSeq(w, i + 1, j - 1) \in Fields(w)
    <3>1. <<i, j>> \in {q \in Bounds(w) \X Bounds(w) : Neighbours(Bounds(w), q[1], q[2])}
      BY <1>8, <2>1
    <3>2. <<i, j>>[1] = i /\ <<i, j>>[2] = j
      OBVIOUS
    <3>3. SubSeq(w, <<i, j>>[1] + 1, <<i, j>>[2] - 1) \in Fields(w)
      BY <3>1 DEF Fields
    <3> QED
      BY <3>2, <3>3
  <2>3. SubSeq(w, i + 1, j - 1) = Part(b, i, j)
    BY <1>9, <2>1
  <2> QED
    BY <2>1, <2>2, <2>3
<1> QED
  BY <1>4, <1>6, <1>7, <1>10, <1>11 DEF w, n

(***************************************************************************)
(* The invariant: in the loop, the fields of what has been written are     *)
(* those of the keys that are done, and as many.                           *)
(***************************************************************************)
Done == DOMAIN pairs \ todo
QueryInv ==
  /\ IsFiniteSet(DOMAIN pairs) /\ DOMAIN pairs \subseteq Seq(Characters)
  /\ pairs \in [DOMAIN pairs -> Seq(Characters)]
  /\ todo \subseteq DOMAIN pairs
  /\ step = "loop" =>
       /\ buf \in Seq(Letters) /\ Closed(buf)
       /\ IsFiniteSet(Signs(buf, And)) /\ Cardinality(Signs(buf, And)) = Cardinality(Done)
       /\ Holds(buf, Done)
  /\ ReadsBack

\* The signs and the fields are those of what the text is.
LEMMA SameFields == Signs(buf, And)' = Signs(buf', And) /\ Fields(buf)' = Fields(buf')
<1>1. Signs(buf, And)' = Signs(buf', And)
  BY DEF Signs
<1>2. Fields(buf)' = Fields(buf')
  BY DEF Fields, Bounds, Neighbours, Signs
<1> QED
  BY <1>1, <1>2

LEMMA TextsAreSequences == ASSUME NEW m \in Nat PROVE Text(m) \subseteq Seq(Characters)
BY DEF Text

LEMMA QueryFirst == ASSUME UrlAssumption, QueryInit PROVE QueryInv
<1>1. MaxPairs \in Nat /\ Text(MaxKey) \subseteq Seq(Characters) /\ Text(MaxValue) \subseteq Seq(Characters)
  BY TextsAreSequences DEF UrlAssumption
<1>0. PICK n \in 0 .. MaxPairs : \E keys \in [1 .. n -> Text(MaxKey)] :
        pairs \in [{keys[x] : x \in DOMAIN keys} -> Text(MaxValue)]
  BY DEF QueryInit, SomeData
<1>2. PICK keys \in [1 .. n -> Text(MaxKey)] :
        pairs \in [{keys[x] : x \in DOMAIN keys} -> Text(MaxValue)]
  BY <1>0
<1> DEFINE K == {keys[x] : x \in 1 .. n}
<1>3. DOMAIN keys = 1 .. n /\ DOMAIN pairs = K /\ pairs \in [K -> Text(MaxValue)]
  BY <1>2
<1>4. IsFiniteSet(1 .. n)
  <2>1. 1 \in Int /\ n \in Int
    BY <1>0, <1>1
  <2> QED
    BY <2>1, FS_Interval
<1>5. IsFiniteSet(K)
  <2>1. keys \in [1 .. n -> K] /\ \A k \in K : \E x \in 1 .. n : keys[x] = k
    BY <1>3
  <2>2. keys \in Surjection(1 .. n, K)
    BY <2>1 DEF Surjection
  <2> HIDE DEF K
  <2> QED
    BY <1>4, <2>2, FS_Surjection
<1>6. K \subseteq Seq(Characters)
  BY <1>1, <1>2
<1> HIDE DEF K
<1>7. pairs \in [DOMAIN pairs -> Seq(Characters)]
  BY <1>1, <1>3
<1>8. todo = DOMAIN pairs /\ buf = <<>> /\ step = "loop"
  BY DEF QueryInit, Unwritten
<1>9. Done = {}
  BY <1>8 DEF Done
<1>10. Signs(buf, And) = {}
  BY <1>8 DEF Signs
<1>11. Marks(buf) = {0} /\ \A i, j : ~Neighbours({0}, i, j)
  BY <1>10 DEF Marks, Neighbours
<1>12. Holds(buf, Done)
  BY <1>9, <1>11 DEF Holds
<1>13. buf \in Seq(Letters) /\ Closed(buf)
  BY <1>8 DEF Closed
<1>14. IsFiniteSet(Signs(buf, And)) /\ Cardinality(Signs(buf, And)) = Cardinality(Done)
  BY <1>9, <1>10, FS_EmptySet
<1>15. ReadsBack
  BY <1>8 DEF ReadsBack
<1> QED
  BY <1>3, <1>5, <1>6, <1>7, <1>8, <1>12, <1>13, <1>14, <1>15 DEF QueryInv

\* A round of the loop.
LEMMA PairKeeps ==
  ASSUME UrlAssumption, QueryInv, NEW k \in todo, Pair(k)
  PROVE  QueryInv'
<1>1. /\ step = "loop" /\ k \in todo /\ todo' = todo \ {k} /\ pairs' = pairs
      /\ k \in DOMAIN pairs /\ k \in Seq(Characters) /\ pairs[k] \in Seq(Characters)
  BY DEF Pair, QueryInv
<1>2. /\ (IsFiniteSet(DOMAIN pairs) /\ DOMAIN pairs \subseteq Seq(Characters))'
      /\ (pairs \in [DOMAIN pairs -> Seq(Characters)])' /\ (todo \subseteq DOMAIN pairs)'
  BY <1>1 DEF QueryInv
<1>3. step' # "done"
  BY <1>1 DEF Pair
<1>4. ReadsBack'
  BY <1>3 DEF ReadsBack
<1>5. CASE Overflows(k) \/ Overflows(pairs[k])
  <2>1. step' = "undefined"
    BY <1>5 DEF Pair
  <2>2. step' # "loop"
    BY <2>1
  <2> QED
    BY <1>2, <1>4, <2>2 DEF QueryInv
<1>6. CASE ~ (Overflows(k) \/ Overflows(pairs[k]))
  <2> DEFINE u == urlencode(k)
             v == urlencode(pairs[k])
             f == (u \o <<Equals>>) \o v
             w == (buf \o f) \o <<And>>
  <2>1. u \in Seq(Codes) /\ v \in Seq(Codes) /\ Writes(u, k) /\ Writes(v, pairs[k])
    BY <1>1, <1>6, Encodes
  <2>2. buf' = buf \o u \o <<Equals>> \o v \o <<And>>
    BY <1>6 DEF Pair
  <2> HIDE DEF u, v
  <2>3. f \in Seq(Letters) /\ Signs(f, And) = {} /\ IsField(f, k)
    BY <2>1, OneField
  <2>4. /\ buf \in Seq(Letters) /\ Closed(buf) /\ Holds(buf, Done)
        /\ IsFiniteSet(Signs(buf, And)) /\ Cardinality(Signs(buf, And)) = Cardinality(Done)
    BY <1>1 DEF QueryInv
  <2>5. buf' = w
    <3>1. u \in Seq(Letters) /\ v \in Seq(Letters) /\ <<Equals>> \in Seq(Letters)
      <4>1. Codes \subseteq Letters /\ Equals \in Letters
        BY DEF Letters
      <4> QED
        BY <2>1, <4>1, SeqMonotonic
    <3>2. u \o <<Equals>> \in Seq(Letters)
      BY <3>1, ConcatProperties
    <3>3. (buf \o u) \o <<Equals>> = buf \o (u \o <<Equals>>)
      BY <2>4, <3>1, ConcatAssociative
    <3>4. (buf \o (u \o <<Equals>>)) \o v = buf \o f
      BY <2>4, <3>1, <3>2, ConcatAssociative
    <3> QED
      BY <2>2, <3>3, <3>4
  <2> HIDE DEF f
  <2>6. /\ w \in Seq(Letters) /\ Closed(w) /\ Holds(w, Done \cup {k})
        /\ Signs(w, And) = Signs(buf, And) \cup {Len(w)} /\ Len(w) \notin Signs(buf, And)
    BY <2>3, <2>4, HoldsOneMore
  <2> HIDE DEF w
  <2>7. Done' = Done \cup {k} /\ k \notin Done
    BY <1>1 DEF Done
  <2>8. IsFiniteSet(Done)
    BY FS_Subset DEF Done, QueryInv
  <2>9. /\ IsFiniteSet(Signs(w, And))
        /\ Cardinality(Signs(w, And)) = Cardinality(Done \cup {k})
    <3>1. /\ IsFiniteSet(Signs(buf, And) \cup {Len(w)})
          /\ Cardinality(Signs(buf, And) \cup {Len(w)}) = Cardinality(Signs(buf, And)) + 1
      BY <2>4, <2>6, FS_AddElement
    <3>2. Cardinality(Done \cup {k}) = Cardinality(Done) + 1
      BY <2>7, <2>8, FS_AddElement
    <3> QED
      BY <2>4, <2>6, <3>1, <3>2
  <2>10. Holds(buf, Done)' <=> Holds(buf', Done')
    BY <1>1 DEF Holds, IsField
  <2>11. /\ (buf \in Seq(Letters) /\ Closed(buf))' /\ Holds(buf', Done')
         /\ (IsFiniteSet(Signs(buf, And)) /\ Cardinality(Signs(buf, And)) = Cardinality(Done))'
    BY <2>5, <2>6, <2>7, <2>9 DEF Closed, Signs
  <2> QED
    BY <1>2, <1>4, <2>10, <2>11 DEF QueryInv
<1> QED
  BY <1>5, <1>6

LEMMA NoKeys ==
  ASSUME NEW T, NEW p, p \in [DOMAIN p -> T]
  PROVE  p = <<>> <=> DOMAIN p = {}
OBVIOUS

\* The end of the loop.
LEMMA FinishKeeps == ASSUME QueryInv, Finish PROVE QueryInv'
<1>1. /\ step = "loop" /\ todo = {} /\ step' = "done" /\ pairs' = pairs /\ todo' = todo
      /\ buf' = IF buf = <<>> THEN buf ELSE SubSeq(buf, 1, Len(buf) - 1)
  BY DEF Finish
<1>2. /\ IsFiniteSet(DOMAIN pairs) /\ pairs \in [DOMAIN pairs -> Seq(Characters)]
      /\ buf \in Seq(Letters) /\ Closed(buf)
      /\ IsFiniteSet(Signs(buf, And)) /\ Cardinality(Signs(buf, And)) = Cardinality(DOMAIN pairs)
      /\ Holds(buf, DOMAIN pairs)
  <2>1. Done = DOMAIN pairs
    BY <1>1 DEF Done
  <2> QED
    BY <1>1, <2>1 DEF QueryInv
<1>3. CASE buf = <<>>
  <2>1. Signs(buf, And) = {}
    BY <1>3 DEF Signs
  <2>2. DOMAIN pairs = {}
    BY <1>2, <2>1, FS_EmptySet
  <2>3. pairs = <<>>
    BY <2>2, <1>2, NoKeys
  <2>4. ReadsBack'
    BY <1>1, <1>3, <2>3 DEF ReadsBack
  <2> QED
    BY <1>1, <2>4 DEF QueryInv
<1>4. CASE buf # <<>>
  <2> DEFINE D == DOMAIN pairs
             w == SubSeq(buf, 1, Len(buf) - 1)
  <2>1. /\ w \in Seq(Letters)
        /\ Signs(w, And) = Signs(buf, And) \ {Len(buf)} /\ Len(buf) \in Signs(buf, And)
        /\ \A f \in Fields(w) : \E k \in D : IsField(f, k)
        /\ \A k \in D : \E f \in Fields(w) : IsField(f, k)
    BY <1>2, <1>4, LastMarkGoes
  <2> HIDE DEF w
  <2>2. Cardinality(Signs(w, And)) = Cardinality(Signs(buf, And)) - 1
    BY <1>2, <2>1, FS_RemoveElement
  <2>3. Cardinality(Signs(buf, And)) \in Nat
    BY <1>2, FS_CardinalityType
  <2>4. Cardinality(Signs(w, And)) + 1 = Cardinality(D)
    BY <1>2, <2>2, <2>3
  <2>5. pairs # <<>>
    <3>1. D # {}
      BY <1>2, <2>1, FS_EmptySet
    <3> QED
      BY <3>1, <1>2, NoKeys
  <2>6. \A f, k : IsField(f, k)' <=> IsField(f, k)
    BY <1>1 DEF IsField
  <2>7. buf' = w
    BY <1>1, <1>4 DEF w
  <2>8. ReadsBack'
    <3>1. Signs(buf, And)' = Signs(w, And) /\ Fields(buf)' = Fields(w)
      BY <2>7, SameFields
    <3> QED
      BY <1>1, <2>1, <2>4, <2>5, <2>6, <3>1, <2>7 DEF ReadsBack
  <2> QED
    BY <1>1, <2>8 DEF QueryInv
<1> QED
  BY <1>3, <1>4

LEMMA QueryRests == ASSUME QueryInv, UNCHANGED queryVars PROVE QueryInv'
<1>1. pairs' = pairs /\ todo' = todo /\ buf' = buf /\ step' = step
  BY DEF queryVars
<1>2. \A f, k : IsField(f, k)' <=> IsField(f, k)
  BY <1>1 DEF IsField
<1>3. Done' = Done /\ (Holds(buf, Done)' <=> Holds(buf, Done))
  BY <1>1, <1>2 DEF Holds, Done, Part, Marks, Signs, Neighbours
<1>4. ReadsBack' <=> ReadsBack
  BY <1>1, <1>2, SameFields DEF ReadsBack
<1>5. Closed(buf)' <=> Closed(buf)
  BY <1>1 DEF Closed
<1> QED
  BY <1>1, <1>3, <1>4, <1>5 DEF QueryInv, Signs

\* For any characters and codes, any number of names and values of any length:
\* the query that gen_query_url() makes gives back the registration data, so no
\* sign in a name or a value moves the bounds of the fields.
THEOREM QueryReadsBack == ASSUME UrlAssumption PROVE QuerySpec => []ReadsBack
<1>1. QueryInit => QueryInv
  BY QueryFirst
<1>2. QueryInv /\ [QueryNext]_queryVars => QueryInv'
  BY PairKeeps, FinishKeeps, QueryRests DEF QueryNext
<1>3. QueryInv => ReadsBack
  BY DEF QueryInv
<1> QED
  BY <1>1, <1>2, <1>3, PTL DEF QuerySpec
=============================================================================
