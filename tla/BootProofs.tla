----------------------------- MODULE BootProofs -----------------------------
(***************************************************************************)
(* Proofs about the start of the two processors, as part of the            *)
(* demonstration: whatever its tasks, handlers and objects do.             *)
(***************************************************************************)
EXTENDS Demo, TLAPS

\* The stages of the processors, in their order.
BeforeNumber == {"run", "main", "cpu_num"} \cup Part
AfterNumber == {"sipi", "sipi again", "wait", "up"}
Paged == {"smp_ap_init", "start_second_task", "up"}
SecondStage == {"parked", "run", "main", "ap_main"} \cup Paged

\* Part number i is set up once the first processor is past it.
Pending(i) == boot[0] \in {"run", "main"} \/ \E j \in 1 .. i : boot[0] = SetUp[j]

Stage == BeforeNumber \cup AfterNumber \cup SecondStage

\* The word cpu_num tells the first processor, which reads it before it writes
\* it, from the second one, which is parked until it is written.
Numbered ==
  /\ boot \in [{0, 1} -> Stage]
  /\ \/ boot[0] \in BeforeNumber /\ cpu_num = 0 /\ boot[1] = "parked"
     \/ boot[0] \in AfterNumber /\ cpu_num = 1 /\ boot[1] \in SecondStage

\* So each takes a stack of its own, ...
OwnStacks ==
  /\ stack \in [{0, 1} -> {"none", CPU0_SP, CPU1_SP}]
  /\ stack[0] = IF boot[0] = "run" THEN "none" ELSE CPU0_SP
  /\ stack[1] = IF boot[1] \in {"parked", "run"} THEN "none" ELSE CPU1_SP

\* ... the first one sets the parts up once, in their order, ...
InOrder ==
  /\ initialised \in [{0, 1} -> [Part -> {0, 1}]]
  /\ \A i \in 1 .. 6 : initialised[0][SetUp[i]] = IF Pending(i) THEN 0 ELSE 1

\* ... the second one turns nothing but its paging on, ...
OwnPaging ==
  \A p \in Part :
    initialised[1][p] = IF p = "page_enable" /\ boot[1] \in Paged THEN 1 ELSE 0

\* ... and the first processor leaves the boot code after the answer.
Answered == cpu_second \in {0, 1} /\ (boot[0] = "up" => cpu_second = 1)

Started == Numbered /\ OwnStacks /\ InOrder /\ OwnPaging /\ Answered

\* The other stages of the two processors.
Other == {"run", "main", "ap_main", "cpu_num", "sipi", "sipi again", "wait", "up", "parked",
          "smp_ap_init", "start_second_task"}

\* The set-up calls are six different stages, and no other stage is one.
LEMMA SetUpParts ==
  /\ DOMAIN SetUp = 1 .. 6 /\ Len(SetUp) = 6
  /\ \A p : p \in Part <=> \E i \in 1 .. 6 : SetUp[i] = p
  /\ \A i, j \in 1 .. 6 : SetUp[i] = SetUp[j] => i = j
  /\ \A i \in 1 .. 6 : SetUp[i] \notin Other
  /\ \A s \in Other : s \notin Part
  <1>1. /\ DOMAIN SetUp = 1 .. 6 /\ Len(SetUp) = 6
        /\ SetUp[1] = "all_init" /\ SetUp[2] = "page_init"
        /\ SetUp[3] = "page_enable" /\ SetUp[4] = "itron_init"
        /\ SetUp[5] = "proc_init" /\ SetUp[6] = "tss_init"
    BY DEF SetUp
  <1>2. \A i \in 1 .. 6 : i = 1 \/ i = 2 \/ i = 3 \/ i = 4 \/ i = 5 \/ i = 6
    OBVIOUS
  <1>3. \A p : p \in Part <=> \E i \in 1 .. 6 : SetUp[i] = p
    BY <1>1 DEF Part
  <1>4. \A i, j \in 1 .. 6 : SetUp[i] = SetUp[j] => i = j
    BY <1>1, <1>2
  <1>5. \A i \in 1 .. 6 : SetUp[i] \notin Other
    BY <1>1, <1>2 DEF Other
  <1>6. \A s \in Other : s \notin Part
    BY <1>3, <1>5
  <1>7. QED
    BY <1>1, <1>3, <1>4, <1>5, <1>6

\* What follows the set-up call number i.
NextStage(i) == IF i < 6 THEN SetUp[i + 1] ELSE "cpu_num"

\* It is another set-up call, or the first stage after them.
LEMMA NextStages ==
  /\ SetUp[1] \in Part /\ SetUp[1] \notin Other
  /\ \A i \in 1 .. 6 : /\ NextStage(i) \in Part \cup {"cpu_num"}
                       /\ NextStage(i) \notin Other \ {"cpu_num"}
  <1>1. SetUp[1] \in Part /\ SetUp[1] \notin Other
    <2>1. 1 \in 1 .. 6
      OBVIOUS
    <2>2. QED
      BY <2>1, SetUpParts
  <1>2. ASSUME NEW i \in 1 .. 6
        PROVE  /\ NextStage(i) \in Part \cup {"cpu_num"}
               /\ NextStage(i) \notin Other \ {"cpu_num"}
    <2>1. CASE i < 6
      <3>1. i + 1 \in 1 .. 6
        BY <2>1
      <3>2. SetUp[i + 1] \in Part /\ SetUp[i + 1] \notin Other
        BY <3>1, SetUpParts
      <3>3. QED
        BY <2>1, <3>2 DEF NextStage
    <2>2. CASE ~(i < 6)
      BY <2>2 DEF NextStage
    <2>3. QED
      BY <2>1, <2>2
  <1>3. QED
    BY <1>1, <1>2

\* What a set-up step does.
LEMMA SetUpStep ==
  ASSUME NEW c \in {0, 1}, set_up(c)
  PROVE  /\ \E i \in 1 .. 6 :
              /\ boot[c] = SetUp[i]
              /\ boot' = [boot EXCEPT ![c] = NextStage(i)]
              /\ Initialises(c, SetUp[i])
         /\ cpu_num' = cpu_num /\ cpu_second' = cpu_second /\ stack' = stack
  BY SetUpParts DEF set_up, Goes, NextStage

\* Before the set-up nothing is initialised.
LEMMA StartedAtFirst ==
  ASSUME BootInit
  PROVE  Started
  <1>1. \A i \in 1 .. 6 : SetUp[i] \in Part /\ Pending(i)
    BY SetUpParts DEF BootInit, Pending
  <1>2. Numbered /\ Answered
    BY DEF BootInit, Numbered, Answered, Stage, BeforeNumber, AfterNumber,
       SecondStage, Paged
  <1>3. OwnStacks
    BY DEF BootInit, OwnStacks, CPU0_SP, CPU1_SP
  <1>4. InOrder /\ OwnPaging
    BY <1>1 DEF BootInit, InOrder, OwnPaging, Paged
  <1>5. QED
    BY <1>2, <1>3, <1>4 DEF Started

\* The first processor is at a set-up call only before the second one runs.
LEMMA SetUpIsFirst ==
  ASSUME Numbered, NEW c \in {0, 1}, boot[c] \in BeforeNumber, boot[c] \notin SecondStage
  PROVE  c = 0
  BY DEF Numbered, SecondStage, Paged

\* A step of the first processor leaves the stage of the second one.
LEMMA StageChange ==
  ASSUME Numbered, NEW n, boot' = [boot EXCEPT ![0] = n]
  PROVE  boot'[0] = n /\ boot'[1] = boot[1]
  BY DEF Numbered

\* Each step of the start goes on in the order of the stages.
LEMMA NumberedKept ==
  ASSUME Numbered, NEW c \in {0, 1}, BootStep(c)
  PROVE  Numbered'
  <1> USE DEF Numbered, Stage, BeforeNumber, AfterNumber, SecondStage, Paged, Goes
  <1>1. \A i \in 1 .. 6 : SetUp[i] \in Part /\ SetUp[i] \notin SecondStage
    BY SetUpParts DEF Other
  <1>2. \A s \in AfterNumber \cup SecondStage : s \notin Part
    BY SetUpParts, ZenonT(60) DEF Other
  <1>3. CASE run(c)
    BY <1>3 DEF run
  <1>4. CASE main(c)
    BY <1>2, <1>4, NextStages DEF main
  <1>5. CASE set_up(c)
    <2>1. PICK i \in 1 .. 6 :
            boot[c] = SetUp[i] /\ boot' = [boot EXCEPT ![c] = NextStage(i)]
      BY <1>5, SetUpStep
    <2>2. c = 0
      BY <2>1, <1>1, SetUpIsFirst
    <2>3. boot'[0] \in Part \cup {"cpu_num"} /\ boot'[1] = boot[1]
      <3>1. boot'[0] = NextStage(i) /\ boot'[1] = boot[1]
        BY <2>1, <2>2, StageChange
      <3>2. QED
        BY <3>1, NextStages
    <2>4. boot[0] \notin AfterNumber
      BY <2>1, <2>2, <1>1, <1>2
    <2>5. cpu_num' = cpu_num
      BY <1>5, SetUpStep
    <2>6. QED
      BY <2>1, <2>2, <2>3, <2>4, <2>5
  <1>6. CASE number(c)
    BY <1>2, <1>6 DEF number, NumberNext
  <1>7. CASE smp_init(c)
    BY <1>2, <1>7 DEF smp_init
  <1>8. CASE start_first_task(c)
    BY <1>2, <1>8 DEF start_first_task
  <1>9. CASE smp_ap_init(c)
    BY <1>2, <1>9 DEF smp_ap_init
  <1>10. CASE start_second_task(c)
    BY <1>2, <1>10 DEF start_second_task
  <1>11. CASE ap_page_enable(c)
    BY <1>2, <1>11 DEF ap_page_enable
  <1>12. QED
    BY <1>3, <1>4, <1>5, <1>6, <1>7, <1>8, <1>9, <1>10, <1>11 DEF BootStep

\* A processor takes its stack when it leaves `run'.
LEMMA OwnStacksKept ==
  ASSUME Numbered, OwnStacks, NEW c \in {0, 1}, BootStep(c)
  PROVE  OwnStacks'
  <1> USE DEF Numbered, OwnStacks, Stage, CPU0_SP, CPU1_SP, Goes
  <1>1. CASE run(c)
    BY <1>1 DEF run, BeforeNumber, AfterNumber, Other, SecondStage, Paged
  <1>2. CASE main(c)
    BY <1>2, NextStages DEF main, Other
  <1>3. CASE set_up(c)
    <2>1. PICK i \in 1 .. 6 :
            boot[c] = SetUp[i] /\ boot' = [boot EXCEPT ![c] = NextStage(i)]
      BY <1>3, SetUpStep
    <2>2. boot[c] \notin {"run", "parked"}
      BY <2>1, SetUpParts DEF Other
    <2>3. boot'[c] \notin {"run", "parked"}
      BY <2>1, NextStages DEF Other
    <2>4. stack' = stack
      BY <1>3, SetUpStep
    <2>5. QED
      BY <2>1, <2>2, <2>3, <2>4
  <1>4. CASE \/ number(c) \/ start_first_task(c) \/ ap_page_enable(c)
             \/ smp_ap_init(c) \/ start_second_task(c)
    BY <1>4 DEF number, start_first_task, ap_page_enable, smp_ap_init, start_second_task
  <1>5. CASE smp_init(c)
    <2>1. c = 0
      BY <1>5 DEF smp_init, SecondStage, Paged, BeforeNumber, AfterNumber
    <2>2. QED
      BY <1>5, <2>1 DEF smp_init
  <1>6. QED
    BY <1>1, <1>2, <1>3, <1>4, <1>5 DEF BootStep

\* A step that sets nothing up on the first processor, and is not one of its
\* steps from or to a set-up call.
LEMMA InOrderElsewhere ==
  ASSUME InOrder, initialised' \in [{0, 1} -> [Part -> {0, 1}]],
         initialised'[0] = initialised[0], boot'[0] \in Other <=> boot[0] \in Other,
         boot'[0] \in {"run", "main"} <=> boot[0] \in {"run", "main"},
         boot[0] \in Other \/ boot'[0] = boot[0]
  PROVE  InOrder'
  <1>1. ASSUME NEW i \in 1 .. 6
        PROVE  Pending(i)' <=> Pending(i)
    <2>1. \A j \in 1 .. i : SetUp[j] \notin Other
      BY SetUpParts
    <2>2. QED
      BY <2>1 DEF Pending
  <1>2. QED
    BY <1>1 DEF InOrder

\* The set-up steps set the parts up one after the other.
LEMMA InOrderKept ==
  ASSUME Numbered, InOrder, OwnPaging, NEW c \in {0, 1}, BootStep(c)
  PROVE  InOrder'
  <1> boot \in [{0, 1} -> Stage]
    BY DEF Numbered
  <1>t. initialised \in [{0, 1} -> [Part -> {0, 1}]]
    BY DEF InOrder
  <1> USE DEF Goes
  <1>1. CASE run(c)
    BY <1>1, <1>t, InOrderElsewhere DEF run, Other
  <1>2. CASE main(c)
    <2>1. CASE c = 0 /\ cpu_num = 0
      <3>1. boot[0] = "main" /\ boot'[0] = SetUp[1] /\ initialised' = initialised
        BY <1>2, <2>1 DEF main
      <3>2. \A i \in 1 .. 6 : 1 \in 1 .. i
        OBVIOUS
      <3>3. \A i \in 1 .. 6 : Pending(i) /\ Pending(i)'
        BY <3>1, <3>2 DEF Pending
      <3>4. QED
        BY <1>t, <3>1, <3>3 DEF InOrder
    <2>2. CASE c = 1
      <3>1. boot[1] = "main" /\ boot'[0] = boot[0] /\ initialised' = initialised
        BY <1>2, <2>2 DEF main
      <3>2. QED
        BY <1>t, <3>1, InOrderElsewhere
    <2>3. QED
      BY <1>2, <2>1, <2>2 DEF main, Numbered, AfterNumber
  <1>3. CASE set_up(c)
    <2>1. PICK i \in 1 .. 6 :
            /\ boot[c] = SetUp[i]
            /\ boot' = [boot EXCEPT ![c] = NextStage(i)]
            /\ Initialises(c, SetUp[i])
      BY <1>3, SetUpStep
    <2>2. c = 0
      BY <2>1, SetUpIsFirst, SetUpParts DEF BeforeNumber, SecondStage, Paged, Other
    <2>3. ASSUME NEW k \in 1 .. 6
          PROVE  Pending(k) <=> i <= k
      <3>1. \A j \in 1 .. k : j \in 1 .. 6
        OBVIOUS
      <3>2. SetUp[i] \notin {"run", "main"}
        BY SetUpParts DEF Other
      <3>3. QED
        BY <2>1, <2>2, <3>1, <3>2, SetUpParts DEF Pending
    <2>4. ASSUME NEW k \in 1 .. 6
          PROVE  Pending(k)' <=> i + 1 <= k
      <3>1. \A j \in 1 .. k : j \in 1 .. 6 /\ SetUp[j] \notin Other
        BY SetUpParts
      <3>2. CASE i = 6
        <4>1. boot'[0] = "cpu_num"
          BY <2>1, <2>2, <3>2 DEF NextStage
        <4>2. ~Pending(k)'
          BY <3>1, <4>1 DEF Pending, Other
        <4>3. QED
          BY <3>2, <4>2
      <3>3. CASE i < 6
        <4>1. i + 1 \in 1 .. 6 /\ boot'[0] = SetUp[i + 1]
          BY <2>1, <2>2, <3>3 DEF NextStage
        <4>2. SetUp[i + 1] \notin {"run", "main"}
          BY <4>1, SetUpParts DEF Other
        <4>3. QED
          BY <3>1, <4>1, <4>2, SetUpParts DEF Pending
      <3>4. QED
        BY <3>2, <3>3
    <2>5. SetUp[i] \in Part /\ initialised[0][SetUp[i]] = 0
      BY <2>3, SetUpParts DEF InOrder
    <2>6. initialised'[0] = [initialised[0] EXCEPT ![SetUp[i]] = 1]
      BY <1>t, <2>1, <2>2, <2>5 DEF Initialises
    <2>7. initialised' \in [{0, 1} -> [Part -> {0, 1}]]
      BY <1>t, <2>1, <2>2, <2>5 DEF Initialises
    <2>8. ASSUME NEW k \in 1 .. 6
          PROVE  initialised'[0][SetUp[k]] = IF Pending(k)' THEN 0 ELSE 1
      <3>1. CASE k = i
        <4>1. initialised'[0][SetUp[k]] = 1
          BY <1>t, <2>5, <2>6, <3>1
        <4>2. ~Pending(k)'
          BY <2>4, <3>1
        <4>3. QED
          BY <4>1, <4>2
      <3>2. CASE k # i
        <4>1. SetUp[k] \in Part /\ SetUp[k] # SetUp[i]
          BY <3>2, SetUpParts
        <4>2. initialised'[0][SetUp[k]] = initialised[0][SetUp[k]]
          BY <2>6, <4>1
        <4>3. Pending(k)' <=> Pending(k)
          BY <2>3, <2>4, <3>2
        <4>4. initialised[0][SetUp[k]] = IF Pending(k) THEN 0 ELSE 1
          BY DEF InOrder
        <4>5. QED
          BY <4>2, <4>3, <4>4
      <3>3. QED
        BY <3>1, <3>2
    <2>9. QED
      BY <2>7, <2>8 DEF InOrder
  <1>4. CASE number(c)
    BY <1>4, <1>t, InOrderElsewhere DEF number, Other
  <1>5. CASE smp_init(c)
    <2>1. c = 0
      BY <1>5 DEF smp_init, Numbered, SecondStage, Paged, BeforeNumber, AfterNumber
    <2>2. QED
      BY <1>5, <1>t, <2>1, InOrderElsewhere DEF smp_init, Other
  <1>6. CASE start_first_task(c)
    BY <1>6, <1>t, InOrderElsewhere DEF start_first_task, Other
  <1>7. CASE smp_ap_init(c)
    BY <1>7, <1>t, InOrderElsewhere DEF smp_ap_init, Other
  <1>8. CASE start_second_task(c)
    BY <1>8, <1>t, InOrderElsewhere DEF start_second_task, Other
  <1>9. CASE ap_page_enable(c)
    <2>1. c = 1
      BY <1>9, SetUpParts
      DEF ap_page_enable, Numbered, BeforeNumber, AfterNumber, Other
    <2>2. "page_enable" \in Part
      BY DEF Part, SetUp
    <2>3. initialised[1]["page_enable"] = 0
      BY <1>9, <2>1, <2>2 DEF ap_page_enable, OwnPaging, Paged
    <2>4. boot'[0] = boot[0]
      BY <1>9, <2>1 DEF ap_page_enable
    <2>5. PICK p \in Part : p = "page_enable" /\ initialised[1][p] = 0
                            /\ Initialises(1, p)
      BY <1>9, <2>1, <2>2, <2>3 DEF ap_page_enable
    <2>6. initialised' \in [{0, 1} -> [Part -> {0, 1}]]
      BY <1>t, <2>5 DEF Initialises
    <2>7. initialised'[0] = initialised[0]
      BY <1>t, <2>5 DEF Initialises
    <2>8. QED
      BY <2>4, <2>6, <2>7, InOrderElsewhere
  <1>10. QED
    BY <1>1, <1>2, <1>3, <1>4, <1>5, <1>6, <1>7, <1>8, <1>9 DEF BootStep

\* The second processor turns its paging on when it is past main, the first
\* one does not touch the history of the second.
LEMMA OwnPagingKept ==
  ASSUME Numbered, InOrder, OwnPaging, NEW c \in {0, 1}, BootStep(c)
  PROVE  OwnPaging'
  <1> boot \in [{0, 1} -> Stage]
    BY DEF Numbered
  <1>t. initialised \in [{0, 1} -> [Part -> {0, 1}]]
    BY DEF InOrder
  <1> USE DEF Goes, Paged
  <1>1. ASSUME initialised'[1] = initialised[1],
               boot'[1] \in Paged <=> boot[1] \in Paged
        PROVE  OwnPaging'
    BY <1>1 DEF OwnPaging
  <1>2. CASE run(c) \/ number(c)
    BY <1>2, <1>1 DEF run, number
  <1>3. CASE main(c)
    <2>1. SetUp[1] \notin Paged
      BY NextStages DEF Other
    <2>2. QED
      BY <1>3, <2>1, <1>1 DEF main
  <1>4. CASE set_up(c)
    <2>1. PICK i \in 1 .. 6 :
            /\ boot[c] = SetUp[i]
            /\ boot' = [boot EXCEPT ![c] = NextStage(i)]
            /\ Initialises(c, SetUp[i])
      BY <1>4, SetUpStep
    <2>2. c = 0
      BY <2>1, SetUpIsFirst, SetUpParts DEF BeforeNumber, SecondStage, Other
    <2>3. QED
      BY <1>t, <2>1, <2>2, <1>1 DEF Initialises
  <1>5. CASE smp_init(c) \/ start_first_task(c) \/ smp_ap_init(c) \/ start_second_task(c)
    <2>1. initialised' = initialised
      BY <1>5 DEF smp_init, start_first_task, smp_ap_init, start_second_task
    <2>2. boot'[1] \in Paged <=> boot[1] \in Paged
      <3>1. CASE smp_init(c)
        BY <3>1 DEF smp_init
      <3>2. CASE start_first_task(c)
        <4>1. c = 0
          BY <3>2 DEF start_first_task, Numbered, BeforeNumber, AfterNumber, SecondStage
        <4>2. QED
          BY <3>2, <4>1 DEF start_first_task
      <3>3. CASE smp_ap_init(c) \/ start_second_task(c)
        BY <3>3 DEF smp_ap_init, start_second_task
      <3>4. QED
        BY <1>5, <3>1, <3>2, <3>3
    <2>3. QED
      BY <2>1, <2>2, <1>1
  <1>6. CASE ap_page_enable(c)
    <2>1. c = 1
      BY <1>6, SetUpParts
      DEF ap_page_enable, Numbered, BeforeNumber, AfterNumber, Other
    <2>2. "page_enable" \in Part
      BY DEF Part, SetUp
    <2>3. /\ boot[1] = "ap_main" /\ boot'[1] = "smp_ap_init"
          /\ Initialises(1, "page_enable")
      BY <1>6, <2>1 DEF ap_page_enable
    <2>4. PICK q \in Part : q = "page_enable" /\ Initialises(1, q)
      BY <2>2, <2>3
    <2>5. \A p \in Part : initialised[1][p] = 0
      BY <2>3 DEF OwnPaging
    <2>6. \A p \in Part : initialised'[1][p] = IF p = q THEN 1 ELSE 0
      BY <1>t, <2>4, <2>5 DEF Initialises
    <2>7. QED
      BY <2>3, <2>4, <2>6 DEF OwnPaging
  <1>7. QED
    BY <1>2, <1>3, <1>4, <1>5, <1>6 DEF BootStep

\* Only the second processor answers, and only its answer lets the first go on.
LEMMA AnsweredKept ==
  ASSUME Numbered, Answered, NEW c \in {0, 1}, BootStep(c)
  PROVE  Answered'
  <1> boot \in [{0, 1} -> Stage]
    BY DEF Numbered
  <1> USE DEF Answered, Goes
  <1>1. CASE \/ run(c) \/ number(c) \/ start_first_task(c) \/ ap_page_enable(c)
             \/ smp_ap_init(c)
    BY <1>1 DEF run, number, start_first_task, ap_page_enable, smp_ap_init
  <1>2. CASE main(c)
    BY <1>2, NextStages DEF main, Other
  <1>3. CASE set_up(c)
    <2>1. PICK i \in 1 .. 6 : boot' = [boot EXCEPT ![c] = NextStage(i)]
      BY <1>3, SetUpStep
    <2>2. NextStage(i) # "up" /\ cpu_second' = cpu_second
      BY <1>3, SetUpStep, NextStages DEF Other
    <2>3. QED
      BY <2>1, <2>2
  <1>4. CASE smp_init(c)
    BY <1>4 DEF smp_init
  <1>5. CASE start_second_task(c)
    <2>1. c = 1
      BY <1>5, SetUpParts DEF start_second_task, Numbered, BeforeNumber, AfterNumber, Other
    <2>2. QED
      BY <1>5, <2>1 DEF start_second_task
  <1>6. QED
    BY <1>1, <1>2, <1>3, <1>4, <1>5 DEF BootStep

\* Once cpu_num is written every part is set up.
LEMMA SetUpDone ==
  ASSUME Started, boot[0] \in AfterNumber, NEW p \in Part
  PROVE  initialised[0][p] = 1
  <1>1. \A i \in 1 .. 6 : \A j \in 1 .. i : j \in 1 .. 6 /\ SetUp[j] \notin Other
    BY SetUpParts
  <1>2. PICK i \in 1 .. 6 : p = SetUp[i]
    BY SetUpParts
  <1>3. ~Pending(i)
    BY <1>1 DEF Pending, AfterNumber, Other
  <1>4. QED
    BY <1>2, <1>3 DEF Started, InOrder

\* Paging needs the page tables: on the first processor by the order of the
\* set-up calls, on the second one because it runs after all of them.
LEMMA TablesFirst ==
  ASSUME Started, NEW c \in {0, 1}, initialised[c]["page_enable"] > 0
  PROVE  initialised[0]["page_init"] = 1
  <1>1. SetUp[2] = "page_init" /\ SetUp[3] = "page_enable"
    BY DEF SetUp
  <1>2. "page_enable" \in Part /\ "page_init" \in Part
    BY DEF Part, SetUp
  <1>3. CASE c = 0
    <2>1. ~Pending(3)
      BY <1>1, <1>3 DEF Started, InOrder
    <2>2. ~Pending(2)
      BY <2>1 DEF Pending
    <2>3. QED
      BY <1>1, <2>2 DEF Started, InOrder
  <1>4. CASE c = 1
    <2>1. boot[1] \in Paged
      BY <1>2, <1>4 DEF Started, OwnPaging
    <2>2. boot[0] \in AfterNumber
      BY <2>1 DEF Started, Numbered, Paged
    <2>3. QED
      BY <1>2, <2>2, SetUpDone
  <1>5. QED
    BY <1>3, <1>4

\* The invariant gives the property: a processor that is up finds every part
\* set up, because the second one runs only after cpu_num is written.
LEMMA StartedIsOrderly ==
  ASSUME Started
  PROVE  OrderlyStart
  <1>1. "page_enable" \in Part
    BY DEF Part, SetUp
  <1>2. ASSUME NEW c \in {0, 1}, boot[c] = "up"
        PROVE  /\ \A p \in Part : initialised[0][p] = 1
               /\ initialised[c]["page_enable"] = 1
    <2>1. boot[0] \in AfterNumber
      BY <1>2, SetUpParts DEF Started, Numbered, BeforeNumber, Other
    <2>2. \A p \in Part : initialised[0][p] = 1
      BY <2>1, SetUpDone
    <2>3. c = 1 => initialised[1]["page_enable"] = 1
      BY <1>1, <1>2 DEF Started, OwnPaging, Paged
    <2>4. QED
      BY <1>1, <2>2, <2>3
  <1>3. stack[0] = stack[1] => stack[0] = "none"
    BY DEF Started, OwnStacks, CPU0_SP, CPU1_SP
  <1>4. \A p \in Part : initialised[0][p] <= 1
    BY DEF Started, InOrder
  <1>5. /\ \A p \in Part \ {"page_enable"} : initialised[1][p] = 0
        /\ initialised[1]["page_enable"] <= 1
    BY <1>1 DEF Started, OwnPaging
  <1>6. QED
    BY <1>2, <1>3, <1>4, <1>5, TablesFirst DEF Started, Answered, OrderlyStart

\* The two processors never share a boot stack; what they share is set up once,
\* by the first one, before either of them runs a task; each turns its paging
\* on once, after the page tables are built; and the first one waits for the
\* second: in every behaviour of the demonstration.
THEOREM StartIsOrderly == DemoSpec => []OrderlyStart
  <1>1. DemoInit => Started
    BY StartedAtFirst DEF DemoInit
  <1>2. Started /\ [DemoNext]_demoVars => Started'
    <2> SUFFICES ASSUME Started, [DemoNext]_demoVars
                 PROVE  Started'
      OBVIOUS
    <2>1. CASE UNCHANGED bootVars
      BY <2>1 DEF bootVars, Started, Numbered, OwnStacks, InOrder, OwnPaging,
                      Answered, Pending
    <2>2. ASSUME NEW c \in Cpu, BootStep(c)
          PROVE  Started'
      BY <2>2, DemoAssumption, NumberedKept, OwnStacksKept, InOrderKept,
         OwnPagingKept, AnsweredKept DEF Started
    <2>3. QED
      BY <2>1, <2>2 DEF DemoNext, demoVars
  <1>3. QED
    BY <1>1, <1>2, StartedIsOrderly, PTL DEF DemoSpec
=============================================================================
