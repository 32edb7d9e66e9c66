--------------------------- MODULE AudioTestsProofs ----------------------------
(* The audio tests stay in their buffers, and what they report is what they did,  *)
(* for every HAL, file and flag, and wherever the callbacks fall.                 *)
EXTENDS AudioTests, TLAPS

\* The numbers of the HAL tests.
LEMMA HalNumbers ==
  ASSUME AudioInv
  PROVE  /\ hal_size \in Nat /\ buffer \in Nat /\ reach \in Nat /\ progress \in Nat /\ saved \in Nat
         /\ recorded \in Nat /\ written \in Nat
BY DEF AudioInv, TypeOK

\* The programs tell themselves by args.test.
LEMMA WhichProgram ==
  ASSUME AudioInv
  PROVE  /\ step \in HalSteps => args.test # "brillo" /\ args \in Playbacks \cup Records
         /\ step \in LibSteps => args.test = "brillo" /\ args \in Flags
<1>1. step \in HalSteps => args.test # "brillo"
  BY DEF AudioInv, OneProgram, HalSteps, BeforeData, LibSteps, BeforeMedia, AfterSleep
<1>2. step \in LibSteps => args.test = "brillo"
  BY DEF AudioInv, OneProgram, HalSteps, BeforeData, LibSteps, BeforeMedia, AfterSleep
<1> QED BY <1>1, <1>2 DEF AudioInv, TypeOK, Playbacks, Records, Flags

\* The arithmetic of the HAL tests is that of natural numbers.
LEMMA Quotient ==
  ASSUME NEW a \in Nat, NEW b \in Nat \ {0}
  PROVE  a \div b \in Nat
OBVIOUS

LEMMA Product ==
  ASSUME NEW a \in Nat, NEW b \in Nat
  PROVE  a * b \in Nat
OBVIOUS

LEMMA MinimumIsLeast ==
  ASSUME NEW a \in Nat, NEW b \in Nat
  PROVE  Minimum(a, b) \in Nat /\ Minimum(a, b) <= a /\ Minimum(a, b) <= b
BY DEF Minimum

\* A larger number holds no fewer whole frames of two bytes.
LEMMA HalvesAreMonotone ==
  ASSUME NEW a \in Nat, NEW b \in Nat, a <= b, NEW n \in Nat, n <= a \div 2
  PROVE  n * 2 <= (b \div 2) * 2
OBVIOUS

--------------------------------------------------------------------------------
(* The tests of the HAL.                                                     *)

\* What a step of a HAL test has to show: the rest is not its own.
LEMMA HalKeepsInv ==
  ASSUME AudioInv, args.test # "brillo", UNCHANGED <<args, libVars>>,
         group' \in {"none", "free", "held"}, open' \subseteq {"device", "stream"},
         hal_size' \in Nat, buffer' \in Nat, reach' \in Nat, progress' \in Nat, saved' \in Nat,
         answer' \in {"some", "nothing", "error"}, elapsed' \in BOOLEAN,
         \/ step' \in HalSteps /\ outcome' = "none"
         \/ step' = "over" /\ outcome' \in {"abort", "exit 0", "exit -1"},
         HalInv'
  PROVE  AudioInv'
<1>1. UNCHANGED <<args, media, source, callback, late, recorded, written, out_file>>
  BY DEF libVars
<1>2. OneProgram'
  BY <1>1 DEF AudioInv, OneProgram
<1>3. LibInv'
  BY <1>1 DEF LibInv
<1>4. step' = "over" <=> outcome' # "none"
  BY DEF HalSteps, BeforeData
<1>5. late' \in BOOLEAN
  BY <1>1 DEF AudioInv, TypeOK
<1>6. TypeOK'
  <2>1. /\ args' \in Playbacks \cup Records \cup Flags /\ recorded' \in Nat /\ written' \in Nat /\ recorded' <= MaxChunks
        /\ media' \in {"none", "made", "running", "stopped"} /\ source' \in {"none", "live", "missing", "gone"}
        /\ callback' \in {"idle", "busy"} /\ out_file' \in {"none", "open", "closed"}
    BY <1>1 DEF AudioInv, TypeOK
  <2>2. outcome' \in {"none", "abort", "error", "exit 0", "exit 1", "exit -1"}
    OBVIOUS
  <2>3. /\ {hal_size, buffer, reach, progress, saved, recorded, written}' \subseteq Nat
        /\ {elapsed, late}' \subseteq BOOLEAN
    BY <1>5, <2>1
  <2> QED BY <1>4, <2>1, <2>2, <2>3 DEF TypeOK
<1> QED BY <1>2, <1>3, <1>6 DEF AudioInv

\* A step that leaves the buffer and the progress in it alone.
LEMMA HalControlKeepsInv ==
  ASSUME AudioInv, step \in HalSteps, UNCHANGED <<args, libVars>>,
         group' \in {"none", "free", "held"}, open' \subseteq {"device", "stream"},
         UNCHANGED <<hal_size, buffer, reach, progress, answer, elapsed>>, saved' \in Nat,
         \/ step' = "over" /\ outcome' \in {"abort", "exit 0", "exit -1"}
         \/ /\ outcome' = "none" /\ step' \in HalSteps \ {"play_file"}
            /\ step' \in BeforeData => step \in BeforeData
            /\ step' \in {"sine_data", "generate", "generated", "write_sine"} => Playing /\ ~PlaysFile
            /\ step' \in {"open_file", "file_data"} => PlaysFile
            /\ step' \in {"stream", "file_data"} /\ PlaysFile => args.file # Missing
            /\ step' \in {"recorded_data", "record", "save"} => ~Playing
  PROVE  AudioInv'
<1>1. args.test # "brillo"
  BY WhichProgram
<1>2. /\ hal_size \in Nat /\ buffer \in Nat /\ reach \in Nat /\ progress \in Nat
      /\ answer \in {"some", "nothing", "error"}
  BY DEF AudioInv, TypeOK
<1>3. elapsed' \in BOOLEAN
  BY DEF AudioInv, TypeOK
<1>4. HalInv'
  <2>1. UNCHANGED Playing /\ UNCHANGED PlaysFile /\ UNCHANGED Fits
    BY DEF Playing, PlaysFile, Fits
  <2> QED BY <1>1, <2>1 DEF AudioInv, HalInv, BeforeData
<1>5. \/ step' \in HalSteps /\ outcome' = "none"
      \/ step' = "over" /\ outcome' \in {"abort", "exit 0", "exit -1"}
  OBVIOUS
<1> QED BY <1>1, <1>2, <1>3, <1>4, <1>5, HalKeepsInv

\* ParseHalArgs to OpenStream, DataGenerated and the ends: no data is touched.
LEMMA HalOpensInv ==
  ASSUME AudioInv, UNCHANGED libVars,
         ParseHalArgs \/ GetModule \/ OpenDevice \/ OpenFile \/ OpenStream
  PROVE  AudioInv'
<1>1. /\ UNCHANGED <<args, group, hal_size, buffer, reach, progress, answer, elapsed, saved>>
      /\ step \in BeforeData /\ step \in HalSteps
  BY DEF ParseHalArgs, GetModule, OpenDevice, OpenFile, OpenStream, Ends, GoesTo, halVars,
         BeforeData, HalSteps
<1>2. args.test # "brillo"
  BY <1>1, WhichProgram
<1>3. group' \in {"none", "free", "held"} /\ saved' \in Nat /\ open \subseteq {"device", "stream"}
  BY <1>1 DEF AudioInv, TypeOK
<1>4. open' \subseteq {"device", "stream"}
  BY <1>3 DEF ParseHalArgs, GetModule, OpenDevice, OpenFile, OpenStream, halVars
<1>5. outcome = "none"
  BY <1>1 DEF AudioInv, TypeOK, BeforeData
<1>6. \/ step' = "over" /\ outcome' \in {"abort", "exit 0", "exit -1"}
      \/ /\ outcome' = "none" /\ step' \in HalSteps \ {"play_file"}
         /\ step' \in {"sine_data", "generate", "generated", "write_sine"} => Playing /\ ~PlaysFile
         /\ step' \in {"open_file", "file_data"} => PlaysFile
         /\ step' \in {"stream", "file_data"} /\ PlaysFile => args.file # Missing
         /\ step' \in {"recorded_data", "record", "save"} => ~Playing
  <2>1. CASE ParseHalArgs \/ GetModule
    BY <1>5, <2>1 DEF ParseHalArgs, GetModule, Ends, GoesTo, HalSteps, BeforeData
  <2>2. CASE OpenDevice \/ OpenFile
    BY <1>2, <1>5, <2>2 DEF OpenDevice, OpenFile, Ends, GoesTo, HalSteps, BeforeData, AudioInv, HalInv
  <2>3. CASE OpenStream
    BY <1>2, <1>5, <2>3 DEF OpenStream, Ends, GoesTo, HalSteps, BeforeData, AudioInv, HalInv, PlaysFile
  <2> QED BY <2>1, <2>2, <2>3
<1> QED BY <1>1, <1>3, <1>4, <1>6, HalControlKeepsInv

LEMMA HalEndsInv ==
  ASSUME AudioInv, UNCHANGED libVars,
         DataGenerated \/ SineWritten \/ Recorded \/ ClosePlayback \/ CloseRecord \/ Save
  PROVE  AudioInv'
<1>1. /\ UNCHANGED <<args, hal_size, buffer, reach, progress, answer, elapsed>>
      /\ step \in HalSteps /\ step # "over"
  BY DEF DataGenerated, SineWritten, Recorded, ClosePlayback, CloseRecord, Save, Ends, GoesTo,
         halVars, BeforeData, HalSteps
<1>2. args.test # "brillo"
  BY <1>1, WhichProgram
<1>3. group \in {"none", "free", "held"} /\ saved \in Nat /\ open \subseteq {"device", "stream"}
      /\ progress \in Nat /\ outcome = "none"
  BY <1>1 DEF AudioInv, TypeOK
<1>4. group' \in {"none", "free", "held"} /\ open' \subseteq {"device", "stream"}
  BY <1>3 DEF DataGenerated, SineWritten, Recorded, ClosePlayback, CloseRecord, Save, halVars
<1>5. saved' \in Nat
  <2>1. progress \div 2 \in Nat
    BY <1>3, Quotient
  <2>2. (progress \div 2) * 2 \in Nat
    BY <2>1
  <2> QED BY <1>3, <2>2 DEF DataGenerated, SineWritten, Recorded, ClosePlayback, CloseRecord, Save, halVars
<1>6. \/ step' = "over" /\ outcome' \in {"abort", "exit 0", "exit -1"}
      \/ step' = "write_sine" /\ outcome' = "none" /\ Playing /\ ~PlaysFile
      \/ step' = "close" /\ outcome' = "none"
      \/ step' = "save" /\ outcome' = "none" /\ ~Playing
  BY <1>2, <1>3 DEF DataGenerated, SineWritten, Recorded, ClosePlayback, CloseRecord, Save, Ends, GoesTo,
         AudioInv, HalInv
<1>7. \/ step' = "over" /\ outcome' \in {"abort", "exit 0", "exit -1"}
      \/ /\ outcome' = "none" /\ step' \in HalSteps \ {"play_file"}
         /\ step' \in BeforeData => step \in BeforeData
         /\ step' \in {"sine_data", "generate", "generated", "write_sine"} => Playing /\ ~PlaysFile
         /\ step' \in {"open_file", "file_data"} => PlaysFile
         /\ step' \in {"stream", "file_data"} /\ PlaysFile => args.file # Missing
         /\ step' \in {"recorded_data", "record", "save"} => ~Playing
  BY <1>6 DEF HalSteps, BeforeData
<1> QED BY <1>1, <1>4, <1>5, <1>7, HalControlKeepsInv

\* The buffers that the data goes to.
LEMMA HalAllocatesInv ==
  ASSUME AudioInv, UNCHANGED libVars, SineData \/ FileData \/ RecordedData
  PROVE  AudioInv'
<1>1. /\ UNCHANGED <<args, open, reach, progress, answer, elapsed, saved>>
      /\ step \in {"sine_data", "file_data", "recorded_data"}
      /\ step' \in {"generate", "play_file", "record"} /\ outcome' = outcome /\ hal_size' \in HalSizes
  BY DEF SineData, FileData, RecordedData, GoesTo
<1>2. step \in HalSteps /\ step' \in HalSteps /\ args.test # "brillo" /\ args \in Playbacks \cup Records
  BY <1>1, WhichProgram DEF HalSteps, BeforeData
<1>3. reach = 0 /\ progress = 0
  BY <1>1, <1>2 DEF AudioInv, HalInv, BeforeData
<1>4. /\ group' \in {"none", "free", "held"} /\ open' \subseteq {"device", "stream"} /\ saved' \in Nat
      /\ answer' \in {"some", "nothing", "error"} /\ outcome' = "none"
  BY <1>1 DEF AudioInv, TypeOK, SineData, FileData, RecordedData, Starts
<1>5. elapsed' \in BOOLEAN
  BY <1>1 DEF AudioInv, TypeOK
<1>6. hal_size' \in Nat /\ hal_size' > 0
  BY <1>1, HalAssumption
<1>7. FileData => args.file \in Files
  BY <1>2 DEF FileData, AudioInv, HalInv, PlaysFile, Playing, Playbacks, Records
<1>8. buffer' \in Nat
  <2>1. CASE SineData
    BY <1>6, <2>1 DEF SineData
  <2>2. CASE FileData
    <3>1. file_frame \in Nat \ {0}
      BY <1>7, <2>2, HalAssumption DEF file_frame, frame_size
    <3>2. hal_size' \div file_frame \in Nat
      BY <1>6, <3>1, Quotient
    <3> QED BY <2>2, <3>2 DEF FileData
  <2>3. CASE RecordedData
    BY <2>3, HalAssumption DEF RecordedData
  <2> QED BY <2>1, <2>2, <2>3
<1>9. HalInv'
  <2>1. UNCHANGED Playing /\ UNCHANGED PlaysFile
    BY <1>1 DEF Playing, PlaysFile
  <2>2. step' = "generate" => Playing /\ ~PlaysFile
    BY <1>2 DEF SineData, FileData, RecordedData, GoesTo, AudioInv, HalInv
  <2>3. step' = "record" => ~Playing
    BY <1>2 DEF SineData, FileData, RecordedData, GoesTo, AudioInv, HalInv
  <2>4. step' = "play_file" => /\ PlaysFile /\ args.file # Missing /\ 0 <= args.file.frames
                               /\ buffer' = (hal_size' \div file_frame) * 2
    <3> SUFFICES ASSUME step' = "play_file"
                 PROVE  /\ PlaysFile /\ args.file # Missing /\ 0 <= args.file.frames
                        /\ buffer' = (hal_size' \div file_frame) * 2
      OBVIOUS
    <3>1. FileData
      BY DEF SineData, FileData, RecordedData, GoesTo
    <3>2. args.file.frames \in Nat
      BY <1>7, <3>1, HalAssumption
    <3> QED BY <1>2, <3>1, <3>2 DEF FileData, AudioInv, HalInv
  <2> QED BY <1>1, <1>3, <1>6, <1>8, <2>1, <2>2, <2>3, <2>4 DEF HalInv, BeforeData, file_frame
<1> QED BY <1>1, <1>2, <1>3, <1>4, <1>5, <1>6, <1>8, <1>9, HalKeepsInv

LEMMA GenerateDataInv ==
  ASSUME AudioInv, UNCHANGED libVars, GenerateData \/ WriteSine
  PROVE  AudioInv'
<1>1. /\ UNCHANGED <<args, open, hal_size, buffer, answer, elapsed, saved>>
      /\ step \in {"generate", "write_sine"} /\ outcome' = outcome
      /\ step' \in {"generate", "generated", "write_sine", "close"}
  BY DEF GenerateData, WriteSine, GoesTo
<1>2. step \in HalSteps /\ step' \in HalSteps /\ args.test # "brillo"
  BY <1>1, WhichProgram DEF HalSteps, BeforeData
<1>3. /\ Playing /\ ~PlaysFile
      /\ buffer > 0 => hal_size > 0
      /\ hal_size > 0 => reach <= buffer
  BY <1>1, <1>2 DEF AudioInv, HalInv, Fits, PlaysFile
<1>4. /\ group \in {"none", "free", "held"} /\ open' \subseteq {"device", "stream"} /\ saved' \in Nat
      /\ answer' \in {"some", "nothing", "error"} /\ outcome' = "none"
      /\ hal_size \in Nat /\ buffer \in Nat /\ reach \in Nat /\ progress \in Nat
  BY <1>1 DEF AudioInv, TypeOK
<1>5. elapsed' \in BOOLEAN
  BY <1>1 DEF AudioInv, TypeOK
<1>6. group' \in {"none", "free", "held"} /\ progress' \in Nat
  BY <1>4 DEF GenerateData, WriteSine, Reads
<1>7. reach' \in Nat /\ (hal_size > 0 => reach' <= buffer)
  <2>1. CASE GenerateData
    <3>1. sine_bytes(2) \in Nat
      <4>1. frame_size(2, 2) = 4
        BY DEF frame_size
      <4>2. kBufferSize \div 4 \in Nat
        BY HalAssumption, Quotient
      <4> QED BY <4>1, <4>2, Product DEF sine_bytes
    <3>2. reach + sine_bytes(2) \in Nat
      BY <1>4, <3>1
    <3> QED BY <1>4, <2>1, <3>2, MinimumIsLeast DEF GenerateData
  <2>2. CASE WriteSine
    <3>1. PICK bytes_wanted \in HalSizes :
            reach' = IF bytes_to_write(bytes_wanted) > reach THEN bytes_to_write(bytes_wanted) ELSE reach
      BY <2>2 DEF WriteSine
    <3>2. bytes_wanted \in Nat
      BY HalAssumption
    <3>3. bytes_to_write(bytes_wanted) \in Nat /\ bytes_to_write(bytes_wanted) <= buffer
      BY <1>4, <3>2, MinimumIsLeast DEF bytes_to_write
    <3> QED BY <1>3, <1>4, <3>1, <3>3
  <2> QED BY <2>1, <2>2
<1>8. HalInv'
  BY <1>1, <1>3, <1>7 DEF HalInv, BeforeData, Playing, PlaysFile
<1> QED BY <1>1, <1>2, <1>4, <1>5, <1>6, <1>7, <1>8, HalKeepsInv

LEMMA PlayFileInv ==
  ASSUME AudioInv, UNCHANGED libVars, PlayFile
  PROVE  AudioInv'
<1>1. /\ UNCHANGED <<args, group, open, hal_size, buffer, answer, elapsed, saved>>
      /\ step = "play_file" /\ outcome' = outcome /\ step' \in {"play_file", "close"}
  BY DEF PlayFile, GoesTo
<1>2. step \in HalSteps /\ step' \in HalSteps /\ args.test # "brillo" /\ args \in Playbacks \cup Records
  BY <1>1, WhichProgram DEF HalSteps, BeforeData
<1>3. /\ PlaysFile /\ Playing /\ args.file # Missing
      /\ buffer > 0 => hal_size > 0
      /\ hal_size > 0 => (Fits => reach <= buffer)
      /\ progress <= args.file.frames /\ buffer = (hal_size \div file_frame) * 2
  BY <1>1, <1>2 DEF AudioInv, HalInv, PlaysFile
<1>4. /\ group' \in {"none", "free", "held"} /\ open' \subseteq {"device", "stream"} /\ saved' \in Nat
      /\ answer' \in {"some", "nothing", "error"} /\ outcome' = "none"
      /\ hal_size \in Nat /\ buffer \in Nat /\ reach \in Nat /\ progress \in Nat
  BY <1>1 DEF AudioInv, TypeOK
<1>5. elapsed' \in BOOLEAN
  BY <1>1 DEF AudioInv, TypeOK
<1>6. args.file \in Files /\ args.file.channels \in Nat \ {0} /\ args.file.frames \in Nat
  <2>1. args.file \in Files
    BY <1>2, <1>3 DEF PlaysFile, Playing, Playbacks, Records
  <2> QED BY <2>1, HalAssumption
<1>7. file_frame \in Nat \ {0} /\ (args.file.channels = 1 => file_frame = 2)
  BY <1>6 DEF file_frame, frame_size
<1>8. PICK bytes_wanted \in HalSizes :
        LET frames_read == Minimum(bytes_wanted \div file_frame, args.file.frames - progress)
            bytes == frames_read * file_frame
        IN  /\ reach' = IF bytes > reach THEN bytes ELSE reach
            /\ progress' = progress + frames_read
  BY DEF PlayFile
<1> DEFINE frames_read == Minimum(bytes_wanted \div file_frame, args.file.frames - progress)
<1>9. bytes_wanted \in Nat /\ bytes_wanted \div file_frame \in Nat
  BY <1>7, HalAssumption, Quotient
<1>10. /\ frames_read \in Nat /\ frames_read <= bytes_wanted \div file_frame
       /\ frames_read <= args.file.frames - progress
  <2>1. args.file.frames - progress \in Nat
    BY <1>3, <1>4, <1>6
  <2> QED BY <1>9, <2>1, MinimumIsLeast
<1>11. reach' = (IF frames_read * file_frame > reach THEN frames_read * file_frame ELSE reach)
       /\ progress' = progress + frames_read
  BY <1>8
<1> HIDE DEF frames_read
<1>12. frames_read * file_frame \in Nat
  BY <1>7, <1>10, Product
<1>13. reach' \in Nat /\ progress' \in Nat /\ progress' <= args.file.frames
  BY <1>4, <1>6, <1>10, <1>11, <1>12
<1>14. ASSUME hal_size > 0, Fits PROVE reach' <= buffer
  <2>1. reach <= buffer /\ args.file.channels = 1 /\ \A n \in HalSizes : n <= hal_size
    BY <1>3, <1>14 DEF Fits, PlaysFile
  <2>2. file_frame = 2 /\ bytes_wanted <= hal_size
    BY <1>7, <2>1
  <2>3. frames_read * 2 <= (hal_size \div 2) * 2
    BY <1>4, <1>9, <1>10, <2>2, HalvesAreMonotone
  <2>4. buffer = (hal_size \div 2) * 2
    BY <1>3, <2>2
  <2> QED BY <1>4, <1>10, <1>11, <2>1, <2>2, <2>3, <2>4
<1>15. HalInv'
  <2>1. UNCHANGED Fits
    BY <1>1 DEF Fits, Playing
  <2> QED BY <1>1, <1>3, <1>13, <1>14, <2>1 DEF HalInv, BeforeData, Playing, PlaysFile, file_frame
<1> QED BY <1>1, <1>2, <1>4, <1>5, <1>13, <1>15, HalKeepsInv

LEMMA RecordInv ==
  ASSUME AudioInv, UNCHANGED libVars, Record
  PROVE  AudioInv'
<1>1. /\ UNCHANGED <<args, group, open, hal_size, buffer, elapsed, saved>>
      /\ step = "record" /\ outcome' = outcome /\ step' \in {"record", "close"}
      /\ reach' = progress + bytes_to_copy /\ progress < buffer
  BY DEF Record, GoesTo
<1>2. step \in HalSteps /\ step' \in HalSteps /\ args.test # "brillo"
  BY <1>1, WhichProgram DEF HalSteps, BeforeData
<1>3. ~Playing /\ (buffer > 0 => hal_size > 0) /\ progress <= buffer
  BY <1>1, <1>2 DEF AudioInv, HalInv
<1>4. /\ group' \in {"none", "free", "held"} /\ open' \subseteq {"device", "stream"} /\ saved' \in Nat
      /\ answer \in {"some", "nothing", "error"} /\ outcome' = "none"
      /\ hal_size \in Nat /\ buffer \in Nat /\ reach \in Nat /\ progress \in Nat
  BY <1>1 DEF AudioInv, TypeOK
<1>5. elapsed' \in BOOLEAN
  BY <1>1 DEF AudioInv, TypeOK
<1>6. bytes_to_copy \in Nat /\ bytes_to_copy <= buffer - progress
  <2>1. buffer - progress \in Nat
    BY <1>3, <1>4
  <2> QED BY <1>4, <2>1, MinimumIsLeast DEF bytes_to_copy
<1>7. answer' \in {"some", "nothing", "error"}
  BY DEF Record
<1>8. reach' \in Nat /\ reach' <= buffer /\ progress' \in Nat /\ progress' <= buffer
  <2>1. \E n \in {0, 1, bytes_to_copy} : progress' = progress + n
    BY <1>4 DEF Record
  <2> QED BY <1>1, <1>4, <1>6, <2>1
<1>9. HalInv'
  BY <1>1, <1>3, <1>8 DEF HalInv, BeforeData, Playing, PlaysFile
<1> QED BY <1>1, <1>2, <1>4, <1>5, <1>7, <1>8, <1>9, HalKeepsInv

LEMMA ClockInv ==
  ASSUME AudioInv, UNCHANGED libVars, Clock
  PROVE  AudioInv'
<1>1. /\ UNCHANGED <<args, group, step, outcome, open, hal_size, buffer, reach, progress, answer, saved>>
      /\ step = "record"
  BY DEF Clock, sourceVars
<1>2. step \in HalSteps /\ args.test # "brillo"
  BY <1>1, WhichProgram DEF HalSteps, BeforeData
<1>3. elapsed' \in BOOLEAN
  BY DEF Clock
<1>4. HalInv'
  BY <1>1 DEF AudioInv, HalInv, Playing, PlaysFile, Fits, file_frame
<1>5. /\ group \in {"none", "free", "held"} /\ open \subseteq {"device", "stream"} /\ saved \in Nat
      /\ answer \in {"some", "nothing", "error"} /\ outcome = "none"
      /\ hal_size \in Nat /\ buffer \in Nat /\ reach \in Nat /\ progress \in Nat
  BY <1>1 DEF AudioInv, TypeOK
<1> QED BY <1>1, <1>2, <1>3, <1>4, <1>5, HalKeepsInv

--------------------------------------------------------------------------------
(* The tests of the libraries, and their callbacks.                          *)

LEMMA FlagTypes ==
  ASSUME args \in Flags
  PROVE  /\ args.test = "brillo"
         /\ args.libmedia \in BOOLEAN /\ args.stagefright \in BOOLEAN /\ args.playback \in BOOLEAN
         /\ args.record \in BOOLEAN /\ args.sine \in BOOLEAN /\ args.filename \in BOOLEAN
BY DEF Flags

\* What a step of a library test has to show.
LEMMA LibKeepsInv ==
  ASSUME AudioInv, args.test = "brillo", UNCHANGED <<args, halVars>>,
         group' \in {"none", "free", "held"}, media' \in {"none", "made", "running", "stopped"},
         source' \in {"none", "live", "missing", "gone"}, callback' \in {"idle", "busy"},
         late' \in BOOLEAN, recorded' \in Nat, recorded' <= MaxChunks, written' \in Nat,
         out_file' \in {"none", "open", "closed"},
         \/ step' \in LibSteps /\ outcome' = "none"
         \/ step' = "over" /\ outcome' \in {"abort", "error", "exit 0", "exit 1"},
         LibInv'
  PROVE  AudioInv'
<1>1. UNCHANGED <<args, open, hal_size, buffer, reach, progress, answer, elapsed, saved>>
  BY DEF halVars
<1>2. OneProgram'
  BY <1>1 DEF OneProgram
<1>3. HalInv'
  BY <1>1 DEF HalInv
<1>4. step' = "over" <=> outcome' # "none"
  BY DEF LibSteps, BeforeMedia, AfterSleep
<1>5. elapsed' \in BOOLEAN
  BY <1>1 DEF AudioInv, TypeOK
<1>6. TypeOK'
  BY <1>1, <1>4, <1>5 DEF AudioInv, TypeOK
<1> QED BY <1>2, <1>3, <1>6 DEF AudioInv

\* The types of what the library tests keep.
LEMMA LibTypes ==
  ASSUME AudioInv
  PROVE  /\ group \in {"none", "free", "held"} /\ media \in {"none", "made", "running", "stopped"}
         /\ source \in {"none", "live", "missing", "gone"} /\ callback \in {"idle", "busy"}
         /\ recorded \in Nat /\ recorded <= MaxChunks /\ written \in Nat
         /\ out_file \in {"none", "open", "closed"} /\ late \in BOOLEAN
         /\ step \in LibSteps => outcome = "none"
<1>1. late \in BOOLEAN
  BY DEF AudioInv, TypeOK
<1>2. step \in LibSteps => outcome = "none"
  BY DEF AudioInv, TypeOK, LibSteps, BeforeMedia, AfterSleep
<1> QED BY <1>1, <1>2 DEF AudioInv, TypeOK

\* A test that returns goes through the end of its source, which may stop it instead.
LEMMA ReturnsEnds ==
  ASSUME AudioInv, NEW status, Returns(status)
  PROVE  /\ UNCHANGED args /\ step' = "over" /\ group' \in {"none", "free", "held"}
         /\ \/ outcome' = status
            \/ outcome' = "abort" /\ group = "held" /\ args.libmedia /\ args.playback /\ args.sine
<1>1. group \in {"none", "free", "held"}
  BY LibTypes
<1> QED BY <1>1 DEF Returns, Stops, Ends

\* Where a test ends, without success.
LEMMA FailureKeepsInv ==
  ASSUME AudioInv, step \in LibSteps \ {"sleep"}, UNCHANGED <<args, halVars, libVars>>,
         group' \in {"none", "free", "held"}, step' = "over", outcome' \in {"abort", "error", "exit 1"},
         outcome' = "abort" /\ args.playback => step \in BeforeMedia \cup {"start"}
  PROVE  AudioInv'
<1>1. UNCHANGED <<args, media, source, callback, late, recorded, written, out_file>>
  BY DEF libVars
<1>2. args.test = "brillo"
  BY WhichProgram
<1>3. MediaFollowsStep /\ CallbackIsInTime /\ FillsFromLiveSource
  BY <1>2 DEF AudioInv, LibInv
<1>4. MediaFollowsStep'
  BY <1>1, <1>3 DEF MediaFollowsStep, BeforeMedia, AfterSleep
<1>5. CallbackIsInTime' /\ FillsFromLiveSource'
  BY <1>1, <1>3 DEF CallbackIsInTime, FillsFromLiveSource
<1>6. SuccessMeansPlayed'
  BY <1>1, <1>3 DEF SuccessMeansPlayed, MediaFollowsStep
<1>7. FlagsChooseStep' /\ SourceIsHeld' /\ RecordingIsComplete'
  BY DEF FlagsChooseStep, SourceIsHeld, RecordingIsComplete, LibSteps, BeforeMedia, AfterSleep
<1>8. LibInv'
  BY <1>4, <1>5, <1>6, <1>7 DEF LibInv
<1>9. late' \in BOOLEAN
  BY <1>1, LibTypes
<1> QED BY <1>1, <1>2, <1>8, <1>9, LibTypes, LibKeepsInv

\* The tests that have not got as far as sleep, and go on.
LEMMA EarlyStepKeepsInv ==
  ASSUME AudioInv, step \in BeforeMedia \cup {"start"}, UNCHANGED <<args, halVars>>, outcome' = "none",
         group' \in {"none", "free", "held"}, UNCHANGED <<callback, late, recorded, written, out_file>>,
         step' \in (BeforeMedia \ {"flags"}) \cup {"start", "sleep"},
         source' \in {"none", "live", "missing", "gone"}, media' \in {"none", "made", "running", "stopped"},
         FlagsChooseStep', SourceIsHeld',
         step' \in BeforeMedia => media' = "none",
         step' = "start" => media' \in {"none", "made"},
         step' = "sleep" => media' = "running"
  PROVE  AudioInv'
<1>1. step \in LibSteps /\ step' \in LibSteps /\ args.test = "brillo"
  BY WhichProgram DEF LibSteps
<1>2. MediaFollowsStep /\ CallbackIsInTime
  BY <1>1 DEF AudioInv, LibInv
<1>3. callback = "idle"
  BY <1>2, LibTypes DEF MediaFollowsStep, CallbackIsInTime, BeforeMedia
<1>4. MediaFollowsStep'
  BY DEF MediaFollowsStep, BeforeMedia, AfterSleep
<1>5. CallbackIsInTime' /\ FillsFromLiveSource'
  BY <1>3 DEF CallbackIsInTime, FillsFromLiveSource
<1>6. RecordingIsComplete' /\ SuccessMeansPlayed'
  BY DEF RecordingIsComplete, SuccessMeansPlayed
<1>7. step' # "close_out" /\ step' # "played"
  BY DEF BeforeMedia
<1>8. LibInv'
  BY <1>4, <1>5, <1>6, <1>7 DEF LibInv
<1>9. late' \in BOOLEAN
  BY LibTypes
<1> QED BY <1>1, <1>8, <1>9, LibTypes, LibKeepsInv

LEMMA ParseFlagsInv ==
  ASSUME AudioInv, UNCHANGED halVars, ParseFlags
  PROVE  AudioInv'
<1>1. step = "flags" /\ UNCHANGED <<group, libVars>>
  BY DEF ParseFlags
<1>2. step \in LibSteps \ {"sleep"} /\ step \in BeforeMedia
  BY <1>1 DEF LibSteps, BeforeMedia
<1>3. args \in Flags /\ media = "none" /\ outcome = "none" /\ group' \in {"none", "free", "held"}
  BY <1>1, <1>2, WhichProgram, LibTypes, FlagTypes DEF AudioInv, LibInv, MediaFollowsStep
<1>4. CASE ~ValidFlags
  <2>1. step' = "over" /\ outcome' = "exit 1" /\ UNCHANGED args
    BY <1>4 DEF ParseFlags, Ends
  <2> QED BY <1>1, <1>2, <1>3, <2>1, FailureKeepsInv
<1>5. CASE ValidFlags
  <2>1. args.record <=> ~args.playback
    BY <1>3, <1>5, FlagTypes DEF ValidFlags, OneOf
  <2>2. /\ UNCHANGED <<args, outcome>>
        /\ \/ step' = "init_sine" /\ args.playback /\ args.sine
           \/ step' = "init_file" /\ args.playback /\ ~args.sine /\ args.libmedia
           \/ step' = "file_source" /\ args.playback /\ ~args.sine /\ ~args.libmedia
           \/ step' = "min_frames" /\ args.record /\ args.libmedia
           \/ step' = "audio_source" /\ args.record /\ ~args.libmedia
    BY <1>5, <2>1 DEF ParseFlags, GoesTo
  <2>3. FlagsChooseStep' /\ SourceIsHeld'
    BY <2>1, <2>2 DEF FlagsChooseStep, SourceIsHeld
  <2>4. step' \in BeforeMedia \ {"flags"}
    BY <2>2 DEF BeforeMedia
  <2>5. UNCHANGED <<media, source, callback, late, recorded, written, out_file>>
    BY <1>1 DEF libVars
  <2>6. step' # "start" /\ step' # "sleep"
    BY <2>2
  <2> QED BY <1>2, <1>3, <2>2, <2>3, <2>4, <2>5, <2>6, LibTypes, EarlyStepKeepsInv
<1> QED BY <1>4, <1>5

\* A step before sleep that returns instead.
LEMMA EarlyReturnInv ==
  ASSUME AudioInv, step \in BeforeMedia \cup {"start"}, UNCHANGED <<halVars, libVars>>, Returns("error")
  PROVE  AudioInv'
<1>1. step \in LibSteps \ {"sleep"}
  BY DEF LibSteps, BeforeMedia
<1>2. UNCHANGED args /\ step' = "over" /\ group' \in {"none", "free", "held"} /\ outcome' \in {"error", "abort"}
  BY ReturnsEnds
<1> QED BY <1>1, <1>2, FailureKeepsInv

\* What the flags say of the steps before sleep.
LEMMA EarlyFacts ==
  ASSUME AudioInv, step \in BeforeMedia \cup {"start"}
  PROVE  /\ args \in Flags /\ outcome = "none" /\ FlagsChooseStep /\ SourceIsHeld
         /\ step \in BeforeMedia => media = "none"
         /\ step = "start" => media \in {"none", "made"}
         /\ step # "flags" => (args.record <=> ~args.playback)
<1>1. step \in LibSteps
  BY DEF LibSteps
<1>2. args \in Flags /\ args.test = "brillo" /\ outcome = "none"
  BY <1>1, WhichProgram, LibTypes
<1>3. FlagsChooseStep /\ SourceIsHeld /\ MediaFollowsStep
  BY <1>2 DEF AudioInv, LibInv
<1> QED BY <1>1, <1>2, <1>3 DEF MediaFollowsStep, FlagsChooseStep

LEMMA SourcesInv ==
  ASSUME AudioInv, UNCHANGED halVars, InitSine \/ InitFile \/ FileSource
  PROVE  AudioInv'
<1>1. /\ step \in {"init_sine", "init_file", "file_source"}
      /\ UNCHANGED <<media, callback, late, recorded, written, out_file>>
  BY DEF InitSine, InitFile, FileSource
<1>2. step \in BeforeMedia /\ step \in LibSteps \ {"sleep"} /\ step # "flags"
  BY <1>1 DEF LibSteps, BeforeMedia
<1>3. /\ args \in Flags /\ outcome = "none" /\ FlagsChooseStep /\ media = "none"
      /\ args.record <=> ~args.playback
  BY <1>2, EarlyFacts
<1>4. CASE Ends("abort") /\ UNCHANGED <<group, source>>
  <2>1. UNCHANGED libVars /\ UNCHANGED args /\ step' = "over" /\ outcome' = "abort"
    BY <1>1, <1>4 DEF Ends, libVars
  <2> QED BY <1>2, <1>4, <2>1, LibTypes, FailureKeepsInv
<1>5. CASE Returns("error") /\ UNCHANGED source
  <2>1. UNCHANGED libVars
    BY <1>1, <1>5 DEF libVars
  <2> QED BY <1>2, <1>5, <2>1, EarlyReturnInv
<1>6. CASE /\ UNCHANGED <<args, outcome>> /\ source' \in {"live", "missing"} /\ group' \in {group, "free"}
           /\ \/ step = "init_sine" /\ step' = IF args.libmedia THEN "read_sine" ELSE "start"
              \/ step = "init_file" /\ step' = "media"
              \/ step = "file_source" /\ step' = "start"
  <2>1. step' \in {"read_sine", "start", "media"}
    BY <1>6
  <2>2. FlagsChooseStep'
    BY <1>3, <1>6, <2>1 DEF FlagsChooseStep
  <2>3. SourceIsHeld'
    BY <1>6 DEF SourceIsHeld
  <2>4. step' \in (BeforeMedia \ {"flags"}) \cup {"start", "sleep"} /\ step' # "sleep"
    BY <2>1 DEF BeforeMedia
  <2>5. group' \in {"none", "free", "held"}
    BY <1>6, LibTypes
  <2> QED BY <1>1, <1>2, <1>3, <1>6, <2>2, <2>3, <2>4, <2>5, EarlyStepKeepsInv
<1> QED BY <1>4, <1>5, <1>6 DEF InitSine, InitFile, FileSource, Starts, GoesTo

LEMMA OpensMediaInv ==
  ASSUME AudioInv, UNCHANGED halVars, ReadSine \/ InitCheck \/ Start \/ MinFrameCount \/ AudioSource
  PROVE  AudioInv'
<1>1. /\ step \in {"read_sine", "media", "start", "min_frames", "audio_source"}
      /\ UNCHANGED <<source, callback, late, recorded, written, out_file>>
  BY DEF ReadSine, InitCheck, Start, MinFrameCount, AudioSource, libVars
<1>2. step \in BeforeMedia \cup {"start"} /\ step # "flags"
  BY <1>1 DEF BeforeMedia
<1>3. /\ args \in Flags /\ outcome = "none" /\ FlagsChooseStep /\ SourceIsHeld
      /\ step \in BeforeMedia => media = "none"
      /\ args.record <=> ~args.playback
  BY <1>2, EarlyFacts
<1>4. CASE Returns("error") /\ UNCHANGED media
  <2>1. UNCHANGED libVars
    BY <1>1, <1>4 DEF libVars
  <2> QED BY <1>2, <1>4, <2>1, EarlyReturnInv
<1>5. CASE /\ UNCHANGED <<args, outcome>> /\ group' \in {group, "held"}
           /\ \/ step \in {"read_sine", "min_frames"} /\ step' = "media" /\ UNCHANGED media
              \/ step \in {"media", "audio_source"} /\ step' = "start" /\ media' = "made"
              \/ step = "start" /\ step' = "sleep" /\ media' = "running"
  <2>1. step' \in {"media", "start", "sleep"}
    BY <1>5
  <2>2. FlagsChooseStep'
    BY <1>3, <1>5, <2>1 DEF FlagsChooseStep
  <2>3. SourceIsHeld'
    BY <1>1, <1>3, <1>5 DEF SourceIsHeld, FlagsChooseStep
  <2>4. step' \in (BeforeMedia \ {"flags"}) \cup {"start", "sleep"}
    BY <2>1 DEF BeforeMedia
  <2>5. group' \in {"none", "free", "held"}
    BY <1>5, LibTypes
  <2>6. /\ step' \in BeforeMedia => media' = "none"
        /\ step' = "start" => media' \in {"none", "made"}
        /\ step' = "sleep" => media' = "running"
        /\ media' \in {"none", "made", "running", "stopped"}
    BY <1>3, <1>5 DEF BeforeMedia
  <2> QED BY <1>1, <1>2, <1>3, <1>5, <2>2, <2>3, <2>4, <2>5, <2>6, LibTypes, EarlyStepKeepsInv
<1> QED BY <1>4, <1>5 DEF ReadSine, InitCheck, Start, MinFrameCount, AudioSource, Reads, GoesTo, libVars

\* What holds from sleep on.
LEMMA LateFacts ==
  ASSUME AudioInv, step \in AfterSleep \cup {"sleep"}
  PROVE  /\ args \in Flags /\ args.test = "brillo" /\ outcome = "none" /\ step \in LibSteps
         /\ FlagsChooseStep /\ MediaFollowsStep /\ CallbackIsInTime /\ SourceIsHeld /\ FillsFromLiveSource
         /\ args.record <=> ~args.playback
         /\ callback = "busy" /\ step # "sleep" => late
<1>1. step \in LibSteps /\ step # "flags"
  BY DEF LibSteps, AfterSleep
<1>2. args \in Flags /\ args.test = "brillo" /\ outcome = "none"
  BY <1>1, WhichProgram, LibTypes
<1>3. FlagsChooseStep /\ MediaFollowsStep /\ CallbackIsInTime /\ SourceIsHeld /\ FillsFromLiveSource
  BY <1>2 DEF AudioInv, LibInv
<1>4. args.record <=> ~args.playback
  BY <1>1, <1>3 DEF FlagsChooseStep
<1>5. callback = "busy" /\ step # "sleep" => late
  BY <1>3 DEF CallbackIsInTime, MediaFollowsStep
<1> QED BY <1>1, <1>2, <1>3, <1>4, <1>5

LEMMA StopInv ==
  ASSUME AudioInv, UNCHANGED halVars, Stop
  PROVE  AudioInv'
<1> DEFINE stops == args.libmedia \/ (args.playback /\ args.sine)
<1>1. /\ step = "sleep" /\ UNCHANGED <<args, outcome, group, source, callback, recorded, written, out_file>>
      /\ media' = (IF stops THEN "stopped" ELSE media)
      /\ late' = (stops /\ callback = "busy")
      /\ step' = IF args.record THEN "open_out" ELSE IF args.libmedia THEN "release" ELSE "played"
  BY DEF Stop, GoesTo
<1>2. /\ args.test = "brillo" /\ outcome = "none" /\ media = "running"
      /\ CallbackIsInTime /\ SourceIsHeld /\ FillsFromLiveSource
      /\ args.record <=> ~args.playback
  BY <1>1, LateFacts DEF MediaFollowsStep
<1>3. media' \in {"running", "stopped"} /\ (args.libmedia => media' = "stopped")
  BY <1>1, <1>2
<1>4. step' \in {"open_out", "release", "played"} /\ step' \in LibSteps /\ late' \in BOOLEAN
  BY <1>1 DEF LibSteps, AfterSleep
<1>5. FlagsChooseStep'
  BY <1>1, <1>2 DEF FlagsChooseStep
<1>6. MediaFollowsStep'
  BY <1>1, <1>3, <1>4 DEF MediaFollowsStep, BeforeMedia, AfterSleep
<1>7. callback' = "busy" => late' /\ args.libmedia
  BY <1>1, <1>2 DEF CallbackIsInTime
<1>8. CallbackIsInTime' /\ FillsFromLiveSource'
  BY <1>1, <1>3, <1>7 DEF CallbackIsInTime, FillsFromLiveSource
<1>9. SourceIsHeld'
  BY <1>1, <1>2 DEF SourceIsHeld
<1>10. step' = "played" => ~args.libmedia
  BY <1>1
<1>11. RecordingIsComplete' /\ SuccessMeansPlayed'
  BY <1>1, <1>2 DEF RecordingIsComplete, SuccessMeansPlayed
<1>12. LibInv'
  BY <1>1, <1>4, <1>5, <1>6, <1>8, <1>9, <1>10, <1>11 DEF LibInv
<1> QED BY <1>1, <1>2, <1>3, <1>4, <1>12, LibTypes, LibKeepsInv

LEMMA ReleaseInv ==
  ASSUME AudioInv, UNCHANGED halVars, Release
  PROVE  AudioInv'
<1>1. /\ step = "release" /\ step' = "played" /\ source' = "gone"
      /\ group' = (IF args.sine THEN "free" ELSE group)
      /\ UNCHANGED <<args, outcome, media, callback, late, recorded, written, out_file>>
  BY DEF Release, GoesTo
<1>2. step \in AfterSleep
  BY <1>1 DEF AfterSleep
<1>3. /\ args.test = "brillo" /\ outcome = "none" /\ FlagsChooseStep /\ MediaFollowsStep /\ CallbackIsInTime
      /\ args.record <=> ~args.playback
      /\ callback = "busy" => late
  BY <1>1, <1>2, LateFacts
<1>4. FlagsChooseStep' /\ SourceIsHeld'
  BY <1>1, <1>3 DEF FlagsChooseStep, SourceIsHeld
<1>5. MediaFollowsStep' /\ CallbackIsInTime'
  BY <1>1, <1>3 DEF MediaFollowsStep, CallbackIsInTime, BeforeMedia, AfterSleep
<1>6. FillsFromLiveSource'
  BY <1>1, <1>3 DEF FillsFromLiveSource
<1>7. RecordingIsComplete' /\ SuccessMeansPlayed'
  BY <1>1, <1>3 DEF RecordingIsComplete, SuccessMeansPlayed
<1>8. group' \in {"none", "free", "held"} /\ (args.sine => group' # "held") /\ late' \in BOOLEAN
  BY <1>1, LibTypes
<1>9. LibInv'
  BY <1>1, <1>4, <1>5, <1>6, <1>7, <1>8 DEF LibInv
<1>10. step' \in LibSteps
  BY <1>1 DEF LibSteps, AfterSleep
<1> QED BY <1>1, <1>3, <1>8, <1>9, <1>10, LibTypes, LibKeepsInv

\* The two steps that end a test with success.
LEMMA SuccessInv ==
  ASSUME AudioInv, UNCHANGED halVars, Played \/ CloseOutFile
  PROVE  AudioInv'
<1>1. /\ step \in {"played", "close_out"} /\ Returns("exit 0")
      /\ UNCHANGED <<media, source, callback, late, recorded, written>>
      /\ out_file' = IF step = "close_out" THEN "closed" ELSE out_file
  BY DEF Played, CloseOutFile, libVars
<1>2. step \in AfterSleep
  BY <1>1 DEF AfterSleep
<1>3. /\ args.test = "brillo" /\ FlagsChooseStep /\ MediaFollowsStep /\ CallbackIsInTime /\ FillsFromLiveSource
      /\ args.record <=> ~args.playback
  BY <1>2, LateFacts
<1>4. /\ step = "close_out" => args.record
      /\ step = "played" => args.playback
  BY <1>3 DEF FlagsChooseStep
<1>5. /\ UNCHANGED args /\ step' = "over" /\ outcome' = "exit 0" /\ group' \in {"none", "free", "held"}
  <2>1. ~(group = "held" /\ args.libmedia /\ args.playback /\ args.sine)
    BY <1>1, <1>3, <1>4 DEF AudioInv, LibInv
  <2> QED BY <1>1, <2>1, ReturnsEnds
<1>6. media \in {"running", "stopped"}
  BY <1>2, <1>3 DEF MediaFollowsStep
<1>7. FlagsChooseStep' /\ SourceIsHeld'
  BY <1>5 DEF FlagsChooseStep, SourceIsHeld, LibSteps, BeforeMedia, AfterSleep
<1>8. MediaFollowsStep'
  BY <1>1, <1>2, <1>3, <1>5 DEF MediaFollowsStep, BeforeMedia, AfterSleep
<1>9. CallbackIsInTime' /\ FillsFromLiveSource'
  BY <1>1, <1>3, <1>5 DEF CallbackIsInTime, FillsFromLiveSource
<1>10. SuccessMeansPlayed'
  BY <1>1, <1>5, <1>6 DEF SuccessMeansPlayed
<1>11. RecordingIsComplete'
  <2>1. step = "close_out" /\ args.libmedia /\ ~late => written = recorded
    BY <1>3 DEF AudioInv, LibInv
  <2> QED BY <1>1, <1>3, <1>4, <1>5, <2>1 DEF RecordingIsComplete
<1>12. LibInv'
  BY <1>5, <1>7, <1>8, <1>9, <1>10, <1>11 DEF LibInv
<1>13. late' \in BOOLEAN /\ out_file' \in {"none", "open", "closed"}
  BY <1>1, LibTypes
<1> QED BY <1>1, <1>3, <1>5, <1>12, <1>13, LibTypes, LibKeepsInv

LEMMA WritesOutInv ==
  ASSUME AudioInv, UNCHANGED halVars, OpenOutFile \/ WriteRecorded \/ WriteRead
  PROVE  AudioInv'
<1>1. /\ step \in {"open_out", "write_out"}
      /\ UNCHANGED <<media, source, callback, late>>
  BY DEF OpenOutFile, WriteRecorded, WriteRead
<1>2. step \in AfterSleep
  BY <1>1 DEF AfterSleep
<1>3. /\ args.test = "brillo" /\ outcome = "none" /\ step \in LibSteps \ {"sleep"}
      /\ FlagsChooseStep /\ MediaFollowsStep /\ CallbackIsInTime /\ FillsFromLiveSource
      /\ args.record <=> ~args.playback
  BY <1>1, <1>2, LateFacts
<1>4. args.record /\ ~args.playback
  BY <1>1, <1>3 DEF FlagsChooseStep
<1>5. CASE (Returns("error") \/ (Ends("abort") /\ UNCHANGED group)) /\ UNCHANGED libVars
  <2>1. /\ UNCHANGED args /\ step' = "over" /\ outcome' \in {"abort", "error"}
        /\ group' \in {"none", "free", "held"}
    BY <1>5, ReturnsEnds, LibTypes DEF Ends
  <2> QED BY <1>3, <1>4, <1>5, <2>1, FailureKeepsInv
<1>6. CASE /\ UNCHANGED <<args, outcome, group>> /\ step' \in {"write_out", "close_out"}
           /\ out_file' \in {out_file, "open"}
           /\ recorded' \in {recorded, MaxChunks} /\ written' \in {written, written + 1, recorded}
           /\ step' = "close_out" /\ args.libmedia => written' = recorded'
  <2>1. FlagsChooseStep' /\ SourceIsHeld'
    BY <1>3, <1>4, <1>6 DEF FlagsChooseStep, SourceIsHeld
  <2>2. MediaFollowsStep'
    BY <1>1, <1>2, <1>3, <1>6 DEF MediaFollowsStep, BeforeMedia, AfterSleep
  <2>3. CallbackIsInTime' /\ FillsFromLiveSource'
    BY <1>1, <1>3, <1>6 DEF CallbackIsInTime, FillsFromLiveSource
  <2>4. RecordingIsComplete' /\ SuccessMeansPlayed'
    BY <1>3, <1>6 DEF RecordingIsComplete, SuccessMeansPlayed
  <2>5. LibInv'
    BY <1>6, <2>1, <2>2, <2>3, <2>4 DEF LibInv
  <2>6. recorded' \in Nat /\ recorded' <= MaxChunks /\ written' \in Nat /\ out_file' \in {"none", "open", "closed"}
    BY <1>6, LibTypes, LibraryAssumption
  <2>7. late' \in BOOLEAN /\ step' \in LibSteps
    BY <1>1, <1>6, LibTypes DEF LibSteps, AfterSleep
  <2> QED BY <1>1, <1>3, <1>6, <2>5, <2>6, <2>7, LibTypes, LibKeepsInv
<1>7. CASE OpenOutFile
  BY <1>5, <1>6, <1>7 DEF OpenOutFile, GoesTo, libVars
<1>8. CASE WriteRecorded
  BY <1>5, <1>6, <1>8 DEF WriteRecorded, GoesTo, libVars
<1>9. CASE WriteRead
  BY <1>6, <1>9 DEF WriteRead, GoesTo
<1> QED BY <1>7, <1>8, <1>9

LEMMA CallbackStepInv ==
  ASSUME AudioInv, UNCHANGED halVars, CallbackStep
  PROVE  AudioInv'
<1>1. /\ UNCHANGED <<args, group, step, outcome, media, source, late, written, out_file>> /\ step # "over"
      /\ \/ media = "running" /\ args.libmedia /\ callback' = "busy" /\ recorded' = recorded
         \/ /\ callback = "busy" /\ callback' = "idle"
            /\ \/ recorded < MaxChunks /\ recorded' = recorded + 1
               \/ recorded' = recorded
  BY DEF CallbackStep, CallbackBegins, CallbackEnds, sourceVars
<1>2. args.test = "brillo" /\ step \in LibSteps /\ outcome = "none"
  <2>1. args.test = "brillo"
    BY <1>1 DEF AudioInv, OneProgram
  <2>2. step \in LibSteps
    BY <1>1, <2>1 DEF AudioInv, OneProgram
  <2> QED BY <2>1, <2>2, LibTypes
<1>3. /\ FlagsChooseStep /\ MediaFollowsStep /\ CallbackIsInTime /\ SourceIsHeld
      /\ step = "close_out" /\ args.libmedia /\ ~late => written = recorded
      /\ step = "played" /\ args.libmedia /\ args.sine => group # "held"
  BY <1>2 DEF AudioInv, LibInv
<1>4. FlagsChooseStep' /\ MediaFollowsStep' /\ SourceIsHeld'
  BY <1>1, <1>3 DEF FlagsChooseStep, MediaFollowsStep, SourceIsHeld
<1>5. CallbackIsInTime'
  BY <1>1, <1>3 DEF CallbackIsInTime
<1>6. FillsFromLiveSource'
  <2>1. callback' = "busy" => step = "sleep" /\ args.libmedia
    BY <1>1, <1>3 DEF MediaFollowsStep
  <2> QED BY <1>1, <1>3, <2>1 DEF FillsFromLiveSource, SourceIsHeld
<1>7. step = "close_out" /\ args.libmedia /\ ~late => written' = recorded'
  <2>1. step = "close_out" /\ args.libmedia => media = "stopped"
    BY <1>3 DEF MediaFollowsStep, AfterSleep
  <2> QED BY <1>1, <1>3, <2>1 DEF CallbackIsInTime
<1>8. RecordingIsComplete' /\ SuccessMeansPlayed'
  BY <1>1, <1>2 DEF RecordingIsComplete, SuccessMeansPlayed
<1>9. LibInv'
  BY <1>1, <1>3, <1>4, <1>5, <1>6, <1>7, <1>8 DEF LibInv
<1>10. recorded' \in Nat /\ recorded' <= MaxChunks /\ callback' \in {"idle", "busy"}
  BY <1>1, LibTypes, LibraryAssumption
<1>11. late' \in BOOLEAN
  BY <1>1, LibTypes
<1> QED BY <1>1, <1>2, <1>9, <1>10, <1>11, LibTypes, LibKeepsInv

--------------------------------------------------------------------------------
(* All three programs.                                                       *)

LEMMA AudioInvInit ==
  Init => AudioInv
<1> SUFFICES ASSUME Init PROVE AudioInv
  OBVIOUS
<1>1. /\ \/ args \in Playbacks \cup Records /\ args.test # "brillo" /\ step = "hal_args"
         \/ args \in Flags /\ args.test = "brillo" /\ step = "flags"
      /\ group = "none" /\ outcome = "none"
  BY DEF Init, Playbacks, Records, Flags
<1>2. open = {} /\ hal_size = 0 /\ buffer = 0 /\ reach = 0 /\ progress = 0 /\ answer = "some" /\ saved = 0
  BY DEF Init, HalInit
<1>3. /\ media = "none" /\ source = "none" /\ callback = "idle" /\ recorded = 0 /\ written = 0
      /\ out_file = "none"
  BY DEF Init, LibInit
<1>4. elapsed \in BOOLEAN /\ late \in BOOLEAN
  BY DEF Init, HalInit, LibInit
<1>5. TypeOK
  BY <1>1, <1>2, <1>3, <1>4, LibraryAssumption DEF TypeOK
<1>6. OneProgram
  BY <1>1, <1>3 DEF OneProgram, HalSteps, BeforeData, LibSteps, BeforeMedia
<1>7. HalInv
  BY <1>1, <1>2 DEF HalInv
<1>8. LibInv
  BY <1>1, <1>3 DEF LibInv, FlagsChooseStep, MediaFollowsStep, CallbackIsInTime, SourceIsHeld,
     FillsFromLiveSource, RecordingIsComplete, SuccessMeansPlayed, BeforeMedia, AfterSleep
<1> QED BY <1>5, <1>6, <1>7, <1>8 DEF AudioInv

LEMMA AudioInvStutter ==
  AudioInv /\ UNCHANGED vars => AudioInv'
<1> SUFFICES ASSUME AudioInv, UNCHANGED vars PROVE AudioInv'
  OBVIOUS
<1>1. /\ UNCHANGED <<args, group, step, outcome>>
      /\ UNCHANGED <<open, hal_size, buffer, reach, progress, answer, elapsed, saved>>
      /\ UNCHANGED <<media, source, callback, late, recorded, written, out_file>>
  BY DEF vars, sourceVars, halVars, libVars
<1>2. TypeOK' /\ OneProgram'
  <2>1. elapsed' \in BOOLEAN /\ late' \in BOOLEAN
    BY <1>1 DEF AudioInv, TypeOK
  <2>2. (step = "over" <=> outcome # "none")'
    BY <1>1 DEF AudioInv, TypeOK
  <2>3. /\ args' \in Playbacks \cup Records \cup Flags /\ open' \subseteq {"device", "stream"}
        /\ answer' \in {"some", "nothing", "error"}
        /\ outcome' \in {"none", "abort", "error", "exit 0", "exit 1", "exit -1"}
    BY <1>1 DEF AudioInv, TypeOK
  <2>4. /\ hal_size' \in Nat /\ buffer' \in Nat /\ reach' \in Nat /\ progress' \in Nat /\ saved' \in Nat
        /\ recorded' \in Nat /\ recorded' <= MaxChunks /\ written' \in Nat
    BY <1>1, HalNumbers, LibTypes
  <2>5. /\ group' \in {"none", "free", "held"} /\ media' \in {"none", "made", "running", "stopped"}
        /\ source' \in {"none", "live", "missing", "gone"} /\ callback' \in {"idle", "busy"}
        /\ out_file' \in {"none", "open", "closed"}
    BY <1>1, LibTypes
  <2>6. TypeOK'
    BY <2>1, <2>2, <2>3, <2>4, <2>5 DEF TypeOK
  <2> QED BY <1>1, <2>6 DEF AudioInv, OneProgram
<1>3. HalInv'
  BY <1>1 DEF AudioInv, HalInv, Playing, PlaysFile, Fits, file_frame
<1>4. LibInv'
  BY <1>1 DEF AudioInv, LibInv, FlagsChooseStep, MediaFollowsStep, CallbackIsInTime, SourceIsHeld,
     FillsFromLiveSource, RecordingIsComplete, SuccessMeansPlayed
<1> QED BY <1>2, <1>3, <1>4 DEF AudioInv

\* The audio tests keep their invariant: what is in the buffer, what the callbacks may
\* touch and what has been reported fit the step of the main thread.
THEOREM AudioInvariance == Spec => []AudioInv
<1>1. Init => AudioInv
  BY AudioInvInit
<1>2. AudioInv /\ [Next]_vars => AudioInv'
  <2> SUFFICES ASSUME AudioInv, [Next]_vars PROVE AudioInv'
    OBVIOUS
  <2>1. CASE HalStep /\ UNCHANGED libVars
    BY <2>1, HalOpensInv, HalEndsInv, HalAllocatesInv, GenerateDataInv, PlayFileInv, RecordInv DEF HalStep
  <2>2. CASE MainStep /\ UNCHANGED halVars
    BY <2>2, ParseFlagsInv, SourcesInv, OpensMediaInv, StopInv, ReleaseInv, SuccessInv, WritesOutInv
       DEF MainStep
  <2>3. CASE Clock /\ UNCHANGED libVars
    BY <2>3, ClockInv
  <2>4. CASE CallbackStep /\ UNCHANGED halVars
    BY <2>4, CallbackStepInv
  <2>5. CASE UNCHANGED vars
    BY <2>5, AudioInvStutter
  <2> QED BY <2>1, <2>2, <2>3, <2>4, <2>5 DEF Next, Main
<1> QED BY <1>1, <1>2, PTL DEF Spec

\* The state of the audio tests keeps its types, and a program is over when it has an
\* outcome.
THEOREM AudioTypeCorrect == Spec => []TypeOK
<1>1. AudioInv => TypeOK
  BY DEF AudioInv
<1> QED BY <1>1, AudioInvariance, PTL

\* Whatever sizes a HAL answers with, the sine and the recording stay in what was
\* allocated for them, and so does a file of one channel for a HAL that asks for no more
\* than it said (audio_hal_playback_test.cpp:91-99, audio_hal_record_test.cpp:109-127).
THEOREM BuffersAreKept == Spec => []StaysInBuffer
<1>1. AudioInv => StaysInBuffer
  BY DEF AudioInv, HalInv, StaysInBuffer
<1> QED BY <1>1, AudioInvariance, PTL

\* Wherever the callbacks of a track fall, they fill from a source that is there, but
\* for one that stop() has not waited for (libmedia_playback.cpp:50-81, 126-132).
THEOREM SourceIsLive == Spec => []FillsFromLiveSource
<1>1. AudioInv => FillsFromLiveSource
  BY DEF AudioInv, OneProgram, LibInv, FillsFromLiveSource
<1> QED BY <1>1, AudioInvariance, PTL

\* A recording reported as a success is in the closed file, with every chunk that the
\* callbacks delivered before stop() returned (libmedia_record.cpp:94-134).
THEOREM RecordingsAreComplete == Spec => []RecordingIsComplete
<1>1. AudioInv => RecordingIsComplete
  BY DEF AudioInv, LibInv, RecordingIsComplete
<1> QED BY <1>1, AudioInvariance, PTL

\* No test is reported as run that has not been started, and no sine that has been
\* played stops the program (brillo_audio_test.cpp:106-151).
THEOREM SuccessIsEarned == Spec => []SuccessMeansPlayed
<1>1. AudioInv => SuccessMeansPlayed
  BY DEF AudioInv, LibInv, SuccessMeansPlayed
<1> QED BY <1>1, AudioInvariance, PTL
================================================================================
