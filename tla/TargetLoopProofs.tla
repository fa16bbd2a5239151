-------------------------- MODULE TargetLoopProofs --------------------------
(***************************************************************************)
(* Sessions survive every interruption, the error limit is earned, and no  *)
(* request is lost or repeated over targets, directories and processes,    *)
(* for every list of targets and directories, wordlist length, number of   *)
(* sessions, signals and processes.                                        *)
(***************************************************************************)
EXTENDS TargetLoop, SequenceTheorems, TLAPS

-----------------------------------------------------------------------------
(* Sequences without repetition                                            *)

\* The members of a sequence are its first and the members of the rest.
LEMMA TailMembers ==
  ASSUME NEW S, NEW s \in Seq(S), s # <<>>
  PROVE  /\ Tail(s) \in Seq(S) /\ Head(s) \in S
         /\ ToSet(s) = {Head(s)} \cup ToSet(Tail(s))
         /\ ToSet(s) \subseteq S
         /\ IsInjective(s) => IsInjective(Tail(s)) /\ Head(s) \notin ToSet(Tail(s))
<1> DEFINE r == Tail(s)
<1>1. /\ Len(s) \in Nat \ {0} /\ DOMAIN s = 1 .. Len(s)
      /\ \A i \in 1 .. Len(s) : s[i] \in S
  BY EmptySeq, LenProperties, ElementOfSeq
<1>2. /\ r \in Seq(S) /\ Len(r) = Len(s) - 1 /\ Head(s) = s[1]
      /\ \A i \in 1 .. Len(r) : r[i] = s[i + 1]
  BY HeadTailProperties, <1>1
<1>3. DOMAIN r = 1 .. Len(s) - 1
  BY <1>2, LenProperties
<1> HIDE DEF r
<1>4. \A i \in 1 .. Len(s) : i = 1 \/ (i - 1 \in DOMAIN r /\ s[i] = r[i - 1])
  BY <1>1, <1>2, <1>3
<1>5. \A i \in DOMAIN r : i + 1 \in DOMAIN s /\ r[i] = s[i + 1] /\ i + 1 # 1
  BY <1>1, <1>2, <1>3
<1>6. ToSet(s) = {Head(s)} \cup ToSet(r)
  BY <1>1, <1>2, <1>4, <1>5 DEF ToSet
<1>7. ToSet(s) \subseteq S /\ Head(s) \in S
  BY <1>1, <1>2 DEF ToSet
<1>8. ASSUME IsInjective(s) PROVE IsInjective(r) /\ Head(s) \notin ToSet(r)
  <2>1. Head(s) \notin ToSet(r)
    BY <1>1, <1>2, <1>5, <1>8 DEF ToSet, IsInjective
  <2>2. IsInjective(r)
    <3> SUFFICES ASSUME NEW i \in DOMAIN r, NEW j \in DOMAIN r, r[i] = r[j] PROVE i = j
      BY DEF IsInjective
    <3>1. i + 1 = j + 1
      BY <1>5, <1>8 DEF IsInjective
    <3> QED
      BY <3>1, <1>1, <1>3
  <2> QED
    BY <2>1, <2>2
<1> QED
  BY <1>2, <1>6, <1>7, <1>8 DEF r

\* The members of a sequence with one more entry, which is new to it.
LEMMA AppendMembers ==
  ASSUME NEW S, NEW s \in Seq(S), NEW e \in S
  PROVE  /\ Append(s, e) \in Seq(S) /\ Append(s, e) # <<>>
         /\ ToSet(Append(s, e)) = ToSet(s) \cup {e}
         /\ Head(Append(s, e)) = IF s = <<>> THEN e ELSE Head(s)
         /\ IsInjective(s) /\ e \notin ToSet(s) => IsInjective(Append(s, e))
<1> DEFINE a == Append(s, e)
<1>1. Len(s) \in Nat /\ DOMAIN s = 1 .. Len(s)
  BY LenProperties
<1>2. /\ a \in Seq(S) /\ Len(a) = Len(s) + 1 /\ a[Len(s) + 1] = e
      /\ \A i \in 1 .. Len(s) : a[i] = s[i]
  BY AppendProperties
<1>3. DOMAIN a = 1 .. Len(s) + 1
  BY <1>2, LenProperties
<1> HIDE DEF a
<1>4. a # <<>> /\ Head(a) = a[1]
  BY <1>1, <1>2, EmptySeq, HeadTailProperties
<1>5. \A i \in DOMAIN a : \/ i \in DOMAIN s /\ a[i] = s[i]
                          \/ i = Len(s) + 1 /\ a[i] = e
  BY <1>1, <1>2, <1>3
<1>6. \A i \in DOMAIN s : i \in DOMAIN a /\ a[i] = s[i]
  BY <1>1, <1>2, <1>3
<1>7. Len(s) + 1 \in DOMAIN a
  BY <1>1, <1>3
<1>8. ToSet(a) = ToSet(s) \cup {e}
  <2>1. ToSet(a) \subseteq ToSet(s) \cup {e}
    BY <1>5 DEF ToSet
  <2>2. ToSet(s) \subseteq ToSet(a)
    BY <1>6 DEF ToSet
  <2>3. e \in ToSet(a)
    BY <1>2, <1>7 DEF ToSet
  <2> QED
    BY <2>1, <2>2, <2>3
<1>9. Head(a) = IF s = <<>> THEN e ELSE Head(s)
  <2>1. CASE s = <<>>
    BY <2>1, <1>2, <1>4, <1>1, EmptySeq
  <2>2. CASE s # <<>>
    BY <2>2, <1>2, <1>4, <1>1, EmptySeq, HeadTailProperties
  <2> QED
    BY <2>1, <2>2
<1>10. ASSUME IsInjective(s), e \notin ToSet(s) PROVE IsInjective(a)
  <2>1. \A i \in DOMAIN s : s[i] # e
    BY <1>10 DEF ToSet
  <2> QED
    BY <1>5, <1>10, <2>1 DEF IsInjective
<1> QED
  BY <1>2, <1>4, <1>8, <1>9, <1>10 DEF a

-----------------------------------------------------------------------------
(* Types                                                                   *)

\* What an earlier release left is a session like any other.
LEMMA FreshType ==
  /\ Fresh \in Controls /\ NoHistory \in Histories
  /\ LegacySession \in Payloads /\ LegacySession # NoSession
  /\ LegacySession.ctl = Fresh /\ LegacySession.hist = NoHistory
<1>1. Fresh \in Controls
  <2> DEFINE none == <<>>
  <2>1. none \in Seq(Dirs)
    OBVIOUS
  <2> HIDE DEF none
  <2>2. [urls |-> Targets, directories |-> none, passed |-> {}, index |-> 0,
         consecutive |-> 0] \in Controls
    BY <2>1, LoopAssumption DEF Controls
  <2> QED
    BY <2>2 DEF Fresh, none
<1>2. NoHistory \in Histories
  BY DEF NoHistory, Histories
<1> QED
  BY <1>1, <1>2, SessionAssumption DEF Payloads, Legacy

\* What add_directory may change of the state that a session saves.
LEMMA AddDirectory ==
  ASSUME NEW c \in Controls, NEW dir \in Dirs, c.urls # <<>>
  PROVE  LET n == add_directory(c, dir) IN
         /\ n \in Controls
         /\ n.urls = c.urls /\ n.index = c.index /\ n.consecutive = c.consecutive
         /\ dir \notin Refused => <<Head(c.urls), dir>> \in n.passed
         /\ \/ n = c
            \/ /\ <<Head(c.urls), dir>> \notin c.passed
               /\ n.directories = Append(c.directories, dir)
               /\ n.passed = c.passed \cup {<<Head(c.urls), dir>>}
<1>1. Head(c.urls) \in ToSet(Targets)
  BY TailMembers DEF Controls
<1>2. Append(c.directories, dir) \in Seq(Dirs)
  BY AppendMembers DEF Controls
<1> DEFINE pair == <<Head(c.urls), dir>>
           longer == Append(c.directories, dir)
           n == [c EXCEPT !.directories = longer, !.passed = @ \cup {pair}]
<1>3. pair \in ToSet(Targets) \X Dirs
  BY <1>1
<1>4. add_directory(c, dir) = IF dir \in Refused \/ pair \in c.passed THEN c ELSE n
  BY DEF add_directory
<1> HIDE DEF pair, longer
<1>5. /\ n \in Controls
      /\ n.urls = c.urls /\ n.index = c.index /\ n.consecutive = c.consecutive
      /\ n.directories = longer /\ n.passed = c.passed \cup {pair}
  BY <1>2, <1>3 DEF Controls, longer
<1> HIDE DEF n
<1>6. \/ dir \in Refused /\ add_directory(c, dir) = c
      \/ pair \in c.passed /\ add_directory(c, dir) = c
      \/ pair \notin c.passed /\ add_directory(c, dir) = n
  BY <1>4
<1> QED
  BY <1>5, <1>6 DEF pair, longer

\* What the operations on the saved state change of it.
LEMMA CountedFields ==
  ASSUME NEW c \in Controls
  PROVE  /\ Counted(c) \in Controls
         /\ Counted(c).urls = c.urls /\ Counted(c).directories = c.directories
         /\ Counted(c).passed = c.passed /\ Counted(c).index = c.index
         /\ Counted(c).consecutive = c.consecutive + 1
<1> DEFINE k == c.consecutive + 1
           n == [c EXCEPT !.consecutive = k]
<1>1. k \in Nat
  BY DEF Controls
<1> HIDE DEF k
<1>2. /\ n \in Controls /\ n.urls = c.urls /\ n.directories = c.directories
      /\ n.passed = c.passed /\ n.index = c.index /\ n.consecutive = k
  BY <1>1 DEF Controls
<1>3. Counted(c) = n
  BY DEF Counted, k
<1> QED
  BY <1>2, <1>3 DEF k

LEMMA ResetFields ==
  ASSUME NEW c \in Controls
  PROVE  /\ Reset(c) \in Controls
         /\ Reset(c).urls = c.urls /\ Reset(c).directories = c.directories
         /\ Reset(c).passed = c.passed /\ Reset(c).index = 0
         /\ Reset(c).consecutive = c.consecutive
<1>1. 0 \in 0..Words
  BY LoopAssumption
<1> QED
  BY <1>1 DEF Controls, Reset

LEMMA PopFields ==
  ASSUME NEW c \in Controls, c.directories # <<>>
  PROVE  /\ Pop(c) \in Controls
         /\ Pop(c).urls = c.urls /\ Pop(c).directories = Tail(c.directories)
         /\ Pop(c).passed = c.passed /\ Pop(c).index = c.index
         /\ Pop(c).consecutive = c.consecutive
<1>1. Tail(c.directories) \in Seq(Dirs)
  BY TailMembers DEF Controls
<1> QED
  BY <1>1 DEF Controls, Pop

LEMMA AdvanceFields ==
  ASSUME NEW c \in Controls, c.index < Words, NEW n, n = [c EXCEPT !.index = @ + 1]
  PROVE  /\ n \in Controls
         /\ n.urls = c.urls /\ n.directories = c.directories /\ n.passed = c.passed
         /\ n.index = c.index + 1 /\ n.consecutive = c.consecutive
<1> DEFINE i == c.index + 1
<1>1. i \in 0..Words
  BY LoopAssumption DEF Controls
<1>2. n = [c EXCEPT !.index = i]
  OBVIOUS
<1> HIDE DEF i
<1>3. /\ n \in Controls
      /\ n.urls = c.urls /\ n.directories = c.directories /\ n.passed = c.passed
      /\ n.index = i /\ n.consecutive = c.consecutive
  BY <1>1, <1>2 DEF Controls
<1> QED
  BY <1>3 DEF i

LEMMA ForgivenFields ==
  ASSUME NEW c \in Controls
  PROVE  LET n == reset_consecutive_errors(c) IN
         /\ n \in Controls
         /\ n.urls = c.urls /\ n.directories = c.directories /\ n.passed = c.passed
         /\ n.index = c.index /\ n.consecutive = 0
BY DEF Controls, reset_consecutive_errors

LEMMA ClearFields ==
  ASSUME NEW c \in Controls
  PROVE  LET n == [c EXCEPT !.directories = <<>>] IN
         /\ n \in Controls
         /\ n.urls = c.urls /\ n.directories = <<>> /\ n.passed = c.passed
         /\ n.index = c.index /\ n.consecutive = c.consecutive
<1> DEFINE none == <<>>
<1>1. none \in Seq(Dirs)
  OBVIOUS
<1> HIDE DEF none
<1>2. LET n == [c EXCEPT !.directories = none] IN
      /\ n \in Controls
      /\ n.urls = c.urls /\ n.directories = none /\ n.passed = c.passed
      /\ n.index = c.index /\ n.consecutive = c.consecutive
  BY <1>1 DEF Controls
<1> QED
  BY <1>2 DEF none

LEMMA PopUrlFields ==
  ASSUME NEW c \in Controls, c.urls # <<>>
  PROVE  LET n == [c EXCEPT !.urls = Tail(@)] IN
         /\ n \in Controls
         /\ n.urls = Tail(c.urls) /\ n.directories = c.directories /\ n.passed = c.passed
         /\ n.index = c.index /\ n.consecutive = c.consecutive
<1>1. Tail(c.urls) \in Seq(ToSet(Targets))
  BY TailMembers DEF Controls
<1> QED
  BY <1>1 DEF Controls

LEMMA WaivedFields ==
  ASSUME NEW h \in Histories, NEW D \in SUBSET (ToSet(Targets) \X Dirs),
         NEW n, n = [h EXCEPT !.waived = @ \cup D]
  PROVE  /\ n \in Histories
         /\ n.done = h.done /\ n.waived = h.waived \cup D
         /\ n.streak = h.streak /\ n.spoke = h.spoke /\ n.gap = h.gap
<1> DEFINE d == h.waived \cup D
<1>1. d \in SUBSET (ToSet(Targets) \X Dirs)
  BY DEF Histories
<1>2. n = [h EXCEPT !.waived = d]
  OBVIOUS
<1> HIDE DEF d
<1>3. /\ n \in Histories /\ n.done = h.done /\ n.waived = d
      /\ n.streak = h.streak /\ n.spoke = h.spoke /\ n.gap = h.gap
  BY <1>1, <1>2 DEF Histories
<1> QED
  BY <1>3 DEF d

\* What a failure and an answer to no word leave of a target's record.
LEMMA RecordFields ==
  ASSUME NEW h \in Histories
  PROVE  /\ Missed(h) \in Histories /\ Unspoken(h) \in Histories
         /\ Missed(h).done = h.done /\ Missed(h).waived = h.waived
         /\ Missed(h).gap = h.gap /\ Missed(h).spoke = h.spoke
         /\ Missed(h).streak = h.streak + 1
         /\ Unspoken(h).done = h.done /\ Unspoken(h).waived = h.waived
         /\ Unspoken(h).gap = h.gap /\ ~Unspoken(h).spoke /\ Unspoken(h).streak = 0
<1> DEFINE k == h.streak + 1
<1>1. k \in Nat /\ FALSE \in BOOLEAN
  BY DEF Histories
<1>2. Missed(h) = [h EXCEPT !.streak = k]
  BY DEF Missed
<1> HIDE DEF k
<1>3. /\ Missed(h) \in Histories /\ Missed(h).done = h.done /\ Missed(h).waived = h.waived
      /\ Missed(h).gap = h.gap /\ Missed(h).spoke = h.spoke /\ Missed(h).streak = k
  BY <1>1, <1>2 DEF Histories
<1>4. /\ Unspoken(h) \in Histories
      /\ Unspoken(h).done = h.done /\ Unspoken(h).waived = h.waived
      /\ Unspoken(h).gap = h.gap /\ ~Unspoken(h).spoke /\ Unspoken(h).streak = 0
  BY DEF Histories, Unspoken
<1> QED
  BY <1>3, <1>4 DEF k

\* The names of the session files.
LEMMA FileNames ==
  /\ ToSet(FILES) = {"meta", "controller", "dictionary", "options"}
  /\ Len(FILES) = 4
  /\ FILES[1] = "meta" /\ FILES[2] = "controller"
  /\ FILES[3] = "dictionary" /\ FILES[4] = "options"
BY DEF FILES, ToSet

LEMMA InitShape == Init => TypeOK /\ Located
<1> SUFFICES ASSUME Init PROVE TypeOK /\ Located
  OBVIOUS
<1>1. store \in [Stores -> [checkpoint : Payloads \cup {NoSession},
                           legacy : SUBSET ToSet(FILES)]]
  BY DEF Init, StoreInit
<1>2. newest \in [Stores -> Payloads \cup {NoSession}]
  BY FreshType DEF Init, StoreInit
<1>3. TypeOK
  <2>1. subdirsLeft \in Seq(ToSet(Subdirs))
    BY DEF Init
  <2> QED
    BY <1>1, <1>2, <2>1, FreshType DEF Init, StoreInit, TypeOK, Begun, Between, Absent
<1>4. Located
  BY <1>1 DEF Init, StoreInit, Located, Begun, Between, Absent, Scanning, Fresh
<1> QED
  BY <1>3, <1>4

\* The fields of what a session saves, one by one.
LEMMA Fields ==
  ASSUME TypeOK
  PROVE  /\ ctl.urls \in Seq(ToSet(Targets)) /\ ctl.directories \in Seq(Dirs)
         /\ ctl.passed \subseteq ToSet(Targets) \X Dirs
         /\ ctl.index \in 0..Words /\ ctl.consecutive \in Nat
         /\ hist.done \subseteq ToSet(Targets) \X Dirs \X (1..Words)
         /\ hist.waived \subseteq ToSet(Targets) \X Dirs
         /\ hist.streak \in Nat /\ hist.spoke \in BOOLEAN /\ hist.gap \in BOOLEAN
         /\ ctl.urls # <<>> => Url \in ToSet(Targets)
         /\ ctl.directories # <<>> => Directory \in Dirs
<1>1. /\ ctl.urls \in Seq(ToSet(Targets)) /\ ctl.directories \in Seq(Dirs)
      /\ ctl.passed \subseteq ToSet(Targets) \X Dirs
      /\ ctl.index \in 0..Words /\ ctl.consecutive \in Nat
  BY DEF TypeOK, Controls
<1>2. /\ hist.done \subseteq ToSet(Targets) \X Dirs \X (1..Words)
      /\ hist.waived \subseteq ToSet(Targets) \X Dirs
      /\ hist.streak \in Nat /\ hist.spoke \in BOOLEAN /\ hist.gap \in BOOLEAN
  BY DEF TypeOK, Histories
<1>3. /\ ctl.urls # <<>> => Url \in ToSet(Targets)
      /\ ctl.directories # <<>> => Directory \in Dirs
  BY <1>1, TailMembers DEF Url, Directory
<1> QED
  BY <1>1, <1>2, <1>3

\* A session that can be loaded has the shape of a saved one.
LEMMA Loaded ==
  ASSUME TypeOK, Located, NEW s \in Stores, load(s) # NoSession
  PROVE  /\ load(s).ctl \in Controls /\ load(s).hist \in Histories
         /\ load(s).ctl.directories # <<>> => load(s).ctl.urls # <<>>
         /\ load(s) \in {store[s].checkpoint, LegacySession}
         /\ load(s) # LegacySession => store[s].checkpoint # NoSession
<1>1. \/ load(s) = store[s].checkpoint /\ store[s].checkpoint # NoSession
      \/ load(s) = LegacySession
  BY DEF load
<1>2. CASE load(s) = store[s].checkpoint /\ store[s].checkpoint # NoSession
  BY <1>2 DEF TypeOK, Located, Payloads
<1>3. CASE load(s) = LegacySession
  BY <1>3, FreshType DEF Fresh
<1> QED
  BY <1>1, <1>2, <1>3

\* A process begins with a typed state.
LEMMA StartShape ==
  ASSUME TypeOK, Located, setup \/ \E s \in Stores : import(s)
  PROVE  TypeOK' /\ Located'
<1>1. CASE setup
  <2>1. ctl' = Fresh /\ hist' = NoHistory
    BY <1>1 DEF setup
  <2>2. ctl'.directories = <<>>
    BY <2>1 DEF Fresh
  <2> QED
    BY <1>1, <2>1, <2>2, FreshType
    DEF setup, Start, TypeOK, Located, Begun, Between, Absent, Scanning, handlerVars, storeVars
<1>2. ASSUME NEW s \in Stores, import(s) PROVE TypeOK' /\ Located'
  <2>1. /\ ctl' \in Controls /\ hist' \in Histories
        /\ ctl'.directories # <<>> => ctl'.urls # <<>>
    BY <1>2, Loaded DEF import
  <2> QED
    BY <1>2, <2>1
    DEF import, Start, TypeOK, Located, Begun, Between, Absent, Scanning, handlerVars, storeVars
<1> QED
  BY <1>1, <1>2

\* Nothing but the files is left of a process that has ended.
LEMMA GoneShape ==
  ASSUME TypeOK, Located, Gone PROVE TypeOK' /\ Located'
<1>1. subdirsLeft' \in Seq(ToSet(Subdirs))
  BY DEF Gone
<1>2. ctl' = Fresh /\ hist' = NoHistory /\ ctl'.directories = <<>>
  BY DEF Gone, Fresh
<1> QED
  BY <1>1, <1>2, FreshType DEF Gone, TypeOK, Located, Begun, Between, Absent, Scanning

\* What a request leaves, answered or failed.
LEMMA AnsweredFields ==
  ASSUME TypeOK, Located, Answered
  PROVE  /\ phase = "scan" /\ ctl.urls # <<>> /\ ctl.directories # <<>> /\ ctl.index < Words
         /\ Sent \in ToSet(Targets) \X Dirs \X (1..Words)
         /\ ctl' \in Controls /\ ctl'.urls = ctl.urls
         /\ ctl'.index = ctl.index + 1 /\ ctl'.consecutive = 0
         /\ \/ ctl'.directories = ctl.directories /\ ctl'.passed = ctl.passed
            \/ \E dir \in Dirs : /\ <<Url, dir>> \notin ctl.passed
                                 /\ ctl'.directories = Append(ctl.directories, dir)
                                 /\ ctl'.passed = ctl.passed \cup {<<Url, dir>>}
         /\ hist' \in Histories /\ hist'.done = hist.done \cup {Sent}
         /\ hist'.waived = hist.waived /\ hist'.streak = 0 /\ hist'.gap = hist.gap
<1>1. /\ phase = "scan" /\ ctl.urls # <<>> /\ ctl.directories # <<>> /\ ctl.index < Words
      /\ ctl \in Controls /\ hist \in Histories
  BY DEF Answered, Main, Located, Begun, Scanning, TypeOK
<1>2. Sent \in ToSet(Targets) \X Dirs \X (1..Words)
  BY <1>1, Fields, LoopAssumption DEF Sent
<1>3. PICK c \in {ctl} \cup {add_directory(ctl, dir) : dir \in Found} :
        ctl' = [reset_consecutive_errors(c) EXCEPT !.index = @ + 1]
  BY DEF Answered
<1>4. /\ c \in Controls /\ c.urls = ctl.urls /\ c.index = ctl.index
      /\ \/ c.directories = ctl.directories /\ c.passed = ctl.passed
         \/ \E dir \in Dirs : /\ <<Url, dir>> \notin ctl.passed
                              /\ c.directories = Append(ctl.directories, dir)
                              /\ c.passed = ctl.passed \cup {<<Url, dir>>}
  <2>1. CASE c = ctl
    BY <2>1, <1>1
  <2>2. ASSUME NEW dir \in Found, c = add_directory(ctl, dir)
        PROVE  /\ c \in Controls /\ c.urls = ctl.urls /\ c.index = ctl.index
               /\ \/ c.directories = ctl.directories /\ c.passed = ctl.passed
                  \/ /\ <<Url, dir>> \notin ctl.passed
                     /\ c.directories = Append(ctl.directories, dir)
                     /\ c.passed = ctl.passed \cup {<<Url, dir>>}
    <3>1. dir \in Dirs
      BY DEF Dirs
    <3> QED
      BY <1>1, <2>2, <3>1, AddDirectory DEF Url
  <2> QED
    BY <1>3, <2>1, <2>2 DEF Dirs
<1>5. /\ ctl' \in Controls /\ ctl'.urls = c.urls /\ ctl'.directories = c.directories
      /\ ctl'.passed = c.passed /\ ctl'.index = c.index + 1 /\ ctl'.consecutive = 0
  <2> DEFINE f == reset_consecutive_errors(c)
  <2>1. /\ f \in Controls /\ f.urls = c.urls /\ f.directories = c.directories
        /\ f.passed = c.passed /\ f.index = c.index /\ f.consecutive = 0
    BY <1>4, ForgivenFields
  <2>2. ctl' = [f EXCEPT !.index = @ + 1]
    BY <1>3
  <2> HIDE DEF f
  <2> QED
    BY <1>1, <1>4, <2>1, <2>2, AdvanceFields
<1>6. /\ hist' \in Histories /\ hist'.done = hist.done \cup {Sent}
      /\ hist'.waived = hist.waived /\ hist'.streak = 0 /\ hist'.gap = hist.gap
  <2> DEFINE d == hist.done \cup {Sent}
  <2>1. d \in SUBSET (ToSet(Targets) \X Dirs \X (1..Words))
    BY <1>2, Fields
  <2>2. hist' = [hist EXCEPT !.done = d, !.streak = 0, !.spoke = TRUE]
    BY DEF Answered
  <2> HIDE DEF d
  <2>3. /\ hist' \in Histories /\ hist'.done = d
        /\ hist'.waived = hist.waived /\ hist'.streak = 0 /\ hist'.gap = hist.gap
    BY <1>1, <2>1, <2>2 DEF Histories
  <2> QED
    BY <2>3 DEF d
<1> QED
  BY <1>1, <1>2, <1>4, <1>5, <1>6

LEMMA FailedFields ==
  ASSUME TypeOK, Located, Failed
  PROVE  /\ phase = "scan" /\ ctl.urls # <<>> /\ ctl.directories # <<>> /\ ctl.index < Words
         /\ Sent \in ToSet(Targets) \X Dirs \X (1..Words)
         /\ ctl' \in Controls /\ ctl'.urls = ctl.urls
         /\ ctl'.index = ctl.index + 1 /\ ctl'.consecutive = ctl.consecutive + 1
         /\ ctl'.directories = ctl.directories /\ ctl'.passed = ctl.passed
         /\ hist' \in Histories /\ hist'.done = hist.done \cup {Sent}
         /\ hist'.waived = hist.waived /\ hist'.streak = hist.streak + 1
         /\ hist'.spoke = hist.spoke /\ hist'.gap = hist.gap
<1>1. /\ phase = "scan" /\ ctl.urls # <<>> /\ ctl.directories # <<>> /\ ctl.index < Words
      /\ ctl \in Controls /\ hist \in Histories
  BY DEF Failed, Main, Located, Begun, Scanning, TypeOK
<1>2. Sent \in ToSet(Targets) \X Dirs \X (1..Words)
  BY <1>1, Fields, LoopAssumption DEF Sent
<1>3. ctl' = [Counted(ctl) EXCEPT !.index = @ + 1]
  BY DEF Failed
<1>4. /\ ctl' \in Controls /\ ctl'.urls = ctl.urls
      /\ ctl'.index = ctl.index + 1 /\ ctl'.consecutive = ctl.consecutive + 1
      /\ ctl'.directories = ctl.directories /\ ctl'.passed = ctl.passed
  <2> DEFINE c == Counted(ctl)
  <2>1. /\ c \in Controls /\ c.urls = ctl.urls /\ c.directories = ctl.directories
        /\ c.passed = ctl.passed /\ c.index = ctl.index /\ c.consecutive = ctl.consecutive + 1
    BY <1>1, CountedFields
  <2>2. ctl' = [c EXCEPT !.index = @ + 1]
    BY <1>3
  <2> HIDE DEF c
  <2> QED
    BY <1>1, <2>1, <2>2, AdvanceFields
<1>5. /\ hist' \in Histories /\ hist'.done = hist.done \cup {Sent}
      /\ hist'.waived = hist.waived /\ hist'.streak = hist.streak + 1
      /\ hist'.spoke = hist.spoke /\ hist'.gap = hist.gap
  <2> DEFINE d == hist.done \cup {Sent}
             m == Missed(hist)
  <2>1. d \in SUBSET (ToSet(Targets) \X Dirs \X (1..Words))
    BY <1>2, Fields
  <2>2. /\ m \in Histories /\ m.done = hist.done /\ m.waived = hist.waived
        /\ m.gap = hist.gap /\ m.spoke = hist.spoke /\ m.streak = hist.streak + 1
    BY <1>1, RecordFields
  <2>3. hist' = [m EXCEPT !.done = d]
    <3>1. hist' = [m EXCEPT !.done = @ \cup {Sent}]
      BY DEF Failed
    <3> HIDE DEF m
    <3> QED
      BY <2>2, <3>1
  <2> HIDE DEF d, m
  <2>4. /\ hist' \in Histories /\ hist'.done = d /\ hist'.waived = m.waived
        /\ hist'.streak = m.streak /\ hist'.spoke = m.spoke /\ hist'.gap = m.gap
    BY <2>1, <2>2, <2>3 DEF Histories
  <2> QED
    BY <2>2, <2>4 DEF d
<1> QED
  BY <1>1, <1>2, <1>4, <1>5

\* One file less.
LEMMA RemoveFileStore ==
  ASSUME TypeOK, NEW f, RemoveFile(f)
  PROVE  /\ store' \in [Stores -> [checkpoint : Payloads \cup {NoSession},
                                   legacy : SUBSET ToSet(FILES)]]
         /\ removing' = Tail(removing) /\ newest' = newest /\ doomed' = doomed
         /\ \A s \in Stores \ {f} : store'[s] = store[s]
         /\ f \in Stores =>
              \/ /\ Head(removing) = "checkpoint"
                 /\ store'[f].checkpoint = NoSession /\ store'[f].legacy = store[f].legacy
              \/ /\ Head(removing) # "checkpoint"
                 /\ store'[f].checkpoint = store[f].checkpoint
                 /\ store'[f].legacy = store[f].legacy \ {Head(removing)}
<1> DEFINE P == Payloads \cup {NoSession}
           L == SUBSET ToSet(FILES)
<1>1. store \in [Stores -> [checkpoint : P, legacy : L]] /\ NoSession \in P
      /\ \A l \in L : \A x : l \ {x} \in L
  BY DEF TypeOK
<1> HIDE DEF P, L
<1>2. CASE Head(removing) = "checkpoint"
  <2>1. store' = [store EXCEPT ![f].checkpoint = NoSession]
    BY <1>2 DEF RemoveFile
  <2>2. store' \in [Stores -> [checkpoint : P, legacy : L]]
    BY <1>1, <2>1
  <2> QED
    BY <1>1, <1>2, <2>1, <2>2 DEF RemoveFile, P, L
<1>3. CASE Head(removing) # "checkpoint"
  <2>1. store' = [store EXCEPT ![f].legacy = @ \ {Head(removing)}]
    BY <1>3 DEF RemoveFile
  <2>2. store' \in [Stores -> [checkpoint : P, legacy : L]]
    BY <1>1, <2>1
  <2> QED
    BY <1>1, <1>3, <2>1, <2>2 DEF RemoveFile, P, L
<1> QED
  BY <1>2, <1>3

\* A step of the main thread that changes ctl and hist within their types.
LEMMA MainShape ==
  ASSUME TypeOK, Located, MainStep PROVE TypeOK' /\ Located'
<1> USE DEF Main, LeaveAlone, handlerVars, runVars, storeVars
<1>a. /\ ctl \in Controls /\ hist \in Histories
      /\ \A t \in ToSet(Targets), d \in Dirs : <<t, d>> \in ToSet(Targets) \X Dirs
  BY DEF TypeOK
<1>1. CASE NextTarget
  <2>1. subdirsLeft' \in Seq(ToSet(Subdirs)) /\ ctl' = ctl /\ hist' = hist
    <3> DEFINE none == <<>>
    <3>1. none \in Seq(ToSet(Subdirs))
      OBVIOUS
    <3>2. subdirsLeft' \in {Subdirs, none} /\ ctl' = ctl /\ hist' = hist
      BY <1>1 DEF NextTarget
    <3> HIDE DEF none
    <3> QED
      BY <3>1, <3>2, LoopAssumption
  <2> QED
    BY <1>1, <2>1 DEF NextTarget, TypeOK, Located, Begun, Between, Absent, Scanning
<1>2. CASE QueueSubdir
  <2>1. /\ phase = "queue" /\ phase' = "queue" /\ ctl.urls # <<>>
        /\ Head(subdirsLeft) \in Dirs /\ subdirsLeft' \in Seq(ToSet(Subdirs))
    BY <1>2, TailMembers DEF QueueSubdir, TypeOK, Located, Begun, Dirs
  <2>2. ctl' \in Controls /\ ctl'.urls = ctl.urls
    BY <1>2, <1>a, <2>1, AddDirectory DEF QueueSubdir
  <2> QED
    BY <1>2, <2>1, <2>2 DEF QueueSubdir, TypeOK, Located, Begun, Between, Absent, Scanning
<1>3. CASE QueueDone \/ Prepare \/ BeginDirectory \/ Interrupted \/ ScanDone
  BY <1>3 DEF QueueDone, Prepare, BeginDirectory, Interrupted, ScanDone, TypeOK, Located,
              Begun, Between, Absent, Scanning
<1>4. CASE CrawlTarget
  <2>1. /\ ctl' \in Controls /\ ctl'.urls = ctl.urls /\ ctl'.directories = ctl.directories
        /\ hist' \in Histories
    <3>1. CASE UNCHANGED <<ctl, hist>>
      BY <3>1, <1>a
    <3>2. CASE ctl' = Counted(ctl) /\ hist' = Missed(hist)
      BY <1>a, <3>2, CountedFields, RecordFields
    <3>3. CASE ctl' = ctl /\ hist' = Unspoken(hist)
      BY <1>a, <3>3, RecordFields
    <3> QED
      BY <1>4, <3>1, <3>2, <3>3 DEF CrawlTarget
  <2>2. misjudged' \in BOOLEAN
    BY <1>4 DEF CrawlTarget, TypeOK
  <2>3. phase = "crawl" /\ phase' \in {"clear", "dirs"} /\ menu' = menu
    BY <1>4 DEF CrawlTarget
  <2>4. UNCHANGED <<runVars, storeVars, saveTo, redone>>
    BY <1>4 DEF CrawlTarget
  <2> QED
    BY <2>1, <2>2, <2>3, <2>4 DEF TypeOK, Located, Begun, Between, Absent, Scanning
<1>5. CASE Answered \/ Failed
  <2>1. /\ phase = "scan" /\ ctl.urls # <<>> /\ ctl.directories # <<>>
        /\ menu' = menu /\ saveTo' = saveTo /\ phase' \in {"scan", "unwind"}
        /\ ctl.index < Words /\ UNCHANGED <<runVars, storeVars>>
    BY <1>5 DEF Answered, Failed, Located, Begun, Scanning
  <2>2. ctl' \in Controls /\ ctl'.urls = ctl.urls /\ ctl'.directories # <<>>
    <3>1. ctl.directories \in Seq(Dirs)
      BY Fields
    <3>2. \A dir \in Dirs : Append(ctl.directories, dir) # <<>>
      BY <3>1, AppendMembers
    <3>3. CASE Answered
      BY <2>1, <3>2, <3>3, AnsweredFields
    <3>4. CASE Failed
      BY <2>1, <3>4, FailedFields
    <3> QED
      BY <1>5, <3>3, <3>4
  <2>3. hist' \in Histories
    BY <1>5, AnsweredFields, FailedFields
  <2>4. redone' \in BOOLEAN /\ misjudged' \in BOOLEAN
    BY <1>5 DEF Answered, Failed, TypeOK
  <2> QED
    BY <2>1, <2>2, <2>3, <2>4 DEF TypeOK, Located, Begun, Between, Absent, Scanning
<1>6. CASE ResetDictionary \/ ClearReset
  <2>1. /\ ctl' \in Controls /\ ctl'.urls = ctl.urls /\ ctl'.directories = ctl.directories
    BY <1>6, <1>a, ResetFields DEF ResetDictionary, ClearReset
  <2> QED
    BY <1>6, <2>1 DEF ResetDictionary, ClearReset, TypeOK, Located, Begun, Between, Absent, Scanning
<1>7. CASE PopDirectory
  <2>1. ctl.directories # <<>> /\ ctl.urls # <<>>
    BY <1>7 DEF PopDirectory, Located, Begun, Scanning
  <2>2. ctl' \in Controls /\ ctl'.urls = ctl.urls
    BY <1>7, <1>a, <2>1, PopFields DEF PopDirectory
  <2> QED
    BY <1>7, <2>1, <2>2 DEF PopDirectory, TypeOK, Located, Begun, Between, Absent, Scanning
<1>8. CASE Unwind
  <2>1. ctl.directories # <<>> /\ ctl.urls # <<>>
    BY <1>8 DEF Unwind, Located, Begun, Scanning
  <2>2. ctl' \in Controls /\ ctl'.urls = ctl.urls
    BY <1>8, <1>a, <2>1, ResetFields, PopFields DEF Unwind
  <2>3. {<<Url, Directory>>} \in SUBSET (ToSet(Targets) \X Dirs)
    BY <2>1, Fields
  <2>4. hist' \in Histories
    BY <1>8, <1>a, <2>3, WaivedFields DEF Unwind
  <2> QED
    BY <1>8, <2>1, <2>2, <2>4 DEF Unwind, TypeOK, Located, Begun, Between, Absent, Scanning
<1>9. CASE ClearDirectories
  <2>1. ctl.urls # <<>>
    BY <1>9 DEF ClearDirectories, Located, Begun
  <2>2. ctl' \in Controls /\ ctl'.urls = ctl.urls /\ ctl'.directories = <<>>
    BY <1>9, <1>a, ClearFields DEF ClearDirectories
  <2>3. {Url} \X Dirs \in SUBSET (ToSet(Targets) \X Dirs)
    BY <2>1, Fields
  <2>4. hist' \in Histories
    BY <1>9, <1>a, <2>3, WaivedFields DEF ClearDirectories
  <2> QED
    BY <1>9, <2>1, <2>2, <2>4 DEF ClearDirectories, TypeOK, Located, Begun, Between, Absent, Scanning
<1>10. CASE PopUrl
  <2>1. ctl.urls # <<>> /\ ctl.directories = <<>>
    BY <1>10 DEF PopUrl, Located, Begun, Between
  <2>2. ctl' \in Controls /\ ctl'.directories = <<>> /\ hist' \in Histories
    BY <1>10, <1>a, <2>1, PopUrlFields, RecordFields DEF PopUrl
  <2> QED
    BY <1>10, <2>2 DEF PopUrl, TypeOK, Located, Begun, Between, Absent, Scanning
<1>11. CASE Completed
  <2>1. /\ doomed' \subseteq Stores /\ UNCHANGED <<store, newest, ctl, hist, menu, saveTo>>
        /\ phase = "completed" /\ menu = "off"
        /\ phase' \in {"delete", "exit"}
        /\ UNCHANGED <<runVars, redone, misjudged>>
    BY <1>11 DEF Completed, delete, TypeOK
  <2> QED
    BY <2>1 DEF TypeOK, Located, Begun, Between, Absent, Scanning
<1>12. CASE DeleteSession
  <2>1. /\ UNCHANGED <<ctl, hist, menu, saveTo, runVars, redone, misjudged, newest, doomed>>
        /\ phase = "delete" /\ menu = "off" /\ phase' \in {"delete", "exit"}
        /\ store' = store \/ RemoveFile(sessionFile)
    BY <1>12 DEF DeleteSession, RemoveFile
  <2>2. /\ store' \in [Stores -> [checkpoint : Payloads \cup {NoSession},
                                  legacy : SUBSET ToSet(FILES)]]
        /\ \A s \in Stores : store'[s].checkpoint # NoSession =>
                               store'[s].checkpoint = store[s].checkpoint
    BY <2>1, RemoveFileStore DEF TypeOK
  <2> QED
    BY <2>1, <2>2 DEF TypeOK, Located, Begun, Between, Absent, Scanning
<1>13. CASE Exit
  BY <1>13, GoneShape DEF Exit
<1> QED
  BY <1>1, <1>2, <1>3, <1>4, <1>5, <1>6, <1>7, <1>8, <1>9, <1>10, <1>11, <1>12, <1>13
  DEF MainStep

\* What save writes.
LEMMA PayloadFields ==
  ASSUME TypeOK
  PROVE  /\ Payload \in Payloads /\ Payload # NoSession
         /\ Payload.ctl = ctl
         /\ Payload.hist.done = hist.done /\ Payload.hist.waived = hist.waived
         /\ Payload.hist.streak = hist.streak /\ Payload.hist.spoke = hist.spoke
         /\ Payload.hist.gap = (hist.gap \/ Gap)
<1> DEFINE g == hist.gap \/ Gap
           h == [hist EXCEPT !.gap = g]
<1>1. g \in BOOLEAN /\ ctl \in Controls /\ hist \in Histories
  BY DEF TypeOK
<1>2. Payload = [ctl |-> ctl, hist |-> h]
  BY DEF Payload
<1> HIDE DEF g
<1>3. /\ h \in Histories /\ h.done = hist.done /\ h.waived = hist.waived
      /\ h.streak = hist.streak /\ h.spoke = hist.spoke /\ h.gap = g
  BY <1>1 DEF Histories
<1> HIDE DEF h
<1>4. Payload \in Payloads /\ Payload.ctl = ctl /\ Payload.hist = h
  BY <1>1, <1>2, <1>3 DEF Payloads
<1>5. Payload # NoSession
  BY <1>4, SessionAssumption
<1> QED
  BY <1>3, <1>4, <1>5 DEF g

\* A checkpoint written.
LEMMA WriteCheckpointStore ==
  ASSUME TypeOK, NEW f \in Stores, WriteCheckpoint(f, Payload)
  PROVE  /\ store' \in [Stores -> [checkpoint : Payloads \cup {NoSession},
                                   legacy : SUBSET ToSet(FILES)]]
         /\ newest' \in [Stores -> Payloads \cup {NoSession}]
         /\ doomed' = doomed \ {f} /\ removing' = FILES
         /\ \A s \in Stores \ {f} : store'[s] = store[s] /\ newest'[s] = newest[s]
         /\ store'[f].checkpoint = Payload /\ store'[f].legacy = store[f].legacy
         /\ newest'[f] = Payload
<1> DEFINE P == Payloads \cup {NoSession}
           L == SUBSET ToSet(FILES)
           q == Payload
<1>1. /\ store \in [Stores -> [checkpoint : P, legacy : L]]
      /\ newest \in [Stores -> P] /\ q \in P
  BY PayloadFields DEF TypeOK
<1>2. /\ store' = [store EXCEPT ![f].checkpoint = q]
      /\ newest' = [newest EXCEPT ![f] = q]
      /\ doomed' = doomed \ {f} /\ removing' = FILES
  BY DEF WriteCheckpoint
<1> HIDE DEF P, L, q
<1>3. /\ store' \in [Stores -> [checkpoint : P, legacy : L]]
      /\ newest' \in [Stores -> P]
      /\ \A s \in Stores \ {f} : store'[s] = store[s] /\ newest'[s] = newest[s]
      /\ store'[f].checkpoint = q /\ store'[f].legacy = store[f].legacy
      /\ newest'[f] = q
  BY <1>1, <1>2
<1> QED
  BY <1>2, <1>3 DEF P, L, q

\* A choice in the menu leaves everything but the place and the history alone.
LEMMA HandlerShape ==
  ASSUME TypeOK, Located, HandlerStep \/ Signal \/ SignalAgain PROVE TypeOK' /\ Located'
<1> USE DEF Handler, handlerVars, runVars, storeVars
<1>1. CASE ChooseContinue \/ ChooseQuit
  BY <1>1 DEF ChooseContinue, ChooseQuit, Choose, TypeOK, Located, Begun, Between, Absent, Scanning
<1>2. CASE ChooseSkip
  <2>1. /\ Raised \in {"unwind", "clear", "exit"}
        /\ Raised = "unwind" => ctl.directories # <<>>
        /\ Raised = "clear" => phase \in Begun
    BY DEF Raised, Begun, Scanning, Located
  <2> QED
    BY <1>2, <2>1 DEF ChooseSkip, Choose, TypeOK, Located, Begun, Between, Absent, Scanning
<1>3. CASE ChooseNext
  <2>1. /\ ctl' = ctl /\ menu' = "off" /\ phase' \in {"reset", phase}
        /\ phase' = "reset" => phase \in {"scan", "reset"}
        /\ UNCHANGED <<saveTo, storeVars, runVars, redone, misjudged>>
    BY <1>3 DEF ChooseNext, Choose
  <2>2. hist' \in Histories
    <3>1. CASE hist' = hist
      BY <3>1 DEF TypeOK
    <3>2. CASE phase = "scan" /\ hist' = [hist EXCEPT !.waived = @ \cup {<<Url, Directory>>}]
      <4>1. {<<Url, Directory>>} \in SUBSET (ToSet(Targets) \X Dirs)
        BY <3>2, Fields DEF Located, Begun, Scanning
      <4> QED
        BY <3>2, <4>1, WaivedFields DEF TypeOK
    <3> QED
      BY <1>3, <3>1, <3>2 DEF ChooseNext
  <2> QED
    BY <2>1, <2>2 DEF TypeOK, Located, Begun, Between, Absent, Scanning
<1>4. CASE \E s \in Stores : ChooseSave(s)
  BY <1>4 DEF ChooseSave, TypeOK, Located, Begun, Between, Absent, Scanning
<1>5. CASE SaveCheckpoint
  <2>1. /\ menu = "saving" /\ menu' = "migrating" /\ saveTo \in Stores
        /\ WriteCheckpoint(saveTo, Payload)
        /\ UNCHANGED <<phase, saveTo, ctl, hist, runVars, redone, misjudged>>
    BY <1>5 DEF SaveCheckpoint, Located
  <2>2. /\ store' \in [Stores -> [checkpoint : Payloads \cup {NoSession},
                                  legacy : SUBSET ToSet(FILES)]]
        /\ newest' \in [Stores -> Payloads \cup {NoSession}]
        /\ doomed' \subseteq Stores
        /\ \A s \in Stores : store'[s].checkpoint \in {store[s].checkpoint, Payload}
    BY <2>1, WriteCheckpointStore DEF TypeOK
  <2>3. TypeOK'
    BY <2>1, <2>2 DEF TypeOK
  <2>4. Located'
    BY <2>1, <2>2, PayloadFields DEF Located
  <2> QED
    BY <2>3, <2>4
<1>6. CASE SaveRemove
  <2>1. /\ UNCHANGED <<ctl, hist, saveTo, runVars, redone, misjudged>>
        /\ \/ UNCHANGED <<phase, menu>>
           \/ phase' = "exit" /\ menu' = "off"
        /\ RemoveFile(saveTo)
    BY <1>6 DEF SaveRemove
  <2>2. /\ store' \in [Stores -> [checkpoint : Payloads \cup {NoSession},
                                  legacy : SUBSET ToSet(FILES)]]
        /\ UNCHANGED <<newest, doomed>>
        /\ \A s \in Stores : store'[s].checkpoint # NoSession =>
                               store'[s].checkpoint = store[s].checkpoint
    BY <2>1, RemoveFileStore
  <2> QED
    BY <2>1, <2>2 DEF TypeOK, Located, Begun, Between, Absent, Scanning
<1>7. CASE Signal \/ SignalAgain
  BY <1>7 DEF Signal, SignalAgain, TypeOK, Located, Begun, Between, Absent, Scanning
<1> QED
  BY <1>1, <1>2, <1>3, <1>4, <1>5, <1>6, <1>7 DEF HandlerStep

LEMMA NextShape ==
  ASSUME TypeOK, Located, [Next]_vars PROVE TypeOK' /\ Located'
<1>1. CASE UNCHANGED vars
  BY <1>1 DEF vars, runVars, handlerVars, storeVars, TypeOK, Located
<1>2. CASE Next
  BY <1>2, StartShape, MainShape, HandlerShape, GoneShape DEF Next, Crash
<1> QED
  BY <1>1, <1>2

\* Every reachable state is typed: the queue of targets and directories, the
\* position in the wordlist and every saved session keep their form (run, start,
\* SessionStore.save, load and apply_to_controller).
THEOREM TargetLoopTypeCorrect == Spec => []TypeOK
<1>1. TypeOK /\ Located /\ [Next]_vars => (TypeOK /\ Located)'
  BY NextShape
<1> QED
  BY <1>1, InitShape, PTL DEF Spec

-----------------------------------------------------------------------------
(* Sessions                                                                *)

\* Taking the files of a list one by one.
LEMMA SuffixStep ==
  ASSUME NEW S, NEW q \in Seq(S), NEW k \in 1 .. Len(q)
  PROVE  /\ SubSeq(q, k, Len(q)) # <<>> /\ Head(SubSeq(q, k, Len(q))) = q[k]
         /\ Len(SubSeq(q, k, Len(q))) = Len(q) - k + 1
         /\ Tail(SubSeq(q, k, Len(q))) = SubSeq(q, k + 1, Len(q))
<1> DEFINE n == Len(q)
<1>1. n \in Nat /\ n \in k .. Len(q) /\ k \in 1 .. Len(q)
  BY LenProperties
<1>2. /\ Head(SubSeq(q, k, n)) = q[k]
      /\ Tail(SubSeq(q, k, n)) = SubSeq(q, k + 1, n)
  BY <1>1, HeadTailOfSubSeq
<1>3. \A i \in k .. n : q[i] \in S
  BY <1>1, ElementOfSeq
<1>4. SubSeq(q, k, n) \in Seq(S) /\ Len(SubSeq(q, k, n)) = n - k + 1
  BY <1>1, <1>3, SubSeqProperties
<1>5. SubSeq(q, k, n) # <<>>
  <2>1. Len(SubSeq(q, k, n)) # 0
    BY <1>1, <1>4
  <2> QED
    BY <1>4, <2>1, EmptySeq
<1> QED
  BY <1>2, <1>4, <1>5

\* The two lists of files, and what taking a file off them leaves.
LEMMA FileLists ==
  /\ FILES = SubSeq(FILES, 1, 4)
  /\ Append(FILES, "checkpoint") = SubSeq(Append(FILES, "checkpoint"), 1, 5)
  /\ \A k \in 1..4 :
       LET q == SubSeq(FILES, k, 4) IN
       /\ q # <<>> /\ Head(q) \in ToSet(FILES) /\ Head(q) # "checkpoint"
       /\ Len(q) = 5 - k /\ Tail(q) = SubSeq(FILES, k + 1, 4)
  /\ \A k \in 1..5 :
       LET q == SubSeq(Append(FILES, "checkpoint"), k, 5) IN
       /\ q # <<>> /\ Tail(q) = SubSeq(Append(FILES, "checkpoint"), k + 1, 5)
       /\ k = 1 => Head(q) = "meta"
       /\ Head(q) = "checkpoint" => k = 5
  /\ SubSeq(Append(FILES, "checkpoint"), 6, 5) = <<>>
<1> DEFINE S == {"meta", "controller", "dictionary", "options", "checkpoint"}
           A == Append(FILES, "checkpoint")
<1>1. FILES \in Seq(S) /\ 4 = Len(FILES) /\ "checkpoint" \in S
  BY DEF FILES
<1>2. /\ A \in Seq(S) /\ 5 = Len(A)
      /\ A[1] = "meta" /\ A[2] = "controller" /\ A[3] = "dictionary"
      /\ A[4] = "options" /\ A[5] = "checkpoint"
  <2> HIDE DEF S
  <2>1. /\ A \in Seq(S) /\ Len(A) = Len(FILES) + 1 /\ A[Len(FILES) + 1] = "checkpoint"
        /\ \A i \in 1 .. Len(FILES) : A[i] = FILES[i]
    BY <1>1, AppendProperties
  <2> QED
    BY <1>1, <2>1, FileNames
<1> HIDE DEF A, S
<1>3. \A k \in 1..4 :
       LET q == SubSeq(FILES, k, 4) IN
       /\ q # <<>> /\ Head(q) = FILES[k] /\ Len(q) = 4 - k + 1
       /\ Tail(q) = SubSeq(FILES, k + 1, 4)
  <2> SUFFICES ASSUME NEW k \in 1..4
               PROVE  /\ SubSeq(FILES, k, 4) # <<>> /\ Head(SubSeq(FILES, k, 4)) = FILES[k]
                      /\ Len(SubSeq(FILES, k, 4)) = 4 - k + 1
                      /\ Tail(SubSeq(FILES, k, 4)) = SubSeq(FILES, k + 1, 4)
    OBVIOUS
  <2>1. FILES \in Seq(S) /\ 4 = Len(FILES) /\ k \in 1 .. Len(FILES)
    BY <1>1
  <2>2. /\ SubSeq(FILES, k, Len(FILES)) # <<>>
        /\ Head(SubSeq(FILES, k, Len(FILES))) = FILES[k]
        /\ Len(SubSeq(FILES, k, Len(FILES))) = Len(FILES) - k + 1
        /\ Tail(SubSeq(FILES, k, Len(FILES))) = SubSeq(FILES, k + 1, Len(FILES))
    BY <2>1, SuffixStep, Zenon
  <2> QED
    BY <2>1, <2>2, Zenon
<1>4. \A k \in 1..4 : FILES[k] \in ToSet(FILES) /\ FILES[k] # "checkpoint"
  BY FileNames
<1>5. \A k \in 1..5 :
       LET q == SubSeq(A, k, 5) IN
       q # <<>> /\ Head(q) = A[k] /\ Tail(q) = SubSeq(A, k + 1, 5)
  <2> SUFFICES ASSUME NEW k \in 1..5
               PROVE  /\ SubSeq(A, k, 5) # <<>> /\ Head(SubSeq(A, k, 5)) = A[k]
                      /\ Tail(SubSeq(A, k, 5)) = SubSeq(A, k + 1, 5)
    OBVIOUS
  <2>1. A \in Seq(S) /\ 5 = Len(A) /\ k \in 1 .. Len(A)
    BY <1>2
  <2>2. /\ SubSeq(A, k, Len(A)) # <<>> /\ Head(SubSeq(A, k, Len(A))) = A[k]
        /\ Tail(SubSeq(A, k, Len(A))) = SubSeq(A, k + 1, Len(A))
    BY <2>1, SuffixStep, Zenon
  <2> QED
    BY <2>1, <2>2, Zenon
<1>6. \A k \in 1..5 : (k = 1 => A[k] = "meta") /\ (A[k] = "checkpoint" => k = 5)
  BY <1>2
<1>7. FILES = SubSeq(FILES, 1, 4)
  BY <1>1, SubSeqFull
<1>8. A = SubSeq(A, 1, 5)
  BY <1>2, SubSeqFull
<1>9. SubSeq(A, 6, 5) = <<>>
  BY <1>2, SubSeqEmpty
<1> QED
  BY <1>3, <1>4, <1>5, <1>6, <1>7, <1>8, <1>9 DEF A

LEMMA InitSessions == Init => Removing /\ Kept
<1> SUFFICES ASSUME Init PROVE Removing /\ Kept
  OBVIOUS
<1>1. Removing
  BY DEF Init, Removing
<1>2. Kept
  BY FreshType, FileNames DEF Init, StoreInit, Kept
<1> QED
  BY <1>1, <1>2

\* A step that neither saves nor deletes.
LEMMA SessionsAlone ==
  ASSUME Removing, Kept, UNCHANGED <<store, newest, doomed>>, menu' # "migrating",
         \/ phase' # "delete"
         \/ phase = "delete" /\ menu # "migrating" /\ UNCHANGED <<removing, sessionFile>>
  PROVE  Removing' /\ Kept'
<1>1. Kept'
  BY DEF Kept
<1>2. Removing'
  BY DEF Removing
<1> QED
  BY <1>1, <1>2

LEMMA DeleteSessions ==
  ASSUME TypeOK, Located, Removing, Kept, Completed \/ DeleteSession
  PROVE  Removing' /\ Kept'
<1> USE DEF Main, handlerVars, runVars, storeVars
<1>1. CASE Completed
  <2>1. CASE sessionFile = NoFile /\ phase' = "exit" /\ UNCHANGED storeVars
    <3>1. menu' = "off"
      BY <1>1 DEF Completed
    <3> QED
      BY <2>1, <3>1, SessionsAlone
  <2>2. CASE sessionFile # NoFile /\ delete(sessionFile)
    <3>1. /\ sessionFile \in doomed' /\ UNCHANGED <<store, newest, sessionFile>>
          /\ menu' = "off" /\ doomed \subseteq doomed'
          /\ removing' = SubSeq(Append(FILES, "checkpoint"), 1, 5)
      BY <1>1, <2>2, FileLists DEF Completed, delete
    <3>2. Removing'
      BY <3>1 DEF Removing
    <3>3. Kept'
      BY <3>1 DEF Kept
    <3> QED
      BY <3>2, <3>3
  <2> QED
    BY <1>1, <2>1, <2>2 DEF Completed
<1>2. CASE DeleteSession
  <2>1. CASE phase' = "exit" /\ UNCHANGED storeVars
    <3>1. menu' = "off"
      BY <1>2 DEF DeleteSession
    <3> QED
      BY <2>1, <3>1, SessionsAlone
  <2>2. CASE phase' = "delete" /\ RemoveFile(sessionFile)
    <3> DEFINE f == sessionFile
    <3>1. /\ phase = "delete" /\ menu = "off" /\ menu' = "off" /\ sessionFile' = f
          /\ removing # <<>>
      BY <1>2, <2>2 DEF DeleteSession, RemoveFile
    <3>2. f \in doomed /\ f \in Stores
      BY <3>1 DEF Removing, TypeOK
    <3>3. PICK k \in 1..6 :
            /\ removing = SubSeq(Append(FILES, "checkpoint"), k, 5)
            /\ k > 1 => "meta" \notin store[f].legacy
      BY <3>1 DEF Removing
    <3>4. /\ k \in 1..5 /\ Tail(removing) = SubSeq(Append(FILES, "checkpoint"), k + 1, 5)
          /\ k = 1 => Head(removing) = "meta"
          /\ Head(removing) = "checkpoint" => k > 1
      <4>1. k # 6
        BY <3>1, <3>3, FileLists
      <4>2. k \in 1..5
        BY <4>1
      <4> DEFINE q == SubSeq(Append(FILES, "checkpoint"), k, 5)
      <4>3. /\ Tail(q) = SubSeq(Append(FILES, "checkpoint"), k + 1, 5)
            /\ k = 1 => Head(q) = "meta"
            /\ Head(q) = "checkpoint" => k = 5
        BY <4>2, FileLists, Zenon
      <4>4. removing = q
        BY <3>3
      <4>5. k = 5 => k > 1
        BY <4>2
      <4> HIDE DEF q
      <4> QED
        BY <4>2, <4>3, <4>4, <4>5, Zenon
    <3>5. /\ removing' = Tail(removing) /\ newest' = newest /\ doomed' = doomed
          /\ \A s \in Stores \ {f} : store'[s] = store[s]
          /\ \/ /\ Head(removing) = "checkpoint"
                /\ store'[f].checkpoint = NoSession /\ store'[f].legacy = store[f].legacy
             \/ /\ Head(removing) # "checkpoint"
                /\ store'[f].checkpoint = store[f].checkpoint
                /\ store'[f].legacy = store[f].legacy \ {Head(removing)}
      BY <2>2, <3>2, RemoveFileStore
    <3>6. "meta" \notin store'[f].legacy
      BY <3>3, <3>4, <3>5
    <3>7. Removing'
      <4>1. k + 1 \in 1..6
        BY <3>4
      <4>2. removing' = SubSeq(Append(FILES, "checkpoint"), k + 1, 5)
        BY <3>4, <3>5
      <4> QED
        BY <3>1, <3>2, <3>5, <3>6, <4>1, <4>2 DEF Removing
    <3>8. Kept'
      BY <3>2, <3>5, <3>6 DEF Kept
    <3> QED
      BY <3>7, <3>8
  <2> QED
    BY <1>2, <2>1, <2>2 DEF DeleteSession
<1> QED
  BY <1>1, <1>2

LEMMA SaveSessions ==
  ASSUME TypeOK, Located, Removing, Kept, SaveCheckpoint \/ SaveRemove
  PROVE  Removing' /\ Kept'
<1>1. CASE SaveCheckpoint
  <2>1. saveTo \in Stores /\ saveTo' = saveTo /\ menu' = "migrating"
        /\ WriteCheckpoint(saveTo, Payload)
    BY <1>1 DEF SaveCheckpoint, Located
  <2>2. /\ doomed' = doomed \ {saveTo} /\ removing' = FILES
        /\ \A s \in Stores \ {saveTo} : store'[s] = store[s] /\ newest'[s] = newest[s]
        /\ store'[saveTo].checkpoint = Payload /\ newest'[saveTo] = Payload
    BY <2>1, WriteCheckpointStore
  <2>3. Removing'
    BY <2>1, <2>2, FileLists, PayloadFields DEF Removing
  <2>4. Kept'
    BY <2>1, <2>2, PayloadFields DEF Kept
  <2> QED
    BY <2>3, <2>4
<1>2. CASE SaveRemove
  <2>1. /\ menu = "migrating" /\ saveTo \in Stores /\ saveTo' = saveTo /\ RemoveFile(saveTo)
        /\ IF Len(removing) = 1 THEN phase' = "exit" /\ menu' = "off" ELSE UNCHANGED <<phase, menu>>
    BY <1>2 DEF SaveRemove, Located
  <2>2. PICK k \in 1..4 : removing = SubSeq(FILES, k, 4)
    BY <2>1 DEF Removing
  <2>3. /\ Head(removing) # "checkpoint" /\ Len(removing) = 5 - k
        /\ Tail(removing) = SubSeq(FILES, k + 1, 4)
    BY <2>2, FileLists
  <2>4. /\ removing' = Tail(removing) /\ newest' = newest /\ doomed' = doomed
        /\ \A s \in Stores \ {saveTo} : store'[s] = store[s]
        /\ store'[saveTo].checkpoint = store[saveTo].checkpoint
    BY <2>1, <2>3, RemoveFileStore
  <2>5. store[saveTo].checkpoint # NoSession
    BY <2>1 DEF Removing
  <2>6. Removing'
    <3>1. CASE Len(removing) = 1
      BY <2>1, <3>1 DEF Removing
    <3>2. CASE Len(removing) # 1
      <4>1. k + 1 \in 1..4 /\ removing' = SubSeq(FILES, k + 1, 4) /\ menu' = "migrating"
        BY <2>1, <2>3, <2>4, <3>2
      <4> QED
        BY <2>1, <2>4, <2>5, <4>1 DEF Removing
    <3> QED
      BY <3>1, <3>2
  <2>7. Kept'
    BY <2>4, <2>5 DEF Kept
  <2> QED
    BY <2>6, <2>7
<1> QED
  BY <1>1, <1>2

LEMMA NextSessions ==
  ASSUME TypeOK, Located, Removing, Kept, [Next]_vars
  PROVE  Removing' /\ Kept'
<1>1. CASE UNCHANGED vars
  BY <1>1 DEF vars, runVars, handlerVars, storeVars, Removing, Kept
<1>2. CASE setup \/ \E s \in Stores : import(s)
  <2>1. UNCHANGED <<store, newest, doomed>> /\ menu' # "migrating" /\ phase' # "delete"
    BY <1>2 DEF setup, import, Start, handlerVars, storeVars, Located, Absent
  <2> QED
    BY <2>1, SessionsAlone
<1>3. CASE MainStep /\ ~(Completed \/ DeleteSession)
  <2>1. UNCHANGED <<store, newest, doomed>> /\ menu' # "migrating" /\ phase' # "delete"
    BY <1>3 DEF MainStep, NextTarget, QueueSubdir, QueueDone, Prepare, CrawlTarget,
      BeginDirectory, Answered, Failed, Interrupted, ScanDone, ResetDictionary, PopDirectory,
      Unwind, ClearDirectories, ClearReset, PopUrl, Exit, Gone, Main, LeaveAlone,
      handlerVars, storeVars
  <2> QED
    BY <2>1, SessionsAlone
<1>4. CASE Completed \/ DeleteSession
  BY <1>4, DeleteSessions
<1>5. CASE SaveCheckpoint \/ SaveRemove
  BY <1>5, SaveSessions
<1>6. CASE Crash
  <2>1. UNCHANGED <<store, newest, doomed>> /\ menu' # "migrating" /\ phase' # "delete"
    BY <1>6 DEF Crash, Gone
  <2> QED
    BY <2>1, SessionsAlone
<1>7. CASE SignalAgain
  <2>1. UNCHANGED <<storeVars, saveTo, sessionFile>>
        /\ \/ phase' = "exit" /\ menu' = "off"
           \/ UNCHANGED <<phase, menu>>
    BY <1>7 DEF SignalAgain, Handler, runVars
  <2> QED
    BY <2>1 DEF storeVars, Removing, Kept
<1>8. CASE \/ ChooseContinue \/ ChooseNext \/ ChooseSkip \/ ChooseQuit \/ Signal
           \/ \E s \in Stores : ChooseSave(s)
  <2>1. /\ UNCHANGED <<store, newest, doomed, removing, sessionFile>>
        /\ menu # "migrating" /\ menu' # "migrating"
        /\ phase' = "delete" => phase = "delete"
    BY <1>8 DEF ChooseContinue, ChooseNext, ChooseSkip, ChooseQuit, Signal, ChooseSave, Choose,
      Raised, Handler, storeVars, runVars
  <2> QED
    BY <2>1, SessionsAlone
<1> QED
  BY <1>1, <1>2, <1>3, <1>4, <1>5, <1>6, <1>7, <1>8 DEF Next, HandlerStep

\* Whatever was interrupted, in whatever process, a session directory holds what
\* was saved last, or nothing that can be loaded once its deletion has begun
\* (SessionStore.save, delete, load).
THEOREM SessionsSurvive == Spec => []SessionSound
<1> DEFINE Inv == TypeOK /\ Located /\ Removing /\ Kept
<1>1. Init => Inv
  BY InitShape, InitSessions
<1>2. Inv /\ [Next]_vars => Inv'
  BY NextShape, NextSessions
<1>3. Inv => SessionSound
  <2> SUFFICES ASSUME Inv, NEW s \in Stores
               PROVE  /\ load(s) = newest[s] \/ (s \in doomed /\ load(s) = NoSession)
                      /\ listed(s) => load(s) # NoSession
    BY DEF SessionSound
  <2>1. CASE store[s].checkpoint # NoSession
    <3>1. load(s) = store[s].checkpoint
      BY <2>1 DEF load
    <3> QED
      BY <2>1, <3>1 DEF Kept
  <2>2. CASE store[s].checkpoint = NoSession
    BY <2>2, FileNames, FreshType DEF Kept, load, listed, _summarize_session_dir
  <2> QED
    BY <2>1, <2>2
<1> QED
  BY <1>1, <1>2, <1>3, PTL DEF Spec

-----------------------------------------------------------------------------
(* The error limit                                                         *)

LEMMA InitCounting == Init => Counting /\ ErrorsEarned
<1> SUFFICES ASSUME Init PROVE Counting /\ ErrorsEarned
  OBVIOUS
<1>1. \A s \in Stores : store[s].checkpoint = NoSession
  BY DEF Init, StoreInit
<1>2. Tallied(ctl, hist)
  BY DEF Init, Fresh, NoHistory, Tallied
<1> QED
  BY <1>1, <1>2 DEF Counting, ErrorsEarned, Init

\* A request that is counted, and what follows from the count.
LEMMA CountedErrors ==
  ASSUME TypeOK, Located, Counting, ErrorsEarned, CrawlTarget \/ Answered \/ Failed
  PROVE  Counting' /\ ErrorsEarned'
<1>1. /\ ctl \in Controls /\ hist \in Histories
      /\ ctl.consecutive \in Nat /\ hist.streak \in Nat /\ MaxErrors \in Nat
  BY Fields, LoopAssumption DEF TypeOK
<1>2. store' = store
  BY DEF CrawlTarget, Answered, Failed, storeVars
<1>3. CASE Answered
  <2>1. ctl'.consecutive = 0 /\ hist'.streak = 0 /\ misjudged' = misjudged
    BY <1>3, AnsweredFields DEF Answered
  <2>2. Tallied(ctl', hist')
    BY <2>1 DEF Tallied
  <2> QED
    BY <1>2, <2>1, <2>2 DEF Counting, ErrorsEarned
<1>4. CASE \/ Failed
           \/ /\ ctl' = Counted(ctl) /\ hist' = Missed(hist)
              /\ misjudged' = (misjudged \/ Misjudges(TooMany(ctl), hist'))
  <2>1. /\ ctl'.consecutive = ctl.consecutive + 1
        /\ hist'.streak = hist.streak + 1 /\ hist'.spoke = hist.spoke
    <3>1. CASE Failed
      BY <3>1, FailedFields
    <3>2. CASE ctl' = Counted(ctl) /\ hist' = Missed(hist)
      BY <1>1, <3>2, CountedFields, RecordFields
    <3> QED
      BY <1>4, <3>1, <3>2
  <2>2. misjudged' = (misjudged \/ Misjudges(TooMany(ctl), hist'))
    BY <1>4 DEF Failed
  <2>3. hist.streak <= ctl.consecutive /\ (hist.spoke => ctl.consecutive <= hist.streak)
    BY DEF Counting, Tallied
  <2>4. TooMany(ctl) <=> ctl.consecutive + 1 > MaxErrors
    BY <1>1, CountedFields DEF TooMany
  <2>5. /\ hist'.streak <= ctl.consecutive + 1
        /\ hist'.spoke => ctl.consecutive + 1 <= hist'.streak
    BY <1>1, <2>1, <2>3
  <2>6. ~Misjudges(TooMany(ctl), hist')
    <3>1. ~(TooMany(ctl) /\ hist'.spoke /\ hist'.streak <= MaxErrors)
      BY <1>1, <2>1, <2>4, <2>5
    <3>2. ~(~TooMany(ctl) /\ hist'.streak > MaxErrors)
      BY <1>1, <2>1, <2>4, <2>5
    <3> QED
      BY <3>1, <3>2 DEF Misjudges
  <2>7. ErrorsEarned'
    BY <2>2, <2>6 DEF ErrorsEarned
  <2>8. Tallied(ctl', hist')
    BY <2>1, <2>5 DEF Tallied
  <2> QED
    BY <1>2, <2>7, <2>8 DEF Counting
<1>5. CASE UNCHANGED <<ctl, hist, misjudged>>
  BY <1>2, <1>5 DEF Counting, ErrorsEarned
<1>6. CASE ctl' = ctl /\ hist' = Unspoken(hist) /\ misjudged' = misjudged
  <2>1. ctl'.consecutive = ctl.consecutive /\ hist'.streak = 0 /\ ~hist'.spoke
    BY <1>1, <1>6, RecordFields
  <2>2. Tallied(ctl', hist')
    BY <1>1, <2>1 DEF Tallied
  <2> QED
    BY <1>2, <1>6, <2>2 DEF Counting, ErrorsEarned
<1> QED
  BY <1>3, <1>4, <1>5, <1>6 DEF CrawlTarget

\* The other steps leave the count of a process alone; a new
\* target begins a streak.
LEMMA CountKept ==
  ASSUME TypeOK, Located,
         \/ MainStep /\ ~(CrawlTarget \/ Answered \/ Failed \/ Exit)
         \/ HandlerStep \/ Signal \/ SignalAgain
  PROVE  /\ ctl'.consecutive = ctl.consecutive /\ misjudged' = misjudged
         /\ \/ hist'.streak = hist.streak /\ hist'.spoke = hist.spoke
            \/ hist'.streak = 0 /\ ~hist'.spoke
<1>1. ctl \in Controls /\ hist \in Histories
  BY DEF TypeOK
<1> USE DEF LeaveAlone, Main, Handler
<1>2. CASE \/ NextTarget \/ QueueDone \/ Prepare \/ BeginDirectory \/ Interrupted \/ ScanDone
           \/ Completed \/ DeleteSession \/ Signal \/ SignalAgain
           \/ ChooseContinue \/ ChooseSkip \/ ChooseQuit \/ SaveCheckpoint \/ SaveRemove
           \/ \E s \in Stores : ChooseSave(s)
  BY <1>2 DEF NextTarget, QueueDone, Prepare, BeginDirectory, Interrupted, ScanDone, Completed,
    DeleteSession, Signal, SignalAgain, ChooseContinue, ChooseSkip, ChooseQuit, SaveCheckpoint,
    SaveRemove, ChooseSave, Choose
<1>3. CASE QueueSubdir
  <2>1. phase = "queue" /\ ctl.urls # <<>> /\ Head(subdirsLeft) \in Dirs
    BY <1>3, TailMembers DEF QueueSubdir, TypeOK, Located, Begun, Dirs
  <2> QED
    BY <1>1, <1>3, <2>1, AddDirectory DEF QueueSubdir
<1>4. CASE ResetDictionary \/ ClearReset
  BY <1>1, <1>4, ResetFields DEF ResetDictionary, ClearReset
<1>5. CASE PopDirectory
  <2>1. ctl.directories # <<>>
    BY <1>5 DEF PopDirectory, Located, Scanning
  <2> QED
    BY <1>1, <1>5, <2>1, PopFields DEF PopDirectory
<1>6. CASE Unwind \/ ChooseNext
  <2>1. phase \in {"unwind", "scan"} => ctl.directories # <<>> /\ ctl.urls # <<>>
    BY DEF Located, Scanning, Begun
  <2>2. CASE Unwind
    <3>1. {<<Url, Directory>>} \in SUBSET (ToSet(Targets) \X Dirs)
      BY <2>1, <2>2, Fields DEF Unwind
    <3>2. hist'.streak = hist.streak /\ hist'.spoke = hist.spoke
      BY <1>1, <2>2, <3>1, WaivedFields DEF Unwind
    <3>3. ctl'.consecutive = ctl.consecutive
      BY <1>1, <2>1, <2>2, ResetFields, PopFields DEF Unwind
    <3> QED
      BY <2>2, <3>2, <3>3 DEF Unwind
  <2>3. CASE ChooseNext
    <3>1. phase = "scan" => {<<Url, Directory>>} \in SUBSET (ToSet(Targets) \X Dirs)
      BY <2>1, Fields
    <3>2. \/ hist' = hist
          \/ phase = "scan" /\ hist' = [hist EXCEPT !.waived = @ \cup {<<Url, Directory>>}]
      BY <2>3 DEF ChooseNext
    <3>3. hist'.streak = hist.streak /\ hist'.spoke = hist.spoke
      <4>1. CASE hist' = hist
        BY <4>1
      <4>2. CASE phase = "scan" /\ hist' = [hist EXCEPT !.waived = @ \cup {<<Url, Directory>>}]
        BY <1>1, <3>1, <4>2, WaivedFields
      <4> QED
        BY <3>2, <4>1, <4>2
    <3> QED
      BY <2>3, <3>3 DEF ChooseNext, Choose
  <2> QED
    BY <1>6, <2>2, <2>3
<1>7. CASE ClearDirectories
  <2>1. {Url} \X Dirs \in SUBSET (ToSet(Targets) \X Dirs)
    BY <1>7, Fields DEF ClearDirectories, Located, Begun
  <2>2. hist'.streak = hist.streak /\ hist'.spoke = hist.spoke
    BY <1>1, <1>7, <2>1, WaivedFields DEF ClearDirectories
  <2>3. ctl'.consecutive = ctl.consecutive
    BY <1>1, <1>7, ClearFields DEF ClearDirectories
  <2> QED
    BY <1>7, <2>2, <2>3 DEF ClearDirectories
<1>8. CASE PopUrl
  <2>1. ctl.urls # <<>>
    BY <1>8 DEF PopUrl, Located, Begun
  <2> QED
    BY <1>1, <1>8, <2>1, PopUrlFields, RecordFields DEF PopUrl
<1> QED
  BY <1>2, <1>3, <1>4, <1>5, <1>6, <1>7, <1>8 DEF MainStep, HandlerStep

\* What a step adds to the sessions on disk is the state of the process.
LEMMA SavedSessions ==
  ASSUME TypeOK, Located, [Next]_vars, NEW s \in Stores, store'[s].checkpoint # NoSession
  PROVE  \/ store'[s].checkpoint = store[s].checkpoint
         \/ SaveCheckpoint /\ store'[s].checkpoint = Payload
<1>1. CASE UNCHANGED store
  BY <1>1
<1>2. CASE SaveCheckpoint
  BY <1>2, WriteCheckpointStore DEF SaveCheckpoint, Located
<1>3. CASE \E f : RemoveFile(f)
  BY <1>3, RemoveFileStore
<1>4. \/ UNCHANGED store \/ SaveCheckpoint \/ \E f : RemoveFile(f)
  BY DEF Next, MainStep, HandlerStep, NextTarget, QueueSubdir, QueueDone, Prepare, CrawlTarget,
    BeginDirectory, Answered, Failed, Interrupted, ScanDone, ResetDictionary, PopDirectory,
    Unwind, ClearDirectories, ClearReset, PopUrl, Completed, DeleteSession, Exit, Crash, Gone,
    Main, LeaveAlone, storeVars, setup, import, Start, delete, Signal, SignalAgain,
    ChooseContinue, ChooseNext, ChooseSkip, ChooseQuit, ChooseSave, Choose, SaveRemove, vars
<1> QED
  BY <1>1, <1>2, <1>3, <1>4

LEMMA NextCounting ==
  ASSUME TypeOK, Located, Counting, ErrorsEarned, [Next]_vars
  PROVE  Counting' /\ ErrorsEarned'
<1>1. \A s \in Stores : store'[s].checkpoint # NoSession =>
        Tallied(store'[s].checkpoint.ctl, store'[s].checkpoint.hist)
  <2> SUFFICES ASSUME NEW s \in Stores, store'[s].checkpoint # NoSession
               PROVE  Tallied(store'[s].checkpoint.ctl, store'[s].checkpoint.hist)
    OBVIOUS
  <2>1. CASE store'[s].checkpoint = store[s].checkpoint
    BY <2>1 DEF Counting
  <2>2. CASE store'[s].checkpoint = Payload
    <3>1. Tallied(ctl, hist)
      BY DEF Counting
    <3>2. Tallied(Payload.ctl, Payload.hist)
      BY <3>1, PayloadFields DEF Tallied
    <3> QED
      BY <2>2, <3>2
  <2> QED
    BY <2>1, <2>2, SavedSessions
<1>2. Tallied(ctl', hist') /\ ErrorsEarned'
  <2>1. CASE UNCHANGED vars
    BY <2>1 DEF vars, Counting, ErrorsEarned
  <2>2. CASE setup \/ Crash \/ Exit
    BY <2>2 DEF setup, Start, Crash, Exit, Gone, Fresh, NoHistory, ErrorsEarned, Tallied
  <2>3. CASE \E s \in Stores : import(s)
    <3>1. PICK s \in Stores : import(s)
      BY <2>3
    <3>2. Tallied(load(s).ctl, load(s).hist)
      <4>1. Tallied(Fresh, NoHistory)
        BY DEF Tallied, Fresh, NoHistory
      <4>2. load(s) # NoSession
        BY <3>1 DEF import
      <4> QED
        BY <4>1, <4>2, Loaded, FreshType DEF Counting
    <3> QED
      BY <3>1, <3>2 DEF import, Start, ErrorsEarned
  <2>4. CASE CrawlTarget \/ Answered \/ Failed
    BY <2>4, CountedErrors DEF Counting
  <2>5. CASE \/ MainStep /\ ~(CrawlTarget \/ Answered \/ Failed \/ Exit)
             \/ HandlerStep \/ Signal \/ SignalAgain
    <3>1. /\ ctl'.consecutive = ctl.consecutive /\ misjudged' = misjudged
          /\ \/ hist'.streak = hist.streak /\ hist'.spoke = hist.spoke
             \/ hist'.streak = 0 /\ ~hist'.spoke
      BY <2>5, CountKept
    <3>2. ctl.consecutive \in Nat /\ Tallied(ctl, hist)
      BY Fields DEF Counting
    <3>3. Tallied(ctl', hist')
      BY <3>1, <3>2 DEF Tallied
    <3> QED
      BY <3>1, <3>3 DEF ErrorsEarned
  <2> QED
    BY <2>1, <2>2, <2>3, <2>4, <2>5 DEF Next
<1> QED
  BY <1>1, <1>2 DEF Counting

\* ErrorsEarned: for any number of targets, sessions and tolerated errors, a target
\* is given up at the failure that is the MaxErrors + 1st since it last answered,
\* at the latest, and at no earlier one if what it answered was a request for a
\* word (raise_error, reset_consecutive_errors, crawl_target).
THEOREM ErrorLimitEarned == Spec => []ErrorsEarned
<1> DEFINE Inv == TypeOK /\ Located /\ Counting /\ ErrorsEarned
<1>1. Init => Inv
  BY InitShape, InitCounting
<1>2. Inv /\ [Next]_vars => Inv'
  BY NextShape, NextCounting
<1> QED
  BY <1>1, <1>2, PTL DEF Spec

-----------------------------------------------------------------------------
(* Nothing lost, nothing repeated: what each operation keeps               *)

\* Covered speaks of start directories only where nothing is passed yet.
LEMMA CoveredMore ==
  ASSUME NEW c, NEW h, NEW A, NEW B, Covered(c, h, A), A \cap ToSet(Subdirs) \subseteq B
  PROVE  Covered(c, h, B)
BY DEF Covered

LEMMA RecordedMore ==
  ASSUME NEW c, NEW h, NEW k, Recorded(c, h, k)
  PROVE  Recorded(c, h, Words)
BY LoopAssumption DEF Recorded

\* The predicates read only some of the fields.
LEMMA SameFields ==
  ASSUME NEW c, NEW h, NEW n, NEW g,
         n.urls = c.urls, n.directories = c.directories, n.passed = c.passed,
         g.done = h.done, h.waived \subseteq g.waived
  PROVE  /\ Queued(c) => Queued(n)
         /\ \A k : Recorded(c, h, k) => Recorded(n, g, k)
         /\ \A A : Covered(c, h, A) => Covered(n, g, A)
         /\ n.index = c.index /\ Progress(c, h) => Progress(n, g)
<1>1. Queued(c) => Queued(n)
  BY DEF Queued
<1>2. \A k : Recorded(c, h, k) => Recorded(n, g, k)
  BY DEF Recorded
<1>3. \A A : Covered(c, h, A) => Covered(n, g, A)
  BY DEF Covered, Complete
<1>4. n.index = c.index /\ Progress(c, h) => Progress(n, g)
  BY DEF Progress
<1> QED
  BY <1>1, <1>2, <1>3, <1>4

\* add_directory queues what has neither been queued nor requested.
LEMMA AddKeeps ==
  ASSUME NEW c \in Controls, NEW h \in Histories, NEW n \in Controls, NEW dir \in Dirs,
         NEW A, NEW k,
         c.urls # <<>>, n.urls = c.urls, n.index = c.index,
         <<Head(c.urls), dir>> \notin c.passed,
         n.directories = Append(c.directories, dir),
         n.passed = c.passed \cup {<<Head(c.urls), dir>>},
         Queued(c), Recorded(c, h, k), Progress(c, h), Covered(c, h, A),
         c.directories = <<>> => c.index = 0
  PROVE  /\ Queued(n) /\ Recorded(n, h, k) /\ Progress(n, h) /\ Covered(n, h, A \ {dir})
         /\ n.directories # <<>>
<1> DEFINE u == Head(c.urls)
           D == c.directories
<1>1. /\ D \in Seq(Dirs) /\ u \in ToSet(Targets) /\ Head(n.urls) = u
  BY TailMembers DEF Controls
<1>2. dir \notin ToSet(D)
  BY DEF Queued
<1>3. /\ n.directories # <<>>
      /\ ToSet(n.directories) = ToSet(D) \cup {dir}
      /\ Head(n.directories) = IF D = <<>> THEN dir ELSE Head(D)
      /\ IsInjective(n.directories)
  BY <1>1, <1>2, AppendMembers DEF Queued
<1>4. D = <<>> => ToSet(D) = {}
  BY DEF ToSet
<1>5. D # <<>> => Head(D) \in ToSet(D)
  BY <1>1, TailMembers
<1>6. Queued(n)
  BY <1>1, <1>3 DEF Queued
<1>7. Recorded(n, h, k)
  <2> SUFFICES ASSUME NEW t \in ToSet(Targets), NEW d \in Dirs, NEW w \in 1..Words,
                      <<t, d, w>> \in h.done
               PROVE  /\ <<t, d>> \in n.passed
                      /\ d \in ToSet(n.directories) /\ t = u => d = Head(n.directories) /\ w <= k
    BY <1>1 DEF Recorded
  <2>1. /\ <<t, d>> \in c.passed
        /\ d \in ToSet(D) /\ t = u => d = Head(D) /\ w <= k
    BY DEF Recorded
  <2>2. ~(t = u /\ d = dir)
    BY <2>1
  <2> QED
    BY <1>3, <1>4, <2>1, <2>2
<1>8. Progress(n, h)
  <2>1. CASE D = <<>>
    <3>1. n.index = 0
      BY <2>1
    <3> QED
      BY <3>1 DEF Progress
  <2>2. CASE D # <<>>
    BY <1>1, <1>3, <2>2 DEF Progress
  <2> QED
    BY <2>1, <2>2
<1>9. Covered(n, h, A \ {dir})
  <2> SUFFICES ASSUME NEW t \in ToSet(Targets), NEW d \in Dirs \ Refused,
                      d \in ToSet(Subdirs) \/ <<t, d>> \in n.passed
               PROVE  \/ <<t, d>> \in h.waived
                      \/ Complete(h, t, d)
                      \/ d \in ToSet(n.directories) /\ t = u
                      \/ /\ <<t, d>> \notin n.passed /\ c.urls # <<>>
                         /\ t \in ToSet(Tail(c.urls)) \/ (t = u /\ d \in A \ {dir})
    BY <1>1 DEF Covered
  <2>1. CASE t = u /\ d = dir
    BY <1>3, <2>1
  <2>2. CASE ~(t = u /\ d = dir)
    <3>1. <<t, d>> \in n.passed <=> <<t, d>> \in c.passed
      BY <2>2
    <3>2. \/ <<t, d>> \in h.waived
          \/ Complete(h, t, d)
          \/ d \in ToSet(D) /\ t = u
          \/ /\ <<t, d>> \notin c.passed /\ c.urls # <<>>
             /\ t \in ToSet(Tail(c.urls)) \/ (t = u /\ d \in A)
      BY <3>1 DEF Covered
    <3> QED
      BY <1>3, <2>2, <3>1, <3>2
  <2> QED
    BY <2>1, <2>2
<1> QED
  BY <1>3, <1>6, <1>7, <1>8, <1>9

\* A request for the next word of the first directory.
LEMMA SendKeeps ==
  ASSUME NEW c \in Controls, NEW h \in Histories, NEW n \in Controls, NEW g \in Histories,
         NEW A,
         c.urls # <<>>, c.directories # <<>>, n.urls = c.urls, n.directories = c.directories,
         n.passed = c.passed, n.index = c.index + 1,
         g.done = h.done \cup {<<Head(c.urls), Head(c.directories), c.index + 1>>},
         g.waived = h.waived,
         Queued(c), Recorded(c, h, c.index), Progress(c, h), Covered(c, h, A)
  PROVE  /\ Queued(n) /\ Recorded(n, g, n.index) /\ Progress(n, g) /\ Covered(n, g, A)
         /\ <<Head(c.urls), Head(c.directories), c.index + 1>> \notin h.done
<1> DEFINE u == Head(c.urls)
           f == Head(c.directories)
           r == <<u, f, c.index + 1>>
<1>1. /\ u \in ToSet(Targets) /\ f \in Dirs /\ f \in ToSet(c.directories)
      /\ c.index \in 0..Words /\ n.index \in 0..Words
      /\ h.done \subseteq ToSet(Targets) \X Dirs \X (1..Words)
  BY TailMembers DEF Controls, Histories
<1>2. <<u, f>> \in c.passed
  BY <1>1 DEF Queued
<1>3. c.index + 1 \in 1..Words
  BY <1>1, LoopAssumption
<1>4. r \notin h.done
  <2>1. r \in h.done => c.index + 1 <= c.index
    BY <1>1, <1>3 DEF Recorded
  <2> QED
    BY <1>1, <2>1
<1>5. Queued(n)
  BY DEF Queued
<1>6. Recorded(n, g, n.index)
  <2> SUFFICES ASSUME NEW t \in ToSet(Targets), NEW d \in Dirs, NEW w \in 1..Words,
                      <<t, d, w>> \in g.done
               PROVE  /\ <<t, d>> \in c.passed
                      /\ d \in ToSet(c.directories) /\ t = u => d = f /\ w <= c.index + 1
    BY DEF Recorded
  <2>1. CASE <<t, d, w>> = r
    BY <2>1, <1>2
  <2>2. CASE <<t, d, w>> \in h.done
    <3>1. /\ <<t, d>> \in c.passed
          /\ d \in ToSet(c.directories) /\ t = u => d = f /\ w <= c.index
      BY <2>2 DEF Recorded
    <3> QED
      BY <1>1, <3>1
  <2> QED
    BY <2>1, <2>2
<1>7. Progress(n, g)
  <2> SUFFICES ASSUME NEW w \in 1 .. c.index + 1 PROVE <<u, f, w>> \in g.done
    BY DEF Progress
  <2>1. CASE w = c.index + 1
    BY <2>1
  <2>2. CASE w # c.index + 1
    <3>1. w \in 1 .. c.index
      BY <1>1, <2>2
    <3> QED
      BY <3>1 DEF Progress
  <2> QED
    BY <2>1, <2>2
<1>8. Covered(n, g, A)
  <2>1. \A t \in ToSet(Targets), d \in Dirs : Complete(h, t, d) => Complete(g, t, d)
    BY DEF Complete
  <2> QED
    BY <2>1 DEF Covered
<1> QED
  BY <1>4, <1>5, <1>6, <1>7, <1>8

\* A directory that is complete or given up leaves the queue.
LEMMA PopKeeps ==
  ASSUME NEW c \in Controls, NEW h \in Histories, NEW n \in Controls, NEW g \in Histories,
         NEW A, NEW k,
         c.urls # <<>>, c.directories # <<>>, n.urls = c.urls,
         n.directories = Tail(c.directories), n.passed = c.passed, n.index = 0,
         g.done = h.done, h.waived \subseteq g.waived,
         \/ Complete(h, Head(c.urls), Head(c.directories))
         \/ <<Head(c.urls), Head(c.directories)>> \in g.waived,
         Queued(c), Recorded(c, h, Words), Covered(c, h, A)
  PROVE  Queued(n) /\ Recorded(n, g, k) /\ Progress(n, g) /\ Covered(n, g, A)
<1> DEFINE u == Head(c.urls)
           f == Head(c.directories)
<1>1. /\ ToSet(c.directories) = {f} \cup ToSet(n.directories)
      /\ IsInjective(n.directories) /\ f \notin ToSet(n.directories)
  BY TailMembers DEF Controls, Queued
<1>2. Queued(n)
  BY <1>1 DEF Queued
<1>3. Recorded(n, g, k)
  BY <1>1 DEF Recorded
<1>4. Progress(n, g)
  BY DEF Progress
<1>5. Covered(n, g, A)
  <2> SUFFICES ASSUME NEW t \in ToSet(Targets), NEW d \in Dirs \ Refused,
                      d \in ToSet(Subdirs) \/ <<t, d>> \in c.passed
               PROVE  \/ <<t, d>> \in g.waived
                      \/ Complete(g, t, d)
                      \/ d \in ToSet(n.directories) /\ t = u
                      \/ /\ <<t, d>> \notin c.passed /\ c.urls # <<>>
                         /\ t \in ToSet(Tail(c.urls)) \/ (t = u /\ d \in A)
    BY DEF Covered
  <2>1. Complete(h, t, d) => Complete(g, t, d)
    BY DEF Complete
  <2>2. \/ <<t, d>> \in h.waived
        \/ Complete(h, t, d)
        \/ d \in ToSet(c.directories) /\ t = u
        \/ /\ <<t, d>> \notin c.passed /\ c.urls # <<>>
           /\ t \in ToSet(Tail(c.urls)) \/ (t = u /\ d \in A)
    BY DEF Covered
  <2> QED
    BY <1>1, <2>1, <2>2
<1> QED
  BY <1>2, <1>3, <1>4, <1>5

\* A target is given up with everything that is queued for it.
LEMMA ClearKeeps ==
  ASSUME NEW c \in Controls, NEW h \in Histories, NEW n \in Controls, NEW g \in Histories,
         NEW A, NEW k, c.urls # <<>>, n.urls = c.urls, n.directories = <<>>, n.passed = c.passed,
         g.done = h.done, g.waived = h.waived \cup ({Head(c.urls)} \X Dirs),
         Recorded(c, h, Words), Covered(c, h, A)
  PROVE  Queued(n) /\ Recorded(n, g, k) /\ Progress(n, g) /\ Covered(n, g, {})
<1>1. ToSet(n.directories) = {} /\ IsInjective(n.directories)
  BY DEF ToSet, IsInjective
<1>2. Queued(n)
  BY <1>1 DEF Queued
<1>3. Recorded(n, g, k)
  BY <1>1 DEF Recorded
<1>4. Progress(n, g)
  BY DEF Progress
<1>5. Covered(n, g, {})
  BY DEF Covered, Complete
<1> QED
  BY <1>2, <1>3, <1>4, <1>5

\* The next target begins with nothing queued.
LEMMA PopUrlKeeps ==
  ASSUME NEW c \in Controls, NEW h \in Histories, NEW n \in Controls, NEW k, NEW B,
         c.urls # <<>>, c.directories = <<>>, n.urls = Tail(c.urls),
         n.directories = <<>>, n.passed = c.passed,
         Recorded(c, h, k), Covered(c, h, {}), ToSet(Subdirs) \subseteq B
  PROVE  Queued(n) /\ Recorded(n, h, k) /\ Progress(n, h) /\ Covered(n, h, B)
<1>1. ToSet(n.directories) = {} /\ IsInjective(n.directories)
  BY DEF ToSet, IsInjective
<1>2. Queued(n)
  BY <1>1 DEF Queued
<1>3. Recorded(n, h, k)
  BY <1>1 DEF Recorded
<1>4. Progress(n, h)
  BY DEF Progress
<1>5. Covered(n, h, B)
  <2>1. \A t \in ToSet(Tail(c.urls)) :
          /\ Tail(c.urls) # <<>>
          /\ t = Head(Tail(c.urls)) \/ t \in ToSet(Tail(Tail(c.urls)))
    <3>1. Tail(c.urls) \in Seq(ToSet(Targets))
      BY TailMembers DEF Controls
    <3>2. Tail(c.urls) = <<>> => ToSet(Tail(c.urls)) = {}
      BY DEF ToSet
    <3> DEFINE r == Tail(c.urls)
    <3> HIDE DEF r
    <3>3. CASE r # <<>>
      <4>1. r \in Seq(ToSet(Targets))
        BY <3>1 DEF r
      <4>2. ToSet(r) = {Head(r)} \cup ToSet(Tail(r))
        BY <3>3, <4>1, TailMembers
      <4> QED
        BY <3>3, <4>2 DEF r
    <3>4. CASE r = <<>>
      BY <3>2, <3>4 DEF r
    <3> QED
      BY <3>3, <3>4
  <2> QED
    BY <1>1, <2>1 DEF Covered
<1> QED
  BY <1>2, <1>3, <1>4, <1>5

\* A new scan has everything before it.
LEMMA FreshResumable == Resumable(Fresh, NoHistory)
<1> DEFINE c == Fresh
           h == NoHistory
<1>1. /\ c.urls = Targets /\ c.directories = <<>> /\ c.passed = {} /\ c.index = 0
      /\ h.done = {} /\ h.waived = {} /\ Targets \in Seq(ToSet(Targets))
  BY LoopAssumption DEF Fresh, NoHistory
<1> HIDE DEF c, h
<1>2. ToSet(c.directories) = {} /\ IsInjective(c.directories)
  BY <1>1 DEF ToSet, IsInjective
<1>3. Queued(c)
  BY <1>2 DEF Queued
<1>4. Progress(c, h) /\ Recorded(c, h, c.index)
  BY <1>1 DEF Progress, Recorded
<1>5. Covered(c, h, Unqueued(c))
  <2>1. Unqueued(c) = Dirs
    BY <1>1 DEF Unqueued
  <2>2. Targets = <<>> => ToSet(Targets) = {}
    BY DEF ToSet
  <2>3. \A t \in ToSet(Targets) :
          Targets # <<>> /\ (t = Head(Targets) \/ t \in ToSet(Tail(Targets)))
    BY <1>1, <2>2, TailMembers
  <2> QED
    BY <1>1, <1>2, <2>1, <2>3 DEF Covered
<1> QED
  BY <1>1, <1>3, <1>4, <1>5 DEF Resumable, c, h

-----------------------------------------------------------------------------
(* Nothing lost, nothing repeated: step by step                            *)

\* A step that moves the main thread and changes nothing that a session saves.
LEMMA Moved ==
  ASSUME TypeOK, Placed, UNCHANGED <<ctl, hist>>,
         ctl.urls # <<>> => Ahead \cap ToSet(Subdirs) \subseteq Ahead',
         phase \in {"pop", "clear"} => phase' \in {"pop", "clear"},
         phase = "clearReset" => phase' = "clearReset",
         phase' = "reset" => phase = "reset" \/ ctl.index = Words,
         phase' = "pop" => phase = "pop"
  PROVE  Placed'
<1>1. Covered(ctl, hist, Ahead')
  <2>1. CASE ctl.urls # <<>>
    BY <2>1, CoveredMore DEF Placed
  <2>2. CASE ctl.urls = <<>>
    BY <2>2 DEF Placed, Covered
  <2> QED
    BY <2>1, <2>2
<1>2. Recorded(ctl, hist, IF phase' \in {"pop", "clear"} THEN Words ELSE ctl.index)
  BY RecordedMore DEF Placed
<1>3. (Covered(ctl, hist, Ahead))'
  BY <1>1
<1>4. (Recorded(ctl, hist, IF phase \in {"pop", "clear"} THEN Words ELSE ctl.index))'
  BY <1>2
<1>5. (Queued(ctl) /\ Progress(ctl, hist))'
  BY DEF Placed
<1>6. /\ ctl'.directories = <<>> /\ phase' # "clearReset" => ctl'.index = 0
      /\ phase' = "reset" => ctl'.index = Words \/ (<<Url, Directory>> \in hist.waived)'
      /\ phase' = "pop" =>
           /\ ctl'.index = 0
           /\ (Complete(hist, Url, Directory) \/ <<Url, Directory>> \in hist.waived)'
  BY DEF Placed, Url, Directory
<1> QED
  BY <1>3, <1>4, <1>5, <1>6 DEF Placed

LEMMA MovedSteps ==
  ASSUME TypeOK, Located, Placed, phase' \notin {"off", "exit"},
         \/ NextTarget \/ QueueDone \/ Prepare \/ BeginDirectory \/ Interrupted \/ ScanDone
         \/ Completed \/ DeleteSession \/ Signal \/ SignalAgain
         \/ ChooseContinue \/ ChooseSkip \/ ChooseQuit \/ SaveCheckpoint \/ SaveRemove
         \/ \E s \in Stores : ChooseSave(s)
  PROVE  Placed' /\ redone' = redone /\ hist' = hist
<1> USE DEF LeaveAlone, Main, Handler, runVars, handlerVars
<1>0. ToSet(Subdirs) \subseteq Dirs /\ ToSet(<<>>) = {}
  BY DEF Dirs, ToSet
<1>1. CASE NextTarget
  <2>1. /\ UNCHANGED <<ctl, hist, redone>> /\ phase \in {"boot", "targets"}
        /\ \/ ctl.urls = <<>> /\ phase' = "completed"
           \/ phase' = "clear"
           \/ phase' = "queue" /\ subdirsLeft' = IF ctl.directories = <<>> THEN Subdirs ELSE <<>>
    BY <1>1 DEF NextTarget
  <2>2. ctl.urls # <<>> => Ahead \cap ToSet(Subdirs) \subseteq Ahead'
    BY <1>0, <2>1 DEF Ahead, Unqueued
  <2> QED
    BY <2>1, <2>2, Moved
<1>2. CASE \/ QueueDone \/ Prepare \/ BeginDirectory \/ Interrupted \/ ScanDone
           \/ Completed \/ DeleteSession
  <2>1. /\ UNCHANGED <<ctl, hist, redone>>
        /\ \/ phase = "queue" /\ subdirsLeft = <<>> /\ phase' = "prepare"
           \/ phase = "prepare" /\ phase' \in {"crawl", "clear"}
           \/ phase = "dirs" /\ phase' \in {"scan", "shift"}
           \/ phase = "scan" /\ phase' = "unwind"
           \/ phase = "scan" /\ phase' = "reset" /\ ctl.index = Words
           \/ phase \in {"completed", "delete"} /\ phase' = "delete"
    BY <1>2 DEF QueueDone, Prepare, BeginDirectory, Interrupted, ScanDone, Completed, DeleteSession
  <2>2. Ahead = {}
    BY <1>0, <2>1 DEF Ahead
  <2> QED
    BY <2>1, <2>2, Moved
<1>3. CASE ChooseSkip
  <2>1. UNCHANGED <<ctl, hist, redone>> /\ phase' = Raised
    BY <1>3 DEF ChooseSkip, Choose
  <2>2. /\ phase' \in {"unwind", "clear"}
        /\ phase' = "unwind" => phase \in {"scan", "unwind", "dirs"}
        /\ phase \notin {"clear", "clearReset"}
        /\ phase = "pop" => phase' = "clear"
    BY <2>1 DEF Raised, TypeOK
  <2>3. Ahead \cap ToSet(Subdirs) \subseteq Ahead'
    BY <1>0, <2>2 DEF Ahead
  <2> QED
    BY <2>1, <2>2, <2>3, Moved
<1>4. CASE \/ Signal \/ SignalAgain \/ ChooseContinue \/ ChooseQuit \/ SaveCheckpoint \/ SaveRemove
           \/ \E s \in Stores : ChooseSave(s)
  <2>1. UNCHANGED <<phase, subdirsLeft, ctl, hist, redone>>
    BY <1>4 DEF Signal, SignalAgain, ChooseContinue, ChooseQuit, SaveCheckpoint, SaveRemove,
      ChooseSave, Choose
  <2>2. Ahead' = Ahead
    BY <2>1 DEF Ahead
  <2> QED
    BY <2>1, <2>2, Moved
<1> QED
  BY <1>1, <1>2, <1>3, <1>4

\* The steps that queue and request.
LEMMA ScanSteps ==
  ASSUME TypeOK, Located, TypeOK', Located', Placed,
         QueueSubdir \/ CrawlTarget \/ Answered \/ Failed
  PROVE  Placed' /\ redone' = redone /\ hist'.gap = hist.gap
<1> USE DEF LeaveAlone, Main
<1>1. ctl \in Controls /\ hist \in Histories /\ ctl' \in Controls /\ hist' \in Histories
  BY DEF TypeOK
<1>2. CASE QueueSubdir
  <2> DEFINE dir == Head(subdirsLeft)
  <2>1. /\ phase = "queue" /\ phase' = "queue" /\ ctl.urls # <<>> /\ UNCHANGED <<hist, redone>>
        /\ ctl' = add_directory(ctl, dir) /\ subdirsLeft' = Tail(subdirsLeft)
        /\ subdirsLeft # <<>>
    BY <1>2 DEF QueueSubdir, Located, Begun
  <2>2. dir \in Dirs /\ ToSet(subdirsLeft) = {dir} \cup ToSet(subdirsLeft')
    BY <2>1, TailMembers DEF TypeOK, Dirs
  <2>3. /\ ctl'.urls = ctl.urls /\ ctl'.index = ctl.index
        /\ dir \notin Refused => <<Head(ctl.urls), dir>> \in ctl'.passed
        /\ \/ ctl' = ctl
           \/ /\ <<Head(ctl.urls), dir>> \notin ctl.passed
              /\ ctl'.directories = Append(ctl.directories, dir)
              /\ ctl'.passed = ctl.passed \cup {<<Head(ctl.urls), dir>>}
    BY <1>1, <2>1, <2>2, AddDirectory
  <2>4. /\ Queued(ctl) /\ Progress(ctl, hist) /\ Recorded(ctl, hist, ctl.index)
        /\ Covered(ctl, hist, ToSet(subdirsLeft)) /\ (ctl.directories = <<>> => ctl.index = 0)
    BY <2>1 DEF Placed, Ahead
  <2>5. /\ Queued(ctl') /\ Progress(ctl', hist) /\ Recorded(ctl', hist, ctl'.index)
        /\ Covered(ctl', hist, ToSet(subdirsLeft) \ {dir})
        /\ ctl'.directories = <<>> => ctl'.index = 0
    <3>1. CASE ctl' = ctl
      <4>1. Covered(ctl, hist, ToSet(subdirsLeft) \ {dir})
        <5>1. dir \notin Refused => <<Head(ctl.urls), dir>> \in ctl.passed
          BY <2>3, <3>1
        <5> QED
          BY <2>4, <5>1 DEF Covered
      <4> QED
        BY <2>4, <3>1, <4>1
    <3>2. CASE /\ <<Head(ctl.urls), dir>> \notin ctl.passed
               /\ ctl'.directories = Append(ctl.directories, dir)
               /\ ctl'.passed = ctl.passed \cup {<<Head(ctl.urls), dir>>}
      BY <1>1, <2>1, <2>2, <2>3, <2>4, <3>2, AddKeeps
    <3> QED
      BY <2>3, <3>1, <3>2
  <2>6. Covered(ctl', hist, ToSet(subdirsLeft'))
    BY <2>2, <2>5, CoveredMore
  <2> QED
    BY <2>1, <2>5, <2>6 DEF Placed, Ahead
<1>3. CASE CrawlTarget
  <2>1. /\ phase = "crawl" /\ phase' \in {"clear", "dirs"} /\ redone' = redone
        /\ ctl'.urls = ctl.urls /\ ctl'.directories = ctl.directories
        /\ ctl'.passed = ctl.passed /\ ctl'.index = ctl.index
        /\ hist'.done = hist.done /\ hist'.waived = hist.waived /\ hist'.gap = hist.gap
    <3>1. CASE UNCHANGED <<ctl, hist>>
      BY <1>3, <3>1 DEF CrawlTarget
    <3>2. CASE ctl' = Counted(ctl) /\ hist' = Missed(hist)
      BY <1>1, <1>3, <3>2, CountedFields, RecordFields DEF CrawlTarget
    <3>3. CASE ctl' = ctl /\ hist' = Unspoken(hist)
      BY <1>1, <1>3, <3>3, RecordFields DEF CrawlTarget
    <3> QED
      BY <1>3, <3>1, <3>2, <3>3 DEF CrawlTarget
  <2>2. /\ Queued(ctl) /\ Progress(ctl, hist) /\ Recorded(ctl, hist, ctl.index)
        /\ Covered(ctl, hist, {}) /\ (ctl.directories = <<>> => ctl.index = 0)
    BY <2>1 DEF Placed, Ahead
  <2>3. /\ Queued(ctl') /\ Progress(ctl', hist') /\ Recorded(ctl', hist', ctl'.index)
        /\ Covered(ctl', hist', {})
    BY <2>1, <2>2, SameFields
  <2>4. Recorded(ctl', hist', Words) /\ Covered(ctl', hist', Dirs)
    BY <2>3, RecordedMore, CoveredMore
  <2> QED
    BY <2>1, <2>2, <2>3, <2>4 DEF Placed, Ahead
<1>4. CASE Answered \/ Failed
  <2>1. /\ phase = "scan" /\ ctl.urls # <<>> /\ ctl.directories # <<>>
        /\ phase' \in {"scan", "unwind"} /\ ctl'.urls = ctl.urls /\ ctl'.index = ctl.index + 1
        /\ hist'.done = hist.done \cup {Sent} /\ hist'.waived = hist.waived
        /\ hist'.gap = hist.gap
        /\ redone' = (redone \/ Sent \in hist.done)
    BY <1>4, AnsweredFields, FailedFields DEF Answered, Failed
  <2>2. \/ ctl'.directories = ctl.directories /\ ctl'.passed = ctl.passed
        \/ \E dir \in Dirs : /\ <<Url, dir>> \notin ctl.passed
                             /\ ctl'.directories = Append(ctl.directories, dir)
                             /\ ctl'.passed = ctl.passed \cup {<<Url, dir>>}
    BY <1>4, AnsweredFields, FailedFields
  <2>3. /\ Queued(ctl) /\ Progress(ctl, hist) /\ Recorded(ctl, hist, ctl.index)
        /\ Covered(ctl, hist, {})
    BY <2>1 DEF Placed, Ahead
  <2> DEFINE n == [ctl EXCEPT !.index = @ + 1]
  <2>4. /\ n \in Controls /\ n.urls = ctl.urls /\ n.directories = ctl.directories
        /\ n.passed = ctl.passed /\ n.index = ctl.index + 1
    BY <1>1, <1>4, AdvanceFields DEF Answered, Failed
  <2> HIDE DEF n
  <2>5. /\ Queued(n) /\ Recorded(n, hist', n.index) /\ Progress(n, hist') /\ Covered(n, hist', {})
        /\ Sent \notin hist.done
    BY <1>1, <2>1, <2>3, <2>4, SendKeeps DEF Sent, Url, Directory
  <2>6. /\ Queued(ctl') /\ Recorded(ctl', hist', ctl'.index) /\ Progress(ctl', hist')
        /\ Covered(ctl', hist', {}) /\ ctl'.directories # <<>>
    <3>1. CASE ctl'.directories = ctl.directories /\ ctl'.passed = ctl.passed
      BY <2>1, <2>4, <2>5, <3>1, SameFields
    <3>2. ASSUME NEW dir \in Dirs, <<Url, dir>> \notin ctl.passed,
                 ctl'.directories = Append(ctl.directories, dir),
                 ctl'.passed = ctl.passed \cup {<<Url, dir>>}
          PROVE  /\ Queued(ctl') /\ Recorded(ctl', hist', ctl'.index) /\ Progress(ctl', hist')
                 /\ Covered(ctl', hist', {}) /\ ctl'.directories # <<>>
      <4>1. Queued(ctl') /\ Recorded(ctl', hist', n.index) /\ Progress(ctl', hist')
            /\ Covered(ctl', hist', {} \ {dir}) /\ ctl'.directories # <<>>
        <5>1. /\ n \in Controls /\ hist' \in Histories /\ ctl' \in Controls
              /\ n.urls # <<>> /\ ctl'.urls = n.urls /\ ctl'.index = n.index
              /\ n.directories = <<>> => n.index = 0
          BY <1>1, <2>1, <2>4
        <5>2. /\ <<Head(n.urls), dir>> \notin n.passed
              /\ ctl'.directories = Append(n.directories, dir)
              /\ ctl'.passed = n.passed \cup {<<Head(n.urls), dir>>}
          BY <2>4, <3>2 DEF Url
        <5>3. Queued(n) /\ Recorded(n, hist', n.index) /\ Progress(n, hist') /\ Covered(n, hist', {})
          BY <2>5
        <5> QED
          BY <5>1, <5>2, <5>3, AddKeeps, Zenon
      <4>2. {} \ {dir} = {} /\ n.index = ctl'.index
        BY <2>1, <2>4
      <4> QED
        BY <4>1, <4>2
    <3> QED
      BY <2>2, <3>1, <3>2
  <2>7. redone' = redone
    BY <2>1, <2>5 DEF TypeOK
  <2> QED
    BY <2>1, <2>6, <2>7 DEF Placed, Ahead
<1> QED
  BY <1>2, <1>3, <1>4

\* The steps that end a directory or a target.
LEMMA EndSteps ==
  ASSUME TypeOK, Located, TypeOK', Located', Placed,
         \/ ResetDictionary \/ PopDirectory \/ Unwind \/ ClearDirectories \/ ClearReset
         \/ PopUrl \/ ChooseNext
  PROVE  Placed' /\ redone' = redone /\ hist'.gap = hist.gap
<1> USE DEF LeaveAlone, Main
<1>1. ctl \in Controls /\ hist \in Histories /\ ctl' \in Controls /\ hist' \in Histories
  BY DEF TypeOK
<1>2. CASE ResetDictionary
  <2>1. /\ phase = "reset" /\ phase' = "pop" /\ UNCHANGED <<hist, redone>>
        /\ ctl.directories # <<>>
        /\ ctl'.urls = ctl.urls /\ ctl'.directories = ctl.directories
        /\ ctl'.passed = ctl.passed /\ ctl'.index = 0
    BY <1>1, <1>2, ResetFields DEF ResetDictionary, Located, Scanning
  <2>2. /\ Queued(ctl) /\ Progress(ctl, hist) /\ Recorded(ctl, hist, ctl.index)
        /\ Covered(ctl, hist, {})
        /\ ctl.index = Words \/ <<Url, Directory>> \in hist.waived
    BY <2>1 DEF Placed, Ahead
  <2>3. Complete(hist, Url, Directory) \/ <<Url, Directory>> \in hist.waived
    BY <2>1, <2>2 DEF Progress, Complete, Url, Directory
  <2>4. Queued(ctl') /\ Recorded(ctl', hist', Words) /\ Covered(ctl', hist', {})
    BY <2>1, <2>2, SameFields, RecordedMore
  <2>5. Progress(ctl', hist')
    BY <2>1 DEF Progress
  <2>6. (Complete(hist, Url, Directory) \/ <<Url, Directory>> \in hist.waived)'
    BY <2>1, <2>3 DEF Url, Directory
  <2> QED
    BY <2>1, <2>4, <2>5, <2>6 DEF Placed, Ahead
<1>3. CASE PopDirectory
  <2>1. /\ phase = "pop" /\ phase' = "dirs" /\ UNCHANGED <<hist, redone>>
        /\ ctl.directories # <<>> /\ ctl.urls # <<>> /\ ctl.index = 0
    BY <1>3 DEF PopDirectory, Located, Scanning, Begun, Placed
  <2>2. /\ ctl'.urls = ctl.urls /\ ctl'.directories = Tail(ctl.directories)
        /\ ctl'.passed = ctl.passed /\ ctl'.index = 0
    BY <1>1, <1>3, <2>1, PopFields DEF PopDirectory
  <2>3. /\ Queued(ctl) /\ Recorded(ctl, hist, Words) /\ Covered(ctl, hist, {})
        /\ Complete(hist, Url, Directory) \/ <<Url, Directory>> \in hist.waived
    BY <2>1 DEF Placed, Ahead
  <2>4. /\ Queued(ctl') /\ Recorded(ctl', hist', 0) /\ Progress(ctl', hist')
        /\ Covered(ctl', hist', {})
    BY <1>1, <2>1, <2>2, <2>3, PopKeeps DEF Url, Directory
  <2> QED
    BY <2>1, <2>2, <2>4 DEF Placed, Ahead
<1>4. CASE Unwind
  <2>1. /\ phase = "unwind" /\ phase' = "clear" /\ redone' = redone
        /\ ctl.directories # <<>> /\ ctl.urls # <<>>
    BY <1>4 DEF Unwind, Located, Scanning, Begun
  <2>2. /\ ctl'.urls = ctl.urls /\ ctl'.directories = Tail(ctl.directories)
        /\ ctl'.passed = ctl.passed /\ ctl'.index = 0
    BY <1>1, <1>4, <2>1, ResetFields, PopFields DEF Unwind
  <2>3. {<<Url, Directory>>} \in SUBSET (ToSet(Targets) \X Dirs)
    BY <2>1, Fields
  <2>4. /\ hist'.done = hist.done /\ hist'.waived = hist.waived \cup {<<Url, Directory>>}
        /\ hist'.gap = hist.gap
    BY <1>1, <1>4, <2>3, WaivedFields DEF Unwind
  <2>5. Queued(ctl) /\ Recorded(ctl, hist, Words) /\ Covered(ctl, hist, {})
    BY <2>1, RecordedMore DEF Placed, Ahead
  <2>6. /\ Queued(ctl') /\ Recorded(ctl', hist', Words) /\ Progress(ctl', hist')
        /\ Covered(ctl', hist', {})
    BY <1>1, <2>1, <2>2, <2>4, <2>5, PopKeeps DEF Url, Directory
  <2>7. Covered(ctl', hist', Dirs)
    BY <2>6, CoveredMore
  <2> QED
    BY <2>1, <2>2, <2>4, <2>6, <2>7 DEF Placed, Ahead
<1>5. CASE ClearDirectories
  <2>1. /\ phase = "clear" /\ phase' = "clearReset" /\ redone' = redone /\ ctl.urls # <<>>
    BY <1>5 DEF ClearDirectories, Located, Begun
  <2>2. /\ ctl'.urls = ctl.urls /\ ctl'.directories = <<>> /\ ctl'.passed = ctl.passed
    BY <1>1, <1>5, ClearFields DEF ClearDirectories
  <2>3. {Url} \X Dirs \in SUBSET (ToSet(Targets) \X Dirs)
    BY <2>1, Fields
  <2>4. /\ hist'.done = hist.done /\ hist'.waived = hist.waived \cup ({Url} \X Dirs)
        /\ hist'.gap = hist.gap
    BY <1>1, <1>5, <2>3, WaivedFields DEF ClearDirectories
  <2>5. Recorded(ctl, hist, Words) /\ Covered(ctl, hist, Dirs)
    BY <2>1 DEF Placed, Ahead
  <2>6. /\ Queued(ctl') /\ Recorded(ctl', hist', ctl'.index) /\ Progress(ctl', hist')
        /\ Covered(ctl', hist', {})
    BY <1>1, <2>1, <2>2, <2>4, <2>5, ClearKeeps DEF Url
  <2> QED
    BY <2>1, <2>4, <2>6 DEF Placed, Ahead
<1>6. CASE ClearReset
  <2>1. /\ phase = "clearReset" /\ phase' = "shift" /\ UNCHANGED <<hist, redone>>
        /\ ctl.directories = <<>>
        /\ ctl'.urls = ctl.urls /\ ctl'.directories = ctl.directories
        /\ ctl'.passed = ctl.passed /\ ctl'.index = 0
    BY <1>1, <1>6, ResetFields DEF ClearReset, Located, Between
  <2>2. Queued(ctl) /\ Recorded(ctl, hist, ctl.index) /\ Covered(ctl, hist, {})
    BY <2>1 DEF Placed, Ahead
  <2>3. Queued(ctl') /\ Recorded(ctl', hist', ctl.index) /\ Covered(ctl', hist', {})
    BY <2>1, <2>2, SameFields
  <2>4. Recorded(ctl', hist', 0)
    <3>1. ToSet(ctl'.directories) = {}
      BY <2>1 DEF ToSet
    <3> QED
      BY <2>3, <3>1 DEF Recorded
  <2>5. Progress(ctl', hist')
    BY <2>1 DEF Progress
  <2> QED
    BY <2>1, <2>3, <2>4, <2>5 DEF Placed, Ahead
<1>7. CASE PopUrl
  <2>1. /\ phase = "shift" /\ phase' = "targets" /\ redone' = redone
        /\ hist'.done = hist.done /\ hist'.waived = hist.waived /\ hist'.gap = hist.gap
        /\ ctl.directories = <<>> /\ ctl.urls # <<>> /\ ctl.index = 0
    BY <1>1, <1>7, RecordFields DEF PopUrl, Located, Between, Begun, Placed
  <2>2. /\ ctl'.urls = Tail(ctl.urls) /\ ctl'.directories = <<>>
        /\ ctl'.passed = ctl.passed /\ ctl'.index = 0
    BY <1>1, <1>7, <2>1, PopUrlFields DEF PopUrl
  <2>3. Recorded(ctl, hist', 0) /\ Covered(ctl, hist', {})
    <3>1. Recorded(ctl, hist, 0) /\ Covered(ctl, hist, {})
      BY <2>1 DEF Placed, Ahead
    <3> QED
      BY <2>1, <3>1, SameFields
  <2>4. /\ Queued(ctl') /\ Recorded(ctl', hist', 0) /\ Progress(ctl', hist')
        /\ Covered(ctl', hist', Dirs)
    <3>1. ToSet(Subdirs) \subseteq Dirs
      BY DEF Dirs
    <3> QED
      BY <1>1, <2>1, <2>2, <2>3, <3>1, PopUrlKeeps
  <2> QED
    BY <2>1, <2>2, <2>4 DEF Placed, Ahead, Unqueued
<1>8. CASE ChooseNext
  <2>1. ctl' = ctl /\ redone' = redone /\ subdirsLeft' = subdirsLeft
    BY <1>8 DEF ChooseNext, Choose, runVars
  <2>2. CASE phase' = phase /\ hist' = hist
    <3>1. Ahead' = Ahead
      BY <2>1, <2>2 DEF Ahead
    <3> QED
      BY <2>1, <2>2, <3>1, Moved
  <2>3. CASE /\ phase = "scan" /\ phase' = "reset"
             /\ hist' = [hist EXCEPT !.waived = @ \cup {<<Url, Directory>>}]
    <3>1. {<<Url, Directory>>} \in SUBSET (ToSet(Targets) \X Dirs) /\ ctl.directories # <<>>
      BY <2>3, Fields DEF Located, Begun, Scanning
    <3>2. /\ hist'.done = hist.done /\ hist'.waived = hist.waived \cup {<<Url, Directory>>}
          /\ hist'.gap = hist.gap
      BY <1>1, <2>3, <3>1, WaivedFields
    <3>3. /\ Queued(ctl) /\ Progress(ctl, hist) /\ Recorded(ctl, hist, ctl.index)
          /\ Covered(ctl, hist, {})
      BY <2>3 DEF Placed, Ahead
    <3>4. /\ Queued(ctl') /\ Progress(ctl', hist') /\ Recorded(ctl', hist', ctl'.index)
          /\ Covered(ctl', hist', {})
      BY <2>1, <3>2, <3>3, SameFields
    <3>5. (<<Url, Directory>> \in hist.waived)'
      BY <2>1, <3>2 DEF Url, Directory
    <3> QED
      BY <2>1, <2>3, <3>1, <3>2, <3>4, <3>5 DEF Placed, Ahead
  <2> QED
    BY <1>8, <2>2, <2>3 DEF ChooseNext, Choose
<1> QED
  BY <1>2, <1>3, <1>4, <1>5, <1>6, <1>7, <1>8

\* What a process that keeps its place saves can be taken up again.
LEMMA SavedResumable ==
  ASSUME TypeOK, Located, Conserved, SaveCheckpoint, ~Payload.hist.gap
  PROVE  Resumable(Payload.ctl, Payload.hist)
<1>1. /\ ~hist.gap /\ ~Gap /\ phase \notin Absent
  BY PayloadFields DEF SaveCheckpoint, Located, TypeOK, Histories
<1>2. Placed
  BY <1>1 DEF Conserved, Absent
<1>3. /\ phase \notin {"pop", "clear", "boot"}
      /\ phase = "queue" => ctl.directories = <<>> \/ subdirsLeft = <<>>
      /\ phase = "clearReset" => ~(ctl.index > 0)
  BY <1>1 DEF Gap, Absent
<1>4. /\ Queued(ctl) /\ Progress(ctl, hist) /\ Recorded(ctl, hist, ctl.index)
      /\ ctl.directories = <<>> => ctl.index = 0
  BY <1>2, <1>3, Fields DEF Placed
<1>5. Ahead \cap ToSet(Subdirs) \subseteq Unqueued(ctl)
  <2>1. ToSet(Subdirs) \subseteq Dirs /\ ToSet(<<>>) = {}
    BY DEF Dirs, ToSet
  <2> QED
    BY <1>3, <2>1 DEF Ahead, Unqueued
<1>6. Covered(ctl, hist, Unqueued(ctl))
  BY <1>2, <1>5, CoveredMore DEF Placed
<1> DEFINE g == Payload.hist
<1>7. Payload.ctl = ctl /\ g.done = hist.done /\ g.waived = hist.waived
  BY PayloadFields
<1> HIDE DEF g
<1>8. /\ Queued(ctl) /\ Progress(ctl, g) /\ Recorded(ctl, g, ctl.index)
      /\ Covered(ctl, g, Unqueued(ctl))
  BY <1>4, <1>6, <1>7, SameFields
<1> QED
  BY <1>4, <1>7, <1>8 DEF Resumable, g

\* A process that resumed a session without its place knows that it did.
LEMMA GapStays ==
  ASSUME TypeOK, Located, hist.gap, phase # "off",
         (MainStep /\ ~Exit) \/ HandlerStep \/ Signal \/ SignalAgain
  PROVE  hist'.gap /\ phase' # "off"
<1> USE DEF LeaveAlone, Main, Handler
<1>1. phase' # "off"
  BY DEF MainStep, HandlerStep, NextTarget, QueueSubdir, QueueDone, Prepare, CrawlTarget,
    BeginDirectory, Answered, Failed, Interrupted, ScanDone, ResetDictionary, PopDirectory,
    Unwind, ClearDirectories, ClearReset, PopUrl, Completed, DeleteSession,
    Signal, SignalAgain, ChooseContinue, ChooseNext, ChooseSkip, ChooseQuit, ChooseSave,
    Choose, Raised, SaveCheckpoint, SaveRemove
<1>2. \/ hist' = hist
      \/ hist' = Missed(hist)
      \/ hist' = Unspoken(hist)
      \/ hist' = [hist EXCEPT !.done = @ \cup {Sent}, !.streak = 0, !.spoke = TRUE]
      \/ hist' = [Missed(hist) EXCEPT !.done = @ \cup {Sent}]
      \/ hist' = [hist EXCEPT !.waived = @ \cup {<<Url, Directory>>}]
      \/ hist' = [hist EXCEPT !.waived = @ \cup ({Url} \X Dirs)]
  BY DEF MainStep, HandlerStep, NextTarget, QueueSubdir, QueueDone, Prepare, CrawlTarget,
    BeginDirectory, Answered, Failed, Interrupted, ScanDone, ResetDictionary, PopDirectory,
    Unwind, ClearDirectories, ClearReset, PopUrl, Completed, DeleteSession,
    Signal, SignalAgain, ChooseContinue, ChooseNext, ChooseSkip, ChooseQuit, ChooseSave,
    Choose, SaveCheckpoint, SaveRemove
<1>3. hist \in Histories
  BY DEF TypeOK
<1>4. hist'.gap = hist.gap
  BY <1>2, <1>3 DEF Histories, Missed, Unspoken
<1> QED
  BY <1>1, <1>4

LEMMA InitConserved == Init => Conserved /\ NothingRepeated
<1> SUFFICES ASSUME Init PROVE Conserved /\ NothingRepeated
  OBVIOUS
<1>1. \A s \in Stores : store[s].checkpoint = NoSession
  BY DEF Init, StoreInit
<1> QED
  BY <1>1 DEF Conserved, NothingRepeated, Init

LEMMA NextConserved ==
  ASSUME TypeOK, Located, Conserved, NothingRepeated, [Next]_vars
  PROVE  Conserved' /\ NothingRepeated'
<1>1. TypeOK' /\ Located'
  BY NextShape
<1>2. \A s \in Stores : store'[s].checkpoint # NoSession /\ ~store'[s].checkpoint.hist.gap =>
        Resumable(store'[s].checkpoint.ctl, store'[s].checkpoint.hist)
  BY SavedSessions, SavedResumable DEF Conserved
<1>3. /\ phase' \notin {"off", "exit"} /\ ~hist'.gap => Placed'
      /\ phase' = "off" => ~redone'
      /\ hist'.gap \/ ~redone'
  <2>1. CASE UNCHANGED vars
    <3>1. UNCHANGED <<phase, ctl, hist, subdirsLeft, redone>>
      BY <2>1 DEF vars, runVars
    <3>2. Placed' = Placed
      BY <3>1 DEF Placed, Ahead, Url, Directory
    <3> QED
      BY <3>1, <3>2 DEF Conserved, NothingRepeated
  <2>2. CASE Crash \/ Exit
    BY <2>2 DEF Crash, Exit, Gone
  <2>3. CASE setup \/ \E s \in Stores : import(s)
    <3>1. phase = "off" /\ phase' = "boot" /\ redone' = redone
      BY <2>3 DEF setup, import, Start
    <3>2. ~redone'
      BY <3>1 DEF Conserved
    <3>3. ~hist'.gap => Resumable(ctl', hist')
      <4>1. CASE setup
        BY <4>1, FreshResumable DEF setup
      <4>2. ASSUME NEW s \in Stores, import(s), ~hist'.gap PROVE Resumable(ctl', hist')
        <5>1. /\ load(s) # NoSession /\ ctl' = load(s).ctl /\ hist' = load(s).hist
          BY <4>2 DEF import
        <5>2. \/ load(s) = LegacySession
              \/ load(s) = store[s].checkpoint /\ store[s].checkpoint # NoSession
          BY <5>1, Loaded
        <5>3. CASE load(s) = LegacySession
          BY <5>1, <5>3, FreshType, FreshResumable
        <5>4. CASE load(s) = store[s].checkpoint /\ store[s].checkpoint # NoSession
          BY <4>2, <5>1, <5>4 DEF Conserved
        <5> QED
          BY <5>2, <5>3, <5>4
      <4> QED
        BY <2>3, <4>1, <4>2
    <3>4. Resumable(ctl', hist') => Placed'
      BY <3>1 DEF Resumable, Placed, Ahead
    <3> QED
      BY <3>1, <3>2, <3>3, <3>4
  <2>4. CASE /\ phase \notin {"off", "exit"} /\ ~hist.gap
             /\ (MainStep /\ ~Exit) \/ HandlerStep \/ Signal \/ SignalAgain
    <3>1. Placed /\ ~redone
      BY <2>4 DEF Conserved, NothingRepeated
    <3>2. phase' # "off"
      BY <2>4 DEF MainStep, HandlerStep, NextTarget, QueueSubdir, QueueDone, Prepare, CrawlTarget,
        BeginDirectory, Answered, Failed, Interrupted, ScanDone, ResetDictionary, PopDirectory,
        Unwind, ClearDirectories, ClearReset, PopUrl, Completed, DeleteSession, Main,
        Signal, SignalAgain, ChooseContinue, ChooseNext, ChooseSkip, ChooseQuit, ChooseSave,
        Choose, Raised, SaveCheckpoint, SaveRemove
    <3>3. CASE QueueSubdir \/ CrawlTarget \/ Answered \/ Failed
      BY <1>1, <3>1, <3>2, <3>3, ScanSteps
    <3>4. CASE \/ ResetDictionary \/ PopDirectory \/ Unwind \/ ClearDirectories \/ ClearReset
               \/ PopUrl \/ ChooseNext
      BY <1>1, <3>1, <3>2, <3>4, EndSteps
    <3>5. CASE \/ NextTarget \/ QueueDone \/ Prepare \/ BeginDirectory \/ Interrupted \/ ScanDone
               \/ Completed \/ DeleteSession \/ Signal \/ SignalAgain
               \/ ChooseContinue \/ ChooseSkip \/ ChooseQuit \/ SaveCheckpoint \/ SaveRemove
               \/ \E s \in Stores : ChooseSave(s)
      <4>1. CASE phase' # "exit"
        BY <3>1, <3>2, <3>5, <4>1, MovedSteps
      <4>2. CASE phase' = "exit"
        <5>1. redone' = redone
          BY <3>5 DEF NextTarget, QueueDone, Prepare, BeginDirectory, Interrupted, ScanDone,
            Completed, DeleteSession, Signal, SignalAgain, ChooseContinue, ChooseSkip, ChooseQuit,
            SaveCheckpoint, SaveRemove, ChooseSave, Choose, LeaveAlone, Handler
        <5> QED
          BY <3>1, <4>2, <5>1
      <4> QED
        BY <4>1, <4>2
    <3> QED
      BY <2>4, <3>3, <3>4, <3>5 DEF MainStep, HandlerStep
  <2>5. CASE /\ hist.gap /\ phase # "off"
             /\ (MainStep /\ ~Exit) \/ HandlerStep \/ Signal \/ SignalAgain
    <3>1. hist'.gap /\ phase' # "off"
      BY <2>5, GapStays
    <3> QED
      BY <3>1
  <2>6. CASE phase \in {"off", "exit"} /\ ((MainStep /\ ~Exit) \/ HandlerStep \/ Signal \/ SignalAgain)
    <3>1. menu = "off"
      BY <2>6 DEF Located, Absent
    <3> QED
      BY <2>6, <3>1 DEF MainStep, HandlerStep, NextTarget, QueueSubdir, QueueDone, Prepare,
        CrawlTarget, BeginDirectory, Answered, Failed, Interrupted, ScanDone, ResetDictionary,
        PopDirectory, Unwind, ClearDirectories, ClearReset, PopUrl, Completed, DeleteSession, Main,
        Signal, SignalAgain, ChooseContinue, ChooseNext, ChooseSkip, ChooseQuit, ChooseSave,
        Choose, SaveCheckpoint, SaveRemove
  <2> QED
    BY <2>1, <2>2, <2>3, <2>4, <2>5, <2>6 DEF Next, TypeOK, Histories
<1> QED
  BY <1>2, <1>3 DEF Conserved, NothingRepeated

\* No request is sent twice, within a process or after a resume, however often
\* the scan is paused, saved, killed and taken up again, unless a session was
\* saved where the code does not keep its place (add_directory, start,
\* Dictionary.__getstate__ and __setstate__, apply_to_controller).
THEOREM RequestsSentOnce == Spec => []NothingRepeated
<1> DEFINE Inv == TypeOK /\ Located /\ Conserved /\ NothingRepeated
<1>1. Init => Inv
  BY InitShape, InitConserved
<1>2. Inv /\ [Next]_vars => Inv'
  BY NextShape, NextConserved
<1> QED
  BY <1>1, <1>2, PTL DEF Spec

\* When the last target is done, every start directory and every directory that
\* recursion queued has been requested word for word, unless it was given up
\* (run, start, add_directory, SessionStore.save and apply_to_controller).
THEOREM EverythingRequested == Spec => []NothingLost
<1> DEFINE Inv == TypeOK /\ Located /\ Conserved /\ NothingRepeated
<1>1. Init => Inv
  BY InitShape, InitConserved
<1>2. Inv /\ [Next]_vars => Inv'
  BY NextShape, NextConserved
<1>3. Inv => NothingLost
  <2> SUFFICES ASSUME Inv, phase = "completed", ~hist.gap,
                      NEW t \in ToSet(Targets), NEW d \in Dirs \ Refused,
                      d \in ToSet(Subdirs) \/ <<t, d>> \in ctl.passed,
                      <<t, d>> \notin hist.waived
               PROVE  \A w \in 1..Words : <<t, d, w>> \in hist.done
    BY DEF NothingLost
  <2>1. Covered(ctl, hist, {}) /\ ctl.urls = <<>> /\ ctl.directories = <<>>
    BY DEF Conserved, Placed, Ahead, Located, Between
  <2>2. ToSet(ctl.directories) = {}
    BY <2>1 DEF ToSet
  <2> QED
    BY <2>1, <2>2 DEF Covered, Complete
<1> QED
  BY <1>1, <1>2, <1>3, PTL DEF Spec

=============================================================================
