------------------------- MODULE EventContent_proofs -------------------------
(***************************************************************************)
(* What a copy shows of its event, for all texts, times, reminders, sets   *)
(* of filters and transformers, and any order in which rule, event and     *)
(* copy change while runs read them.                                       *)
(***************************************************************************)
EXTENDS EventContent, FiniteSetTheorems, SequenceTheorems, TLAPS

-----------------------------------------------------------------------------
(* Hours *)

\* A point in time: its day, and its minute on that day.
Day(t)    == t \div Minutes
Minute(t) == t % Minutes

At(t, day, minute) == day \in Int /\ minute \in 0 .. 1439 /\ t = 1440 * day + minute

LEMMA TimeOf ==
  ASSUME NEW t \in Int
  PROVE  At(t, Day(t), Minute(t))
  <1>1. Minutes = 1440
    BY DEF Minutes
  <1>2. t \div 1440 \in Int /\ t % 1440 \in 0 .. 1439 /\ t = 1440 * (t \div 1440) + (t % 1440)
    OBVIOUS
  <1> QED BY <1>1, <1>2 DEF Day, Minute, At

LEMMA HourOf ==
  ASSUME NEW t \in Int
  PROVE  Hour(t) \in 0 .. 23 /\ 60 * Hour(t) <= Minute(t) /\ Minute(t) < 60 * Hour(t) + 60
  <1> DEFINE m == Minute(t)  h == Hour(t)
  <1>1. At(t, Day(t), m)
    BY TimeOf
  <1>2. h = m \div 60
    BY DEF Hour, Minute
  <1> HIDE DEF m, h
  <1>3. m \in Int /\ 0 <= m /\ m < 1440
    BY <1>1 DEF At
  <1>4. h \in Int /\ 60 * h <= m /\ m < 60 * h + 60
    BY <1>2, <1>3
  <1>5. h \in 0 .. 23
    BY <1>3, <1>4
  <1> QED BY <1>4, <1>5 DEF m, h

\* An hour lies between two others as its minutes do.
LEMMA HourBetween ==
  ASSUME NEW t \in Int, NEW a \in 0 .. 24, NEW b \in 0 .. 25
  PROVE  Between(a, b, t) <=> a <= Hour(t) /\ Hour(t) < b
  <1> DEFINE h == Hour(t)  m == Minute(t)
  <1>1. h \in 0 .. 23 /\ 60 * h <= m /\ m < 60 * h + 60 /\ At(t, Day(t), m)
    BY TimeOf, HourOf
  <1>2. Between(a, b, t) <=> 60 * a <= m /\ m < 60 * b
    BY DEF Between, Minute
  <1> HIDE DEF h, m
  <1>3. (60 * a <= m <=> a <= h) /\ (m < 60 * b <=> h < b)
    BY <1>1 DEF At
  <1> QED BY <1>2, <1>3 DEF h

\* An event with a minute in the frame, and no longer than it, has one of its
\* ends there.
LEMMA EndsInFrame ==
  ASSUME NEW s \in Int, NEW e \in Int, NEW t \in Int, s <= t, t < e,
         NEW a \in 0 .. 24, NEW b \in 0 .. 24, e - s <= 60 * (b - a), Between(a, b, t)
  PROVE  Between(a, b, s) \/ Between(a, b + 1, e)
  <1> DEFINE ms == Minute(s)  mt == Minute(t)  me == Minute(e)
             ds == Day(s)     dt == Day(t)     de == Day(e)
  <1>1. At(s, ds, ms) /\ At(t, dt, mt) /\ At(e, de, me)
    BY TimeOf
  <1>2. 60 * a <= mt /\ mt < 60 * b
    BY DEF Between, Minute
  <1> HIDE DEF ms, mt, me, ds, dt, de
  <1>3. /\ ms \in 0 .. 1439 /\ ds \in Int /\ s = 1440 * ds + ms
        /\ mt \in 0 .. 1439 /\ dt \in Int /\ t = 1440 * dt + mt
        /\ me \in 0 .. 1439 /\ de \in Int /\ e = 1440 * de + me
    BY <1>1 DEF At
  <1>4. ds <= dt /\ dt <= de
    <2>1. ASSUME dt < ds PROVE FALSE
      BY <1>3, <2>1
    <2>2. ASSUME de < dt PROVE FALSE
      BY <1>3, <2>2
    <2> QED BY <1>3, <2>1, <2>2
  <1>5. (60 * a <= ms /\ ms < 60 * b) \/ (60 * a <= me /\ me < 60 * (b + 1))
    <2>1. a \in Int /\ b \in Int /\ b <= 24 /\ s <= t /\ t < e /\ e - s <= 60 * (b - a)
      OBVIOUS
    <2>2. CASE ds = dt /\ dt = de
      BY <1>3, <1>2, <2>1, <2>2
    <2>3. CASE ds < dt
      <3>1. dt = ds + 1 /\ de = dt
        <4>1. ASSUME de >= ds + 2 PROVE FALSE
          BY <1>3, <2>1, <4>1
        <4> QED BY <1>3, <1>4, <2>3, <4>1
      <3>2. me > mt /\ me < 60 * b
        BY <1>3, <2>1, <2>3, <3>1
      <3> QED BY <1>3, <1>2, <2>1, <3>2
    <2>4. CASE ds = dt /\ dt < de
      BY <1>3, <1>2, <1>4, <2>1, <2>4
    <2> QED BY <1>3, <1>4, <2>2, <2>3, <2>4
  <1> QED BY <1>5 DEF Between, Minute, ms, me

\* Within a day the minutes go from that of the start to that of the end.
LEMMA MinutesOfDay ==
  ASSUME NEW s \in Int, NEW e \in Int, NEW t \in s .. e, Day(s) = Day(e)
  PROVE  Day(t) = Day(s) /\ Minute(s) <= Minute(t) /\ Minute(t) <= Minute(e)
  <1> DEFINE ms == Minute(s)  mt == Minute(t)  me == Minute(e)
             ds == Day(s)     dt == Day(t)
  <1>1. s <= t /\ t <= e /\ t \in Int
    OBVIOUS
  <1>2. At(s, ds, ms) /\ At(t, dt, mt) /\ At(e, ds, me)
    BY <1>1, TimeOf
  <1> HIDE DEF ms, mt, me, ds, dt
  <1>3. /\ ms \in 0 .. 1439 /\ ds \in Int /\ s = 1440 * ds + ms
        /\ mt \in 0 .. 1439 /\ dt \in Int /\ t = 1440 * dt + mt
        /\ me \in 0 .. 1439 /\ e = 1440 * ds + me
    BY <1>2 DEF At
  <1>4. dt = ds
    <2>1. ASSUME dt < ds PROVE FALSE
      BY <1>1, <1>3, <2>1
    <2>2. ASSUME ds < dt PROVE FALSE
      BY <1>1, <1>3, <2>2
    <2> QED BY <1>3, <2>1, <2>2
  <1>5. ms <= mt /\ mt <= me
    BY <1>1, <1>3, <1>4
  <1> QED BY <1>4, <1>5 DEF ms, mt, me, ds, dt

\* The two filters by hour, on any event.
LEMMA HoursKept ==
  ASSUME NEW ev \in Event, ~ev.allDay
  PROVE  /\ /\ ev.end - ev.start <= 60 * (Frame[2] - Frame[1])
            /\ \E t \in ev.start .. ev.end : During(ev, t) /\ Between(Frame[1], Frame[2], t)
            => Keeps("TimeFrame", ev)
         /\ Keeps("TimeFrame", ev) =>
              \E t \in ev.start .. ev.end : Between(Frame[1], Frame[2] + 1, t)
         /\ /\ WithinDay(ev) /\ ev.start < ev.end
            /\ \A t \in ev.start .. ev.end : During(ev, t) => Between(Frame[1], Frame[2], t)
            => ~Keeps("TimeFilter", ev)
         /\ WithinDay(ev) /\ ~Keeps("TimeFilter", ev) =>
              \A t \in ev.start .. ev.end : Between(Frame[1], Frame[2] + 1, t)
  <1> DEFINE a == Frame[1]  b == Frame[2]  s == ev.start  e == ev.end
  <1>1. s \in Int /\ e \in Int /\ s <= e /\ a \in 0 .. 24 /\ b \in 0 .. 24
    BY FrameAssumption DEF Event, Content
  <1>2. Hour(s) \in 0 .. 23 /\ Hour(e) \in 0 .. 23
    BY <1>1, HourOf
  <1>3. /\ Keeps("TimeFrame", ev) <=> Hour(s) \in a .. b \/ Hour(e) \in a .. b
        /\ Keeps("TimeFilter", ev) <=> ~(Hour(s) >= a /\ Hour(e) <= b)
    BY DEF Keeps, TimeFrame, TimeFilter
  <1>4. \A t \in Int : /\ Between(a, b, t) <=> a <= Hour(t) /\ Hour(t) < b
                       /\ Between(a, b + 1, t) <=> a <= Hour(t) /\ Hour(t) < b + 1
    <2>1. a \in 0 .. 24 /\ b \in 0 .. 25 /\ b + 1 \in 0 .. 25
      BY <1>1
    <2> HIDE DEF a, b
    <2> QED BY <2>1, HourBetween
  <1> HIDE DEF a, b, s, e
  <1>5. ASSUME e - s <= 60 * (b - a), NEW t \in s .. e, During(ev, t), Between(a, b, t)
        PROVE  Keeps("TimeFrame", ev)
    <2>1. t \in Int /\ s <= t /\ t < e
      BY <1>1, <1>5 DEF During, s, e
    <2>2. Between(a, b, s) \/ Between(a, b + 1, e)
      BY <1>1, <1>5, <2>1, EndsInFrame
    <2> QED BY <1>1, <1>2, <1>3, <1>4, <2>2
  <1>6. ASSUME Keeps("TimeFrame", ev) PROVE \E t \in s .. e : Between(a, b + 1, t)
    <2>1. Between(a, b + 1, s) \/ Between(a, b + 1, e)
      BY <1>1, <1>2, <1>3, <1>4, <1>6
    <2> QED BY <1>1, <2>1
  <1>7. ASSUME WithinDay(ev), s < e, \A t \in s .. e : During(ev, t) => Between(a, b, t)
        PROVE  ~Keeps("TimeFilter", ev)
    <2>1. s \in s .. e /\ During(ev, s) /\ e - 1 \in s .. e /\ During(ev, e - 1)
      BY <1>1, <1>7 DEF During, s, e
    <2>2. Between(a, b, s) /\ Between(a, b, e - 1)
      BY <1>7, <2>1
    <2>3. Minute(s) <= Minute(e - 1) /\ Minute(e - 1) <= Minute(e) /\ Day(e - 1) = Day(e)
      <3>1. Day(s) = Day(e)
        BY <1>7 DEF WithinDay, Day, s, e
      <3> QED BY <1>1, <2>1, <3>1, MinutesOfDay
    <2>4. Hour(e) <= b
      <3> DEFINE h == Hour(e)  m == Minute(e)  n == Minute(e - 1)  d == Day(e)
      <3>1. e - 1 \in Int
        BY <1>1
      <3>2. h \in 0 .. 23 /\ 60 * h <= m /\ At(e, d, m) /\ At(e - 1, d, n)
        BY <1>1, <2>3, <3>1, TimeOf, HourOf
      <3>3. n < 60 * b
        BY <2>2 DEF Between, Minute
      <3> HIDE DEF h, m, n, d
      <3>4. m = n + 1
        BY <1>1, <3>2 DEF At
      <3>5. h <= b
        BY <1>1, <3>2, <3>3, <3>4 DEF At
      <3> QED BY <3>5 DEF h
    <2> QED BY <1>1, <1>2, <1>3, <1>4, <2>2, <2>4
  <1>8. ASSUME WithinDay(ev), ~Keeps("TimeFilter", ev), NEW t \in s .. e
        PROVE  Between(a, b + 1, t)
    <2>1. Minute(s) <= Minute(t) /\ Minute(t) <= Minute(e)
      <3>1. Day(s) = Day(e)
        BY <1>8 DEF WithinDay, Day, s, e
      <3> QED BY <1>1, <3>1, MinutesOfDay
    <2>2. a <= Hour(s) /\ Hour(e) <= b
      BY <1>3, <1>8
    <2>3. 60 * a <= Minute(t) /\ Minute(t) < 60 * (b + 1)
      <3> DEFINE ms == Minute(s)  mt == Minute(t)  me == Minute(e)  hs == Hour(s)  he == Hour(e)
      <3>1. t \in Int
        BY <1>1
      <3>2. At(s, Day(s), ms) /\ At(t, Day(t), mt) /\ At(e, Day(e), me)
        BY <1>1, <3>1, TimeOf
      <3>3. 60 * hs <= ms /\ me < 60 * he + 60
        BY <1>1, HourOf
      <3>4. hs \in 0 .. 23 /\ he \in 0 .. 23 /\ a <= hs /\ he <= b /\ ms <= mt /\ mt <= me
        BY <1>2, <2>1, <2>2
      <3> HIDE DEF ms, mt, me, hs, he
      <3>5. 60 * a <= mt /\ mt < 60 * (b + 1)
        BY <1>1, <3>2, <3>3, <3>4 DEF At
      <3> QED BY <3>5 DEF mt
    <2> QED BY <2>3 DEF Between, Minute
  <1> QED BY <1>5, <1>6, <1>7, <1>8 DEF a, b, s, e
-----------------------------------------------------------------------------
(* The transformers, one after the other *)

LEMMA Order ==
  /\ Len(transformerOrder) = 9
  /\ transformerOrder[1] = "KeepAttendees"   /\ transformerOrder[2] = "KeepLocation"
  /\ transformerOrder[3] = "KeepReminders"   /\ transformerOrder[4] = "KeepDescription"
  /\ transformerOrder[5] = "KeepMeetingLink" /\ transformerOrder[6] = "AddOriginalLink"
  /\ transformerOrder[7] = "KeepTitle"       /\ transformerOrder[8] = "PrefixTitle"
  /\ transformerOrder[9] = "ReplaceTitle"
  BY DEF transformerOrder

\* A transformer, if it is configured.
Applied(name, names, title, ev, sink) ==
    IF name \in names THEN Transform(name, ev, sink, title) ELSE sink

\* The loop, unrolled.
LEMMA Unrolled ==
  ASSUME NEW names, NEW title, NEW ev
  PROVE  LET s1 == Applied("KeepAttendees", names, title, ev, NewSyncEvent(ev))
             s2 == Applied("KeepLocation", names, title, ev, s1)
             s3 == Applied("KeepReminders", names, title, ev, s2)
             s4 == Applied("KeepDescription", names, title, ev, s3)
             s5 == Applied("KeepMeetingLink", names, title, ev, s4)
             s6 == Applied("AddOriginalLink", names, title, ev, s5)
             s7 == Applied("KeepTitle", names, title, ev, s6)
             s8 == Applied("PrefixTitle", names, title, ev, s7)
         IN TransformEvent(names, title, ev) = Applied("ReplaceTitle", names, title, ev, s8)
  <1> DEFINE s0 == NewSyncEvent(ev)
             s1 == Applied("KeepAttendees", names, title, ev, s0)
             s2 == Applied("KeepLocation", names, title, ev, s1)
             s3 == Applied("KeepReminders", names, title, ev, s2)
             s4 == Applied("KeepDescription", names, title, ev, s3)
             s5 == Applied("KeepMeetingLink", names, title, ev, s4)
             s6 == Applied("AddOriginalLink", names, title, ev, s5)
             s7 == Applied("KeepTitle", names, title, ev, s6)
             s8 == Applied("PrefixTitle", names, title, ev, s7)
             s9 == Applied("ReplaceTitle", names, title, ev, s8)
             n == Len(transformerOrder)
             Body(f, i) == IF i = 0 THEN NewSyncEvent(ev)
                           ELSE IF i \in TransformerFactory(names)
                                THEN Transform(transformerOrder[i], ev, f[i - 1], title)
                           ELSE f[i - 1]
             F == CHOOSE f : f = [i \in 0 .. n |-> Body(f, i)]
             g == [i \in 0 .. 9 |->
                     CASE i = 0 -> s0 [] i = 1 -> s1 [] i = 2 -> s2 [] i = 3 -> s3 [] i = 4 -> s4
                       [] i = 5 -> s5 [] i = 6 -> s6 [] i = 7 -> s7 [] i = 8 -> s8 [] OTHER -> s9]
  <1>1. TransformEvent(names, title, ev) = F[n]
    BY DEF TransformEvent
  <1>2. ASSUME NEW i \in 1 .. 9, NEW f
        PROVE  Body(f, i) = Applied(transformerOrder[i], names, title, ev, f[i - 1])
    BY <1>2, Order DEF TransformerFactory, Applied
  <1>3. ASSUME NEW f PROVE Body(f, 0) = s0
    OBVIOUS
  <1>4. n = 9
    BY Order
  <1> HIDE DEF Body, s0, s1, s2, s3, s4, s5, s6, s7, s8, s9, n
  <1>5. /\ g[0] = s0 /\ g[1] = s1 /\ g[2] = s2 /\ g[3] = s3 /\ g[4] = s4
        /\ g[5] = s5 /\ g[6] = s6 /\ g[7] = s7 /\ g[8] = s8 /\ g[9] = s9
    OBVIOUS
  <1>6. ASSUME NEW i \in 0 .. 9 PROVE g[i] = Body(g, i)
    <2> HIDE DEF g
    <2>0. CASE i = 0
      BY <1>3, <1>5, <2>0
    <2>1. CASE i = 1
      BY <1>2, <1>5, <2>1, Order DEF s1
    <2>2. CASE i = 2
      BY <1>2, <1>5, <2>2, Order DEF s2
    <2>3. CASE i = 3
      BY <1>2, <1>5, <2>3, Order DEF s3
    <2>4. CASE i = 4
      BY <1>2, <1>5, <2>4, Order DEF s4
    <2>5. CASE i = 5
      BY <1>2, <1>5, <2>5, Order DEF s5
    <2>6. CASE i = 6
      BY <1>2, <1>5, <2>6, Order DEF s6
    <2>7. CASE i = 7
      BY <1>2, <1>5, <2>7, Order DEF s7
    <2>8. CASE i = 8
      BY <1>2, <1>5, <2>8, Order DEF s8
    <2>9. CASE i = 9
      BY <1>2, <1>5, <2>9, Order DEF s9
    <2> QED BY <2>0, <2>1, <2>2, <2>3, <2>4, <2>5, <2>6, <2>7, <2>8, <2>9
  <1>7. g = [i \in 0 .. n |-> Body(g, i)]
    <2>1. g = [i \in 0 .. 9 |-> g[i]]
      OBVIOUS
    <2> HIDE DEF g
    <2>2. [i \in 0 .. 9 |-> g[i]] = [i \in 0 .. 9 |-> Body(g, i)]
      BY <1>6, Zenon
    <2> QED BY <1>4, <2>1, <2>2
  <1>8. F = [i \in 0 .. n |-> Body(F, i)]
    <2> HIDE DEF g
    <2> QED BY <1>7
  <1> HIDE DEF F, g
  <1>9. \A i \in 1 .. 9 : F[i] = Applied(transformerOrder[i], names, title, ev, F[i - 1])
    BY <1>2, <1>4, <1>8
  <1>10. F[0] = s0
    BY <1>3, <1>4, <1>8
  <1>11. F[1] = s1 /\ F[2] = s2 /\ F[3] = s3
    BY <1>9, <1>10, Order DEF s1, s2, s3
  <1>12. F[4] = s4 /\ F[5] = s5 /\ F[6] = s6
    BY <1>9, <1>11, Order DEF s4, s5, s6
  <1>13. F[7] = s7 /\ F[8] = s8 /\ F[9] = s9
    BY <1>9, <1>12, Order DEF s7, s8, s9
  <1> QED BY <1>1, <1>4, <1>13 DEF s0, s1, s2, s3, s4, s5, s6, s7, s8, s9
-----------------------------------------------------------------------------
(* What each transformer does to the copy so far *)

Fields == {"title", "description", "location", "attendees", "reminders", "link", "accepted",
           "allDay", "busy", "start", "end", "metadata"}

\* An event, whatever its fields are.
HasFields(a) == a = [f \in Fields |-> a[f]]

LEMMA Transforms ==
  ASSUME NEW ev, NEW sink, NEW title
  PROVE  /\ Transform("KeepAttendees", ev, sink, title) = KeepAttendees(ev, sink)
         /\ Transform("KeepLocation", ev, sink, title) = KeepLocation(ev, sink)
         /\ Transform("KeepReminders", ev, sink, title) = KeepReminders(ev, sink)
         /\ Transform("KeepDescription", ev, sink, title) = KeepDescription(ev, sink)
         /\ Transform("KeepMeetingLink", ev, sink, title) = KeepMeetingLink(ev, sink)
         /\ Transform("AddOriginalLink", ev, sink, title) = AddOriginalLink(sink)
         /\ Transform("KeepTitle", ev, sink, title) = KeepTitle(ev, sink)
         /\ Transform("PrefixTitle", ev, sink, title) = PrefixTitle(sink)
         /\ Transform("ReplaceTitle", ev, sink, title) = ReplaceTitle(sink, title)
  BY DEF Transform

\* b is a with another value of field f.
Sets(b, a, f, x) ==
    /\ HasFields(b)
    /\ b[f] = x
    /\ \A g \in Fields \ {f} : b[g] = a[g]

LEMMA OneField ==
  ASSUME NEW a, HasFields(a), NEW f \in Fields
  PROVE  /\ Sets(a, a, f, a[f])
         /\ \A x : Sets([a EXCEPT ![f] = x], a, f, x)
  <1>1. DOMAIN a = Fields
    BY DEF HasFields
  <1>2. ASSUME NEW x PROVE Sets([a EXCEPT ![f] = x], a, f, x)
    <2>1. HasFields([a EXCEPT ![f] = x])
      BY <1>1 DEF HasFields
    <2> QED BY <1>1, <2>1 DEF Sets
  <1> QED BY <1>2 DEF Sets

LEMMA Transformers ==
  ASSUME NEW names, NEW title, NEW ev, NEW a, HasFields(a)
  PROVE  /\ ev.attendees \cap Invalid = {} =>
              Sets(Applied("KeepAttendees", names, title, ev, a), a, "attendees",
                   IF "KeepAttendees" \in names THEN {Dummy(p) : p \in ev.attendees} ELSE a.attendees)
         /\ Sets(Applied("KeepLocation", names, title, ev, a), a, "location",
                 IF "KeepLocation" \in names
                 THEN ev.location ELSE a.location)
         /\ Sets(Applied("KeepReminders", names, title, ev, a), a, "reminders",
                 IF "KeepReminders" \in names
                 THEN ev.reminders ELSE a.reminders)
         /\ Sets(Applied("KeepDescription", names, title, ev, a), a, "description",
                 IF "KeepDescription" \in names
                 THEN Sanitized(ev.description) ELSE a.description)
         /\ Sets(Applied("KeepMeetingLink", names, title, ev, a), a, "description",
                 IF "KeepMeetingLink" \in names
                 THEN Text(ev.link) \o a.description ELSE a.description)
         /\ Sets(Applied("AddOriginalLink", names, title, ev, a), a, "description",
                 IF "AddOriginalLink" \in names /\ a.metadata /\ Link \notin ToSet(a.description)
                 THEN a.description \o <<Link>> ELSE a.description)
         /\ Sets(Applied("KeepTitle", names, title, ev, a), a, "title",
                 IF "KeepTitle" \in names
                 THEN ev.title ELSE a.title)
         /\ Sets(Applied("PrefixTitle", names, title, ev, a), a, "title",
                 IF "PrefixTitle" \in names
                 THEN <<Prefix>> \o a.title ELSE a.title)
         /\ Sets(Applied("ReplaceTitle", names, title, ev, a), a, "title",
                 IF "ReplaceTitle" \in names
                 THEN <<title>> ELSE a.title)
  <1>1. {"title", "description", "location", "attendees", "reminders"} \subseteq Fields
    BY DEF Fields
  <1>2. /\ Sets(a, a, "title", a.title) /\ Sets(a, a, "description", a.description)
        /\ Sets(a, a, "location", a.location) /\ Sets(a, a, "attendees", a.attendees)
        /\ Sets(a, a, "reminders", a.reminders)
    BY <1>1, OneField
  <1>3. ASSUME NEW x
        PROVE  /\ Sets([a EXCEPT !.title = x], a, "title", x)
               /\ Sets([a EXCEPT !.description = x], a, "description", x)
               /\ Sets([a EXCEPT !.location = x], a, "location", x)
               /\ Sets([a EXCEPT !.attendees = x], a, "attendees", x)
               /\ Sets([a EXCEPT !.reminders = x], a, "reminders", x)
    BY <1>1, OneField
  <1>4. ASSUME ev.attendees \cap Invalid = {}
        PROVE  Sets(Applied("KeepAttendees", names, title, ev, a), a, "attendees",
                    IF "KeepAttendees" \in names THEN {Dummy(p) : p \in ev.attendees} ELSE a.attendees)
    BY <1>2, <1>3, <1>4, Transforms DEF Applied, KeepAttendees
  <1>5. Sets(Applied("KeepLocation", names, title, ev, a), a, "location",
             IF "KeepLocation" \in names
             THEN ev.location ELSE a.location)
    <2>1. Applied("KeepLocation", names, title, ev, a)
            = IF "KeepLocation" \in names
              THEN [a EXCEPT !.location = ev.location] ELSE a
      <3>1. Transform("KeepLocation", ev, a, title) = KeepLocation(ev, a)
        BY Transforms
      <3> QED BY <3>1 DEF Applied, KeepLocation
    <2> QED BY <1>2, <1>3, <2>1
  <1>6. Sets(Applied("KeepReminders", names, title, ev, a), a, "reminders",
             IF "KeepReminders" \in names
             THEN ev.reminders ELSE a.reminders)
    <2>1. Applied("KeepReminders", names, title, ev, a)
            = IF "KeepReminders" \in names
              THEN [a EXCEPT !.reminders = ev.reminders] ELSE a
      <3>1. Transform("KeepReminders", ev, a, title) = KeepReminders(ev, a)
        BY Transforms
      <3> QED BY <3>1 DEF Applied, KeepReminders
    <2> QED BY <1>2, <1>3, <2>1
  <1>7. Sets(Applied("KeepDescription", names, title, ev, a), a, "description",
             IF "KeepDescription" \in names
             THEN Sanitized(ev.description) ELSE a.description)
    <2>1. Applied("KeepDescription", names, title, ev, a)
            = IF "KeepDescription" \in names
              THEN [a EXCEPT !.description = Sanitized(ev.description)] ELSE a
      <3>1. Transform("KeepDescription", ev, a, title) = KeepDescription(ev, a)
        BY Transforms
      <3> QED BY <3>1 DEF Applied, KeepDescription
    <2> QED BY <1>2, <1>3, <2>1
  <1>8. Sets(Applied("KeepMeetingLink", names, title, ev, a), a, "description",
             IF "KeepMeetingLink" \in names
             THEN Text(ev.link) \o a.description ELSE a.description)
    <2>1. Applied("KeepMeetingLink", names, title, ev, a)
            = IF "KeepMeetingLink" \in names
              THEN [a EXCEPT !.description = Text(ev.link) \o a.description] ELSE a
      <3>1. Transform("KeepMeetingLink", ev, a, title) = KeepMeetingLink(ev, a)
        BY Transforms
      <3> QED BY <3>1 DEF Applied, KeepMeetingLink
    <2> QED BY <1>2, <1>3, <2>1
  <1>9. Sets(Applied("AddOriginalLink", names, title, ev, a), a, "description",
             IF "AddOriginalLink" \in names /\ a.metadata /\ Link \notin ToSet(a.description)
             THEN a.description \o <<Link>> ELSE a.description)
    <2>1. Applied("AddOriginalLink", names, title, ev, a)
            = IF "AddOriginalLink" \in names /\ a.metadata /\ Link \notin ToSet(a.description)
              THEN [a EXCEPT !.description = a.description \o <<Link>>] ELSE a
      <3>1. Transform("AddOriginalLink", ev, a, title) = AddOriginalLink(a)
        BY Transforms
      <3> QED BY <3>1 DEF Applied, AddOriginalLink
    <2> QED BY <1>2, <1>3, <2>1
  <1>10. Sets(Applied("KeepTitle", names, title, ev, a), a, "title",
             IF "KeepTitle" \in names
             THEN ev.title ELSE a.title)
    <2>1. Applied("KeepTitle", names, title, ev, a)
            = IF "KeepTitle" \in names
              THEN [a EXCEPT !.title = ev.title] ELSE a
      <3>1. Transform("KeepTitle", ev, a, title) = KeepTitle(ev, a)
        BY Transforms
      <3> QED BY <3>1 DEF Applied, KeepTitle
    <2> QED BY <1>2, <1>3, <2>1
  <1>11. Sets(Applied("PrefixTitle", names, title, ev, a), a, "title",
             IF "PrefixTitle" \in names
             THEN <<Prefix>> \o a.title ELSE a.title)
    <2>1. Applied("PrefixTitle", names, title, ev, a)
            = IF "PrefixTitle" \in names
              THEN [a EXCEPT !.title = <<Prefix>> \o a.title] ELSE a
      <3>1. Transform("PrefixTitle", ev, a, title) = PrefixTitle(a)
        BY Transforms
      <3> QED BY <3>1 DEF Applied, PrefixTitle
    <2> QED BY <1>2, <1>3, <2>1
  <1>12. Sets(Applied("ReplaceTitle", names, title, ev, a), a, "title",
             IF "ReplaceTitle" \in names
             THEN <<title>> ELSE a.title)
    <2>1. Applied("ReplaceTitle", names, title, ev, a)
            = IF "ReplaceTitle" \in names
              THEN [a EXCEPT !.title = <<title>>] ELSE a
      <3>1. Transform("ReplaceTitle", ev, a, title) = ReplaceTitle(a, title)
        BY Transforms
      <3> QED BY <3>1 DEF Applied, ReplaceTitle
    <2> QED BY <1>2, <1>3, <2>1
  <1> QED BY <1>4, <1>5, <1>6, <1>7, <1>8, <1>9, <1>10, <1>11, <1>12

-----------------------------------------------------------------------------
(* What all of them make of an event *)

LEMMA NewSync ==
  ASSUME NEW ev \in Content
  PROVE  LET a == NewSyncEvent(ev)
         IN  /\ HasFields(a)
             /\ a.title = <<Placeholder>> /\ a.description = <<>> /\ a.location = None
             /\ a.attendees = {} /\ a.reminders = {} /\ a.link = None /\ a.accepted = FALSE
             /\ a.allDay = ev.allDay /\ a.busy = ev.busy /\ a.start = ev.start /\ a.end = ev.end
             /\ a.metadata = ev.metadata
  <1>1. DOMAIN ev = Fields
    BY DEF Content, Fields
  <1>2. DOMAIN NewSyncEvent(ev) = Fields
    BY <1>1 DEF NewSyncEvent
  <1>3. HasFields(NewSyncEvent(ev))
    BY <1>2 DEF HasFields, NewSyncEvent
  <1> QED BY <1>1, <1>3 DEF NewSyncEvent, Fields

\* An event that comes with an error loses its metadata for good.
LEMMA MetadataLost ==
  ASSUME NEW names, NEW title, NEW ev \in Content,
         "KeepAttendees" \in names, ev.attendees \cap Invalid # {}
  PROVE  TransformEvent(names, title, ev).metadata = FALSE
  <1> DEFINE s1 == Applied("KeepAttendees", names, title, ev, NewSyncEvent(ev))
             s2 == Applied("KeepLocation", names, title, ev, s1)
             s3 == Applied("KeepReminders", names, title, ev, s2)
             s4 == Applied("KeepDescription", names, title, ev, s3)
             s5 == Applied("KeepMeetingLink", names, title, ev, s4)
             s6 == Applied("AddOriginalLink", names, title, ev, s5)
             s7 == Applied("KeepTitle", names, title, ev, s6)
             s8 == Applied("PrefixTitle", names, title, ev, s7)
             s9 == Applied("ReplaceTitle", names, title, ev, s8)
             Lost(s) == HasFields(s) /\ s.metadata = FALSE
  <1>1. Lost(s1)
    <2>1. s1 = Nothing
      BY Transforms DEF Applied, KeepAttendees
    <2>2. HasFields(Nothing) /\ Nothing.metadata = FALSE
      BY DEF HasFields, Nothing, Fields
    <2> QED BY <2>1, <2>2
  <1>2. ASSUME NEW a, Lost(a)
        PROVE  /\ Lost(Applied("KeepLocation", names, title, ev, a))
               /\ Lost(Applied("KeepReminders", names, title, ev, a))
               /\ Lost(Applied("KeepDescription", names, title, ev, a))
               /\ Lost(Applied("KeepMeetingLink", names, title, ev, a))
               /\ Lost(Applied("AddOriginalLink", names, title, ev, a))
               /\ Lost(Applied("KeepTitle", names, title, ev, a))
               /\ Lost(Applied("PrefixTitle", names, title, ev, a))
               /\ Lost(Applied("ReplaceTitle", names, title, ev, a))
    <2>1. ASSUME NEW b, NEW f \in {"title", "description", "location", "attendees", "reminders"}, NEW x,
                 Sets(b, a, f, x)
          PROVE  Lost(b)
      BY <1>2, <2>1 DEF Sets, Fields
    <2>2. HasFields(a)
      BY <1>2
    <2>3. Lost(Applied("KeepLocation", names, title, ev, a))
      <3>1. \E x : Sets(Applied("KeepLocation", names, title, ev, a), a, "location", x)
        BY <2>2, Transformers
      <3> HIDE DEF Lost
      <3> QED BY <2>1, <3>1
    <2>4. Lost(Applied("KeepReminders", names, title, ev, a))
      <3>1. \E x : Sets(Applied("KeepReminders", names, title, ev, a), a, "reminders", x)
        BY <2>2, Transformers
      <3> HIDE DEF Lost
      <3> QED BY <2>1, <3>1
    <2>5. Lost(Applied("KeepDescription", names, title, ev, a))
      <3>1. \E x : Sets(Applied("KeepDescription", names, title, ev, a), a, "description", x)
        BY <2>2, Transformers
      <3> HIDE DEF Lost
      <3> QED BY <2>1, <3>1
    <2>6. Lost(Applied("KeepMeetingLink", names, title, ev, a))
      <3>1. \E x : Sets(Applied("KeepMeetingLink", names, title, ev, a), a, "description", x)
        BY <2>2, Transformers
      <3> HIDE DEF Lost
      <3> QED BY <2>1, <3>1
    <2>7. Lost(Applied("AddOriginalLink", names, title, ev, a))
      <3>1. \E x : Sets(Applied("AddOriginalLink", names, title, ev, a), a, "description", x)
        BY <2>2, Transformers
      <3> HIDE DEF Lost
      <3> QED BY <2>1, <3>1
    <2>8. Lost(Applied("KeepTitle", names, title, ev, a))
      <3>1. \E x : Sets(Applied("KeepTitle", names, title, ev, a), a, "title", x)
        BY <2>2, Transformers
      <3> HIDE DEF Lost
      <3> QED BY <2>1, <3>1
    <2>9. Lost(Applied("PrefixTitle", names, title, ev, a))
      <3>1. \E x : Sets(Applied("PrefixTitle", names, title, ev, a), a, "title", x)
        BY <2>2, Transformers
      <3> HIDE DEF Lost
      <3> QED BY <2>1, <3>1
    <2>10. Lost(Applied("ReplaceTitle", names, title, ev, a))
      <3>1. \E x : Sets(Applied("ReplaceTitle", names, title, ev, a), a, "title", x)
        BY <2>2, Transformers
      <3> HIDE DEF Lost
      <3> QED BY <2>1, <3>1
    <2> QED BY <2>3, <2>4, <2>5, <2>6, <2>7, <2>8, <2>9, <2>10
  <1> HIDE DEF s1, s2, s3, s4, s5, s6, s7, s8, s9
  <1>3. Lost(s2)
    BY <1>2, <1>1 DEF s2
  <1>4. Lost(s3)
    BY <1>2, <1>3 DEF s3
  <1>5. Lost(s4)
    BY <1>2, <1>4 DEF s4
  <1>6. Lost(s5)
    BY <1>2, <1>5 DEF s5
  <1>7. Lost(s6)
    BY <1>2, <1>6 DEF s6
  <1>8. Lost(s7)
    BY <1>2, <1>7 DEF s7
  <1>9. Lost(s8)
    BY <1>2, <1>8 DEF s8
  <1>10. Lost(s9)
    BY <1>2, <1>9 DEF s9
  <1>11. TransformEvent(names, title, ev) = s9
    BY Unrolled DEF s1, s2, s3, s4, s5, s6, s7, s8, s9
  <1> QED BY <1>10, <1>11

\* The text that KeepDescription and KeepMeetingLink leave, and the title that
\* KeepTitle and PrefixTitle leave.
Body(names, ev) ==
    LET kept == IF "KeepDescription" \in names THEN Sanitized(ev.description) ELSE <<>>
    IN IF "KeepMeetingLink" \in names THEN Text(ev.link) \o kept ELSE kept

Title(names, ev) ==
    LET kept == IF "KeepTitle" \in names THEN ev.title ELSE <<Placeholder>>
    IN IF "PrefixTitle" \in names THEN <<Prefix>> \o kept ELSE kept

\* Each field of copy c is what its own transformers make it.
CopyIs(c, names, title, ev) ==
    /\ HasFields(c)
    /\ c.title = IF "ReplaceTitle" \in names THEN <<title>> ELSE Title(names, ev)
    /\ c.description = IF "AddOriginalLink" \in names /\ Link \notin ToSet(Body(names, ev))
                       THEN Body(names, ev) \o <<Link>> ELSE Body(names, ev)
    /\ c.location = IF "KeepLocation" \in names THEN ev.location ELSE None
    /\ c.attendees = IF "KeepAttendees" \in names THEN {Dummy(p) : p \in ev.attendees} ELSE {}
    /\ c.reminders = IF "KeepReminders" \in names THEN ev.reminders ELSE {}
    /\ c.link = None /\ c.accepted = FALSE /\ c.metadata = ev.metadata
    /\ c.allDay = ev.allDay /\ c.busy = ev.busy /\ c.start = ev.start /\ c.end = ev.end

\* No address that is none comes in the way.
Valid(names, ev) == "KeepAttendees" \notin names \/ ev.attendees \cap Invalid = {}

LEMMA CopyFields ==
  ASSUME NEW names, NEW title, NEW ev \in Content, ev.metadata, Valid(names, ev)
  PROVE  CopyIs(TransformEvent(names, title, ev), names, title, ev)
  <1> DEFINE s0 == NewSyncEvent(ev)
             s1 == Applied("KeepAttendees", names, title, ev, s0)
             s2 == Applied("KeepLocation", names, title, ev, s1)
             s3 == Applied("KeepReminders", names, title, ev, s2)
             s4 == Applied("KeepDescription", names, title, ev, s3)
             s5 == Applied("KeepMeetingLink", names, title, ev, s4)
             s6 == Applied("AddOriginalLink", names, title, ev, s5)
             s7 == Applied("KeepTitle", names, title, ev, s6)
             s8 == Applied("PrefixTitle", names, title, ev, s7)
             s9 == Applied("ReplaceTitle", names, title, ev, s8)
  <1>1. TransformEvent(names, title, ev) = s9
    BY Unrolled
  <1>2. /\ HasFields(s0)
        /\ s0.title = <<Placeholder>> /\ s0.description = <<>> /\ s0.location = None
        /\ s0.attendees = {} /\ s0.reminders = {} /\ s0.link = None /\ s0.accepted = FALSE
        /\ s0.allDay = ev.allDay /\ s0.busy = ev.busy /\ s0.start = ev.start /\ s0.end = ev.end
        /\ s0.metadata = ev.metadata
    BY NewSync
  <1> HIDE DEF s0, s1, s2, s3, s4, s5, s6, s7, s8, s9
  <1>3. Sets(s1, s0, "attendees", IF "KeepAttendees" \in names THEN {Dummy(p) : p \in ev.attendees} ELSE s0.attendees)
    <2>1. CASE ev.attendees \cap Invalid = {}
      BY <1>2, <2>1, Transformers DEF s1
    <2>2. CASE "KeepAttendees" \notin names
      <3>1. s1 = s0
        BY <2>2 DEF s1, Applied
      <3>2. "attendees" \in Fields
        BY DEF Fields
      <3>3. Sets(s0, s0, "attendees", s0.attendees)
        BY <1>2, <3>2, OneField
      <3> QED BY <2>2, <3>1, <3>3
    <2> QED BY <2>1, <2>2 DEF Valid
  <1>4. Sets(s2, s1, "location",
             IF "KeepLocation" \in names
             THEN ev.location ELSE s1.location)
    <2>1. HasFields(s1)
      BY <1>3 DEF Sets
    <2> QED BY <2>1, Transformers DEF s2
  <1>5. Sets(s3, s2, "reminders",
             IF "KeepReminders" \in names
             THEN ev.reminders ELSE s2.reminders)
    <2>1. HasFields(s2)
      BY <1>4 DEF Sets
    <2> QED BY <2>1, Transformers DEF s3
  <1>6. Sets(s4, s3, "description",
             IF "KeepDescription" \in names
             THEN Sanitized(ev.description) ELSE s3.description)
    <2>1. HasFields(s3)
      BY <1>5 DEF Sets
    <2> QED BY <2>1, Transformers DEF s4
  <1>7. Sets(s5, s4, "description",
             IF "KeepMeetingLink" \in names
             THEN Text(ev.link) \o s4.description ELSE s4.description)
    <2>1. HasFields(s4)
      BY <1>6 DEF Sets
    <2> QED BY <2>1, Transformers DEF s5
  <1>8. Sets(s6, s5, "description",
             IF "AddOriginalLink" \in names /\ s5.metadata /\ Link \notin ToSet(s5.description)
             THEN s5.description \o <<Link>> ELSE s5.description)
    <2>1. HasFields(s5)
      BY <1>7 DEF Sets
    <2> QED BY <2>1, Transformers DEF s6
  <1>9. Sets(s7, s6, "title",
             IF "KeepTitle" \in names
             THEN ev.title ELSE s6.title)
    <2>1. HasFields(s6)
      BY <1>8 DEF Sets
    <2> QED BY <2>1, Transformers DEF s7
  <1>10. Sets(s8, s7, "title",
             IF "PrefixTitle" \in names
             THEN <<Prefix>> \o s7.title ELSE s7.title)
    <2>1. HasFields(s7)
      BY <1>9 DEF Sets
    <2> QED BY <2>1, Transformers DEF s8
  <1>11. Sets(s9, s8, "title",
             IF "ReplaceTitle" \in names
             THEN <<title>> ELSE s8.title)
    <2>1. HasFields(s8)
      BY <1>10 DEF Sets
    <2> QED BY <2>1, Transformers DEF s9
  <1>12. s9.title = IF "ReplaceTitle" \in names THEN <<title>> ELSE Title(names, ev)
    <2>1. s6.title = <<Placeholder>>
      BY <1>2, <1>3, <1>4, <1>5, <1>6, <1>7, <1>8 DEF Sets, Fields
    <2> QED BY <2>1, <1>9, <1>10, <1>11 DEF Sets, Title
  <1>13. s9.description = IF "AddOriginalLink" \in names /\ Link \notin ToSet(Body(names, ev))
                         THEN Body(names, ev) \o <<Link>> ELSE Body(names, ev)
    <2>1. s3.description = <<>>
      BY <1>2, <1>3, <1>4, <1>5 DEF Sets, Fields
    <2>2. s5.description = Body(names, ev)
      BY <2>1, <1>6, <1>7 DEF Sets, Body
    <2>3. s5.metadata
      BY <1>2, <1>3, <1>4, <1>5, <1>6, <1>7 DEF Sets, Fields
    <2>4. s9.description = s6.description
      BY <1>9, <1>10, <1>11 DEF Sets, Fields
    <2> QED BY <2>2, <2>3, <2>4, <1>8 DEF Sets
  <1>14. s9.location = IF "KeepLocation" \in names THEN ev.location ELSE None
    <2>1. s2.location = IF "KeepLocation" \in names THEN ev.location ELSE None
      BY <1>2, <1>3, <1>4 DEF Sets, Fields
    <2>2. s9.location = s2.location
      BY <1>5, <1>6, <1>7, <1>8, <1>9, <1>10, <1>11 DEF Sets, Fields
    <2> QED BY <2>1, <2>2
  <1>15. s9.attendees = IF "KeepAttendees" \in names THEN {Dummy(p) : p \in ev.attendees} ELSE {}
    <2>1. s1.attendees = IF "KeepAttendees" \in names THEN {Dummy(p) : p \in ev.attendees} ELSE {}
      BY <1>2, <1>3 DEF Sets
    <2>2. s9.attendees = s1.attendees
      BY <1>4, <1>5, <1>6, <1>7, <1>8, <1>9, <1>10, <1>11 DEF Sets, Fields
    <2> QED BY <2>1, <2>2
  <1>16. s9.reminders = IF "KeepReminders" \in names THEN ev.reminders ELSE {}
    <2>1. s3.reminders = IF "KeepReminders" \in names THEN ev.reminders ELSE {}
      <3>1. s2.reminders = {}
        BY <1>2, <1>3, <1>4 DEF Sets, Fields
      <3> QED BY <3>1, <1>5 DEF Sets
    <2>2. s9.reminders = s3.reminders
      BY <1>6, <1>7, <1>8, <1>9, <1>10, <1>11 DEF Sets, Fields
    <2> QED BY <2>1, <2>2
  <1>17. ASSUME NEW f \in {"link", "accepted", "metadata", "allDay", "busy", "start", "end"}
         PROVE  s9[f] = s0[f]
    BY <1>3, <1>4, <1>5, <1>6, <1>7, <1>8, <1>9, <1>10, <1>11 DEF Sets, Fields
  <1>18. /\ s9.link = s0.link /\ s9.accepted = s0.accepted /\ s9.metadata = s0.metadata
         /\ s9.allDay = s0.allDay /\ s9.busy = s0.busy /\ s9.start = s0.start /\ s9.end = s0.end
    BY <1>17
  <1>19. HasFields(s9)
    BY <1>11 DEF Sets
  <1> QED BY <1>1, <1>2, <1>12, <1>13, <1>14, <1>15, <1>16, <1>18, <1>19 DEF CopyIs

-----------------------------------------------------------------------------
(* Reminders: hours before the start, and points in time *)

\* Converted there and back, reminders are what they were.
LEMMA Points ==
  ASSUME NEW s \in Int, NEW R \in SUBSET Int, NEW Q \in SUBSET Int
  PROVE  /\ {s - m : m \in R} \in SUBSET Int
         /\ {s - t : t \in {s - m : m \in R}} = R
         /\ {s - m : m \in R} = {s - m : m \in Q} <=> R = Q
         /\ {s - m : m \in R} = {} <=> R = {}
  <1>1. {s - m : m \in R} \in SUBSET Int
    OBVIOUS
  <1>2. ASSUME NEW P \in SUBSET Int PROVE {s - t : t \in {s - m : m \in P}} = P
    <2>1. ASSUME NEW x \in P PROVE x \in {s - t : t \in {s - m : m \in P}}
      <3>1. s - x \in {s - m : m \in P} /\ s - (s - x) = x
        OBVIOUS
      <3> QED BY <3>1
    <2>2. ASSUME NEW x \in {s - t : t \in {s - m : m \in P}} PROVE x \in P
      <3>1. PICK m \in P : x = s - (s - m)
        OBVIOUS
      <3> QED BY <3>1
    <2> QED BY <2>1, <2>2
  <1>3. {s - m : m \in R} = {s - m : m \in Q} => R = Q
    <2>1. SUFFICES ASSUME {s - m : m \in R} = {s - m : m \in Q} PROVE R = Q
      OBVIOUS
    <2> QED BY <2>1, <1>2
  <1>4. {s - m : m \in R} = {} <=> R = {}
    OBVIOUS
  <1>5. {s - t : t \in {s - m : m \in R}} = R
    BY <1>2
  <1> QED BY <1>1, <1>3, <1>4, <1>5, Zenon

LEMMA SamePoints ==
  ASSUME NEW s \in Int, NEW R \in SUBSET Int, NEW Q \in SUBSET Int
  PROVE  {s - m : m \in R} = {s - m : m \in Q} <=> R = Q
  BY Points

\* As many as before.
LEMMA PointsFinite ==
  ASSUME NEW s \in Int, NEW R \in SUBSET Int, IsFiniteSet(R)
  PROVE  /\ IsFiniteSet({s - m : m \in R})
         /\ Cardinality({s - m : m \in R}) = 1 <=> Cardinality(R) = 1
  <1> DEFINE T == {s - m : m \in R}
             f == [m \in R |-> s - m]
  <1>1. f \in Bijection(R, T)
    <2>1. f \in [R -> T]
      OBVIOUS
    <2>2. ASSUME NEW a \in R, NEW b \in R, f[a] = f[b] PROVE a = b
      BY <2>2
    <2>3. ASSUME NEW t \in T PROVE \E a \in R : f[a] = t
      OBVIOUS
    <2> HIDE DEF f, T
    <2> QED BY <2>1, <2>2, <2>3 DEF Bijection, Injection, Surjection, IsInjective
  <1> HIDE DEF f
  <1>2. ExistsBijection(R, T)
    BY <1>1 DEF ExistsBijection
  <1> QED BY <1>2, FS_Bijection

-----------------------------------------------------------------------------
(* What a rule wants, and what it makes *)

LEMMA Listed ==
  ASSUME NEW e \in Content
  PROVE  LET ev == calendarEventToEvent(e)
         IN  /\ ev \in Content
             /\ ev.title = e.title /\ ev.description = e.description /\ ev.location = e.location
             /\ ev.attendees = e.attendees /\ ev.link = e.link /\ ev.accepted = e.accepted
             /\ ev.allDay = e.allDay /\ ev.busy = e.busy /\ ev.start = e.start /\ ev.end = e.end
             /\ ev.metadata = e.metadata
             /\ ev.reminders = {e.start - m : m \in e.reminders}
  <1>1. {e.start - m : m \in e.reminders} \in SUBSET Int
    BY Points DEF Content
  <1> QED BY <1>1 DEF calendarEventToEvent, Content

LEMMA BodyType ==
  ASSUME NEW names, NEW e \in Content
  PROVE  Body(names, e) \in Seq(Words) /\ Title(names, e) \in Seq(Words)
  <1>1. e.title \in Seq(Words) /\ e.description \in Seq(Words) /\ e.link \in Words \cup {None}
    BY DEF Content
  <1>2. <<>> \in Seq(Words) /\ \A w \in Words : <<w>> \in Seq(Words)
    OBVIOUS
  <1>3. Text(e.link) \in Seq(Words) /\ Sanitized(e.description) \in Seq(Words)
    BY <1>1, <1>2, WordAssumption DEF Text, Sanitized
  <1>4. <<Placeholder>> \in Seq(Words) /\ <<Prefix>> \in Seq(Words)
    BY <1>2, WordAssumption
  <1>5. \A s, t \in Seq(Words) : s \o t \in Seq(Words)
    OBVIOUS
  <1>6. Body(names, e) \in Seq(Words)
    BY <1>2, <1>3, <1>5 DEF Body
  <1>7. Title(names, e) \in Seq(Words)
    BY <1>1, <1>4, <1>5 DEF Title
  <1> QED BY <1>6, <1>7

\* Whatever the rule, if there is no error a well-typed copy comes out.
LEMMA CopyType ==
  ASSUME NEW names, NEW title \in Words, NEW e \in Event, Valid(names, e)
  PROVE  LET c == TransformEvent(names, title, calendarEventToEvent(e))
         IN  c \in Content /\ c.metadata /\ IsFiniteSet(c.reminders)
  <1> DEFINE ev == calendarEventToEvent(e)
             c == TransformEvent(names, title, ev)
  <1>1. e \in Content /\ e.metadata /\ e.attendees \subseteq Addresses /\ IsFiniteSet(e.reminders)
    BY DEF Event
  <1>2. ev \in Content /\ ev.metadata /\ ev.attendees = e.attendees
        /\ ev.reminders = {e.start - m : m \in e.reminders}
    BY <1>1, Listed
  <1>3. ev.location \in Words \cup {None} /\ ev.reminders \in SUBSET Int /\ ev.allDay \in BOOLEAN
        /\ ev.busy \in BOOLEAN /\ ev.start \in Int /\ ev.end \in Int /\ ev.metadata \in BOOLEAN
    BY <1>2 DEF Content
  <1>4. IsFiniteSet(ev.reminders)
    BY <1>1, <1>2, PointsFinite DEF Content
  <1> HIDE DEF ev
  <1>5. Body(names, ev) \in Seq(Words) /\ Title(names, ev) \in Seq(Words)
    BY <1>2, BodyType
  <1>6. CopyIs(c, names, title, ev)
    BY <1>2, CopyFields DEF Valid
  <1> HIDE DEF c
  <1>7. c.title \in Seq(Words)
    BY <1>5, <1>6 DEF CopyIs
  <1>8. c.description \in Seq(Words)
    <2>1. <<Link>> \in Seq(Words)
      BY WordAssumption
    <2> QED BY <1>5, <1>6, <2>1 DEF CopyIs
  <1>9. c.attendees \in SUBSET (Addresses \cup {Dummy(a) : a \in Addresses})
    BY <1>1, <1>2, <1>6 DEF CopyIs
  <1>10. c.location \in Words \cup {None} /\ c.reminders \in SUBSET Int /\ IsFiniteSet(c.reminders)
    BY <1>3, <1>4, <1>6, FS_EmptySet DEF CopyIs
  <1>11. c \in Content
    BY <1>3, <1>6, <1>7, <1>8, <1>9, <1>10 DEF CopyIs, Content, HasFields, Fields
  <1> QED BY <1>2, <1>6, <1>10, <1>11 DEF CopyIs, c, ev

\* The transformers of a rule, as a run has them.
NamesOf(r) == payloadTransformations(r).names
TitleOf(r) == payloadTransformations(r).title

\* Copy c, on its way to Google, is what w says.
Makes(c, w) ==
    /\ DOMAIN w = {"start", "end", "allDay", "busy", "title", "description", "location",
                   "attendees", "reminders"}
    /\ \A f \in DOMAIN w \ {"reminders"} : c[f] = w[f]
    /\ w.reminders \in SUBSET Int
    /\ c.reminders = {c.start - m : m \in w.reminders}

\* Nothing is wanted if a filter rejects the event, or a transformer fails.
LEMMA NotWanted ==
  ASSUME NEW r \in Rule, NEW e \in Event
  PROVE  ~FilterEvent(r.filters, calendarEventToEvent(e)) \/ ~Valid(NamesOf(r), e) => Wanted(r, e) = None
  <1>1. r.payload = "busy" => NamesOf(r) = {"ReplaceTitle"}
    BY DEF NamesOf, payloadTransformations
  <1>2. r.payload # "busy" => NamesOf(r) = r.transformations
    BY DEF NamesOf, payloadTransformations
  <1>3. CASE ~FilterEvent(r.filters, calendarEventToEvent(e))
    BY <1>3 DEF Wanted
  <1>4. CASE ~Valid(NamesOf(r), e)
    <2>1. r.payload # "busy" /\ "KeepAttendees" \in r.transformations /\ e.attendees \cap Invalid # {}
      BY <1>1, <1>2, <1>4 DEF Valid
    <2> QED BY <2>1 DEF Wanted
  <1> QED BY <1>3, <1>4

\* What is wanted otherwise, by the names of the transformers.
WantedFields(r, e) ==
    [start |-> e.start, end |-> e.end, allDay |-> e.allDay, busy |-> e.busy,
     title |-> IF "ReplaceTitle" \in NamesOf(r) THEN <<TitleOf(r)>> ELSE Title(NamesOf(r), e),
     description |-> IF "AddOriginalLink" \in NamesOf(r) /\ Link \notin ToSet(Body(NamesOf(r), e))
                     THEN Body(NamesOf(r), e) \o <<Link>> ELSE Body(NamesOf(r), e),
     location |-> IF "KeepLocation" \in NamesOf(r) THEN e.location ELSE None,
     attendees |-> IF "KeepAttendees" \in NamesOf(r) THEN {Dummy(a) : a \in e.attendees} ELSE {},
     reminders |-> IF "KeepReminders" \in NamesOf(r) THEN e.reminders ELSE {}]

LEMMA WantedIs ==
  ASSUME NEW r \in Rule, NEW e \in Event,
         FilterEvent(r.filters, calendarEventToEvent(e)), Valid(NamesOf(r), e)
  PROVE  Wanted(r, e) = WantedFields(r, e)
  <1> DEFINE Has(n) == r.payload # "busy" /\ n \in r.transformations
             Part(n, text) == IF Has(n) THEN text ELSE <<>>
             text == Text(e.link)
             sane == Sanitized(e.description)
             body == Part("KeepMeetingLink", text) \o Part("KeepDescription", sane)
             title == IF r.payload = "busy" THEN <<Busy>> ELSE IF Has("ReplaceTitle") THEN <<NewTitle>>
                      ELSE Part("PrefixTitle", <<Prefix>>)
                             \o IF Has("KeepTitle") THEN e.title ELSE <<Placeholder>>
             description == body \o IF Link \in ToSet(body) THEN <<>> ELSE Part("AddOriginalLink", <<Link>>)
  <1>1. e \in Content
    BY DEF Event
  <1>2. e.title \in Seq(Words) /\ e.description \in Seq(Words) /\ e.link \in Words \cup {None}
    BY <1>1 DEF Content
  <1>3. <<>> \in Seq(Words) /\ \A w \in Words : <<w>> \in Seq(Words)
    OBVIOUS
  <1>4. text \in Seq(Words) /\ sane \in Seq(Words)
    BY <1>2, <1>3, WordAssumption DEF Text, Sanitized
  <1>5. <<Placeholder>> \in Seq(Words) /\ <<Prefix>> \in Seq(Words) /\ <<Link>> \in Seq(Words)
    BY <1>3, WordAssumption
  <1>6. \A s \in Seq(Words) : s \o <<>> = s /\ <<>> \o s = s
    BY ConcatEmptySeq
  <1>7. /\ r.payload = "busy" => NamesOf(r) = {"ReplaceTitle"} /\ TitleOf(r) = Busy
        /\ r.payload # "busy" => NamesOf(r) = r.transformations /\ TitleOf(r) = NewTitle
    BY DEF NamesOf, TitleOf, payloadTransformations
  <1>8. /\ Has("KeepAttendees") <=> "KeepAttendees" \in NamesOf(r)
        /\ Has("KeepLocation") <=> "KeepLocation" \in NamesOf(r)
        /\ Has("KeepReminders") <=> "KeepReminders" \in NamesOf(r)
        /\ Has("KeepDescription") <=> "KeepDescription" \in NamesOf(r)
        /\ Has("KeepMeetingLink") <=> "KeepMeetingLink" \in NamesOf(r)
        /\ Has("AddOriginalLink") <=> "AddOriginalLink" \in NamesOf(r)
    BY <1>7
  <1>9. Wanted(r, e) =
          [start |-> e.start, end |-> e.end, allDay |-> e.allDay, busy |-> e.busy,
           title |-> title, description |-> description,
           location |-> IF Has("KeepLocation") THEN e.location ELSE None,
           attendees |-> IF Has("KeepAttendees") THEN {Dummy(a) : a \in e.attendees} ELSE {},
           reminders |-> IF Has("KeepReminders") THEN e.reminders ELSE {}]
    <2>1. ~(Has("KeepAttendees") /\ e.attendees \cap Invalid # {})
      <3> HIDE DEF Has
      <3> QED BY <1>8 DEF Valid
    <2> QED BY <2>1 DEF Wanted
  <1> HIDE DEF text, sane
  <1>10. title = IF "ReplaceTitle" \in NamesOf(r) THEN <<TitleOf(r)>> ELSE Title(NamesOf(r), e)
    <2>1. CASE r.payload = "busy"
      BY <1>7, <2>1
    <2>2. CASE r.payload # "busy"
      BY <1>2, <1>5, <1>6, <1>7, <2>2 DEF Title
    <2> QED BY <2>1, <2>2
  <1>11. body = Body(NamesOf(r), e)
    <2> HIDE DEF Has
    <2> QED BY <1>3, <1>4, <1>6, <1>8 DEF Body, text, sane
  <1>12. body \in Seq(Words)
    BY <1>1, <1>11, BodyType
  <1>13. description = IF "AddOriginalLink" \in NamesOf(r) /\ Link \notin ToSet(Body(NamesOf(r), e))
                       THEN Body(NamesOf(r), e) \o <<Link>> ELSE Body(NamesOf(r), e)
    <2> HIDE DEF Has, body
    <2> QED BY <1>6, <1>8, <1>11, <1>12
  <1> HIDE DEF Has, title, description
  <1> QED BY <1>8, <1>9, <1>10, <1>13 DEF WantedFields

LEMMA WantedType ==
  ASSUME NEW r \in Rule, NEW e \in Event
  PROVE  WantedFields(r, e) \in Shown /\ WantedFields(r, e) # None
  <1> DEFINE w == WantedFields(r, e)
  <1>1. e \in Content /\ e.attendees \subseteq Addresses /\ e.reminders \subseteq Nat
    BY DEF Event
  <1>2. Body(NamesOf(r), e) \in Seq(Words) /\ Title(NamesOf(r), e) \in Seq(Words)
    BY <1>1, BodyType
  <1>3. TitleOf(r) \in Words /\ Link \in Words
    BY WordAssumption DEF TitleOf, payloadTransformations
  <1>4. <<TitleOf(r)>> \in Seq(Words) /\ <<Link>> \in Seq(Words)
    BY <1>3
  <1>5. /\ w.title \in Seq(Words) /\ w.description \in Seq(Words)
    BY <1>2, <1>4 DEF WantedFields
  <1>6. /\ w.location \in Words \cup {None} /\ w.attendees \in SUBSET {Dummy(a) : a \in Addresses}
        /\ w.reminders \in SUBSET Nat /\ w.allDay \in BOOLEAN /\ w.busy \in BOOLEAN
        /\ w.start \in Int /\ w.end \in Int
    BY <1>1 DEF WantedFields, Content
  <1>7. w = [start |-> w.start, end |-> w.end, allDay |-> w.allDay, busy |-> w.busy, title |-> w.title,
             description |-> w.description, location |-> w.location, attendees |-> w.attendees,
             reminders |-> w.reminders]
    BY DEF WantedFields
  <1> HIDE DEF w
  <1>8. w \in Shown
    BY <1>5, <1>6, <1>7 DEF Shown
  <1> QED BY <1>8, NoneAssumption DEF w

\* A run makes what is wanted, and sends a request exactly where it is.
LEMMA MakesWanted ==
  ASSUME NEW r \in Rule, NEW e \in Event
  PROVE  LET ev == calendarEventToEvent(e)
             c  == Transformed(r, ev)
         IN  IF FilterEvent(r.filters, ev) /\ c.metadata
             THEN Wanted(r, e) # None /\ Makes(c, Wanted(r, e)) /\ c \in Content
             ELSE Wanted(r, e) = None
  <1> DEFINE ev == calendarEventToEvent(e)
             c == Transformed(r, ev)
             w == Wanted(r, e)
  <1>1. e \in Content /\ e.metadata
    BY DEF Event
  <1>2. /\ ev \in Content /\ ev.metadata
        /\ ev.title = e.title /\ ev.description = e.description /\ ev.location = e.location
        /\ ev.attendees = e.attendees /\ ev.link = e.link
        /\ ev.allDay = e.allDay /\ ev.busy = e.busy /\ ev.start = e.start /\ ev.end = e.end
        /\ ev.reminders = {e.start - m : m \in e.reminders}
    BY <1>1, Listed
  <1>3. c = TransformEvent(NamesOf(r), TitleOf(r), ev)
    BY DEF Transformed, NamesOf, TitleOf
  <1>4. TitleOf(r) \in Words
    BY WordAssumption DEF TitleOf, payloadTransformations
  <1>5. CASE ~Valid(NamesOf(r), e)
    <2>1. c.metadata = FALSE
      BY <1>2, <1>3, <1>5, MetadataLost DEF Valid
    <2> QED BY <1>5, <2>1, NotWanted
  <1>6. CASE Valid(NamesOf(r), e) /\ ~FilterEvent(r.filters, ev)
    BY <1>6, NotWanted
  <1>7. CASE Valid(NamesOf(r), e) /\ FilterEvent(r.filters, ev)
    <2>1. w = WantedFields(r, e) /\ w # None
      BY <1>7, WantedIs, WantedType
    <2>2. c \in Content /\ c.metadata
      BY <1>3, <1>4, <1>7, CopyType
    <2>3. CopyIs(c, NamesOf(r), TitleOf(r), ev)
      <3> HIDE DEF ev
      <3>1. Valid(NamesOf(r), ev)
        BY <1>2, <1>7 DEF Valid
      <3> QED BY <1>2, <1>3, <3>1, CopyFields
    <2>4. Body(NamesOf(r), ev) = Body(NamesOf(r), e) /\ Title(NamesOf(r), ev) = Title(NamesOf(r), e)
      BY <1>2 DEF Body, Title
    <2>5. Makes(c, WantedFields(r, e))
      <3> HIDE DEF c, ev
      <3> DEFINE v == WantedFields(r, e)
      <3>1. /\ c.start = v.start /\ c.end = v.end /\ c.allDay = v.allDay /\ c.busy = v.busy
            /\ c.title = v.title /\ c.description = v.description /\ c.location = v.location
            /\ c.attendees = v.attendees
        BY <1>2, <2>3, <2>4 DEF CopyIs, WantedFields
      <3>2. /\ DOMAIN v = {"start", "end", "allDay", "busy", "title", "description", "location",
                           "attendees", "reminders"}
            /\ v.reminders \in SUBSET Int
        BY <1>1 DEF WantedFields, Content
      <3>3. c.reminders = {c.start - m : m \in v.reminders}
        BY <1>2, <2>3 DEF CopyIs, WantedFields
      <3> HIDE DEF v
      <3> QED BY <3>1, <3>2, <3>3 DEF Makes, v
    <2> QED BY <1>7, <2>1, <2>2, <2>5
  <1> QED BY <1>5, <1>6, <1>7

-----------------------------------------------------------------------------
(* The comparison, and what is stored *)

FiniteCopy(c) == c # None => c \in Content /\ IsFiniteSet(c.reminders)

\* A copy that is listed compares equal exactly if it shows what is wanted.
LEMMA SameAsWanted ==
  ASSUME NEW k \in Content, NEW w, w # None, Makes(k, w),
         NEW c \in Content, IsFiniteSet(c.reminders)
  PROVE  IsSameEvent(k, calendarEventToEvent(c)) <=> Shows(c, w)
  <1> DEFINE lc == calendarEventToEvent(c)
             same == /\ k.title = c.title /\ k.description = c.description /\ k.location = c.location
                     /\ k.allDay = c.allDay /\ k.busy = c.busy /\ k.start = c.start /\ k.end = c.end
                     /\ k.attendees = c.attendees
             reminded == c.reminders = w.reminders \/ (w.reminders = {} /\ Cardinality(c.reminders) = 1)
  <1>1. /\ lc.title = c.title /\ lc.description = c.description /\ lc.location = c.location
        /\ lc.attendees = c.attendees /\ lc.allDay = c.allDay /\ lc.busy = c.busy
        /\ lc.start = c.start /\ lc.end = c.end
        /\ lc.reminders = {c.start - m : m \in c.reminders}
    BY Listed
  <1>2. c.start \in Int /\ c.reminders \in SUBSET Int /\ k.start \in Int
    BY DEF Content
  <1>3. w.reminders \in SUBSET Int /\ k.reminders = {k.start - m : m \in w.reminders}
    BY DEF Makes
  <1> HIDE DEF lc
  <1>4. IsSameEvent(k, lc) <=> same /\ SameReminders(k.reminders, lc.reminders)
    BY <1>1 DEF IsSameEvent
  <1>5. ASSUME k.start = c.start PROVE SameReminders(k.reminders, lc.reminders) <=> reminded
    <2>1. k.reminders = lc.reminders <=> w.reminders = c.reminders
      <3>1. {c.start - m : m \in w.reminders} = {c.start - m : m \in c.reminders}
              <=> w.reminders = c.reminders
        <4>1. \A R, Q \in SUBSET Int : {c.start - m : m \in R} = {c.start - m : m \in Q} <=> R = Q
          BY <1>2, SamePoints
        <4> QED BY <1>2, <1>3, <4>1, Zenon
      <3>2. k.reminders = {c.start - m : m \in w.reminders}
        BY <1>3, <1>5, Zenon
      <3> QED BY <1>1, <3>1, <3>2, Zenon
    <2>2. k.reminders = {} <=> w.reminders = {}
      BY <1>2, <1>3, Points
    <2>3. Cardinality(lc.reminders) = 1 <=> Cardinality(c.reminders) = 1
      BY <1>1, <1>2, PointsFinite
    <2> QED BY <2>1, <2>2, <2>3 DEF SameReminders
  <1>6. Shows(c, w) <=> same /\ reminded
    <2>1. c # None
      BY NoneAssumption
    <2>2. (\A f \in DOMAIN w \ {"reminders"} : c[f] = w[f]) <=> same
      <3>1. DOMAIN w \ {"reminders"} = {"start", "end", "allDay", "busy", "title", "description",
                                        "location", "attendees"}
        BY DEF Makes
      <3>2. \A f \in DOMAIN w \ {"reminders"} : k[f] = w[f]
        BY DEF Makes
      <3>3. (\A f \in DOMAIN w \ {"reminders"} : c[f] = w[f])
              <=> (\A f \in DOMAIN w \ {"reminders"} : k[f] = c[f])
        BY <3>2
      <3> QED BY <3>1, <3>3
    <2> HIDE DEF same
    <2> QED BY <2>1, <2>2 DEF Shows
  <1> QED BY <1>4, <1>5, <1>6 DEF lc

\* A copy that is stored shows what is wanted.
LEMMA StoredShows ==
  ASSUME NEW k \in Content, NEW w, w # None, Makes(k, w)
  PROVE  Shows(Stored(k), w)
  <1>1. k.start \in Int /\ w.reminders \in SUBSET Int /\ k.reminders = {k.start - m : m \in w.reminders}
    BY DEF Content, Makes
  <1>2. {k.start - t : t \in k.reminders} = w.reminders
    <2>1. {k.start - t : t \in {k.start - m : m \in w.reminders}} = w.reminders
      BY <1>1, Points, Zenon
    <2> QED BY <1>1, <2>1, Zenon
  <1>3. Stored(k) \in Content /\ Stored(k).reminders = w.reminders
    BY <1>1, <1>2 DEF Stored, Content
  <1>4. Stored(k) # None
    BY <1>3, NoneAssumption
  <1>5. ASSUME NEW f \in DOMAIN w \ {"reminders"} PROVE Stored(k)[f] = w[f]
    <2>1. f \in {"start", "end", "allDay", "busy", "title", "description", "location", "attendees"}
      BY <1>5 DEF Makes
    <2>2. Stored(k)[f] = k[f]
      BY <2>1 DEF Stored, Content
    <2> QED BY <1>5, <2>2 DEF Makes
  <1> QED BY <1>3, <1>4, <1>5 DEF Shows

LEMMA StoredType ==
  ASSUME NEW k \in Content, IsFiniteSet(k.reminders)
  PROVE  FiniteCopy(Stored(k))
  <1>1. k.start \in Int /\ k.reminders \in SUBSET Int
    BY DEF Content
  <1>2. {k.start - t : t \in k.reminders} \in SUBSET Int /\ IsFiniteSet({k.start - t : t \in k.reminders})
    BY <1>1, Points, PointsFinite
  <1>3. Stored(k) \in Content /\ Stored(k).reminders = {k.start - t : t \in k.reminders}
    BY <1>2 DEF Stored, Content
  <1> QED BY <1>2, <1>3 DEF FiniteCopy

\* A copy that shows what is wanted needs no request.
LEMMA ShownNeedsNothing ==
  ASSUME NEW r \in Rule, NEW e \in Event, NEW c, FiniteCopy(c), Shows(c, Wanted(r, e))
  PROVE  Request(r, e, c) = "none"
  <1> DEFINE ev == calendarEventToEvent(e)
             k == Transformed(r, ev)
  <1>1. CASE FilterEvent(r.filters, ev) /\ k.metadata
    <2>1. Wanted(r, e) # None /\ Makes(k, Wanted(r, e)) /\ k \in Content
      BY <1>1, MakesWanted
    <2>2. c # None /\ c \in Content /\ IsFiniteSet(c.reminders)
      BY <2>1 DEF Shows, FiniteCopy
    <2>3. IsSameEvent(k, calendarEventToEvent(c))
      BY <2>1, <2>2, SameAsWanted
    <2> QED BY <1>1, <2>2, <2>3 DEF Request
  <1>2. CASE ~(FilterEvent(r.filters, ev) /\ k.metadata)
    <2>1. c = None
      BY <1>2, MakesWanted DEF Shows
    <2> QED BY <1>2, <2>1 DEF Request
  <1> QED BY <1>1, <1>2

\* What a run leaves, as Synchronise has it.
Left(r, e, c) ==
    LET k       == Transformed(r, calendarEventToEvent(e))
        request == Request(r, e, c)
    IN CASE request = "none" -> c
         [] request = "delete" -> None
         [] request \in {"create", "update"} -> Stored(k)

LEMMA LeftShows ==
  ASSUME NEW r \in Rule, NEW e \in Event, NEW c, FiniteCopy(c)
  PROVE  Shows(Left(r, e, c), Wanted(r, e))
  <1> DEFINE ev == calendarEventToEvent(e)
             k == Transformed(r, ev)
             w == Wanted(r, e)
  <1>1. CASE FilterEvent(r.filters, ev) /\ k.metadata
    <2>1. w # None /\ Makes(k, w) /\ k \in Content
      BY <1>1, MakesWanted
    <2>2. CASE c # None /\ IsSameEvent(k, calendarEventToEvent(c))
      <3>1. c \in Content /\ IsFiniteSet(c.reminders)
        BY <2>2 DEF FiniteCopy
      <3>2. Left(r, e, c) = c
        BY <1>1, <2>2 DEF Left, Request
      <3>3. Shows(c, w)
        BY <2>1, <2>2, <3>1, SameAsWanted
      <3> QED BY <3>2, <3>3
    <2>3. CASE ~(c # None /\ IsSameEvent(k, calendarEventToEvent(c)))
      <3>1. Left(r, e, c) = Stored(k)
        BY <1>1, <2>3 DEF Left, Request
      <3> HIDE DEF k, w
      <3> QED BY <2>1, <3>1, StoredShows DEF w
    <2> QED BY <2>2, <2>3
  <1>2. CASE ~(FilterEvent(r.filters, ev) /\ k.metadata)
    <2>1. w = None
      BY <1>2, MakesWanted
    <2>2. Left(r, e, c) = None
      BY <1>2 DEF Left, Request
    <2> QED BY <2>1, <2>2 DEF Shows
  <1> QED BY <1>1, <1>2

\* Whatever rule a run has put together, it leaves a well-typed copy, or none.
LEMMA LeftType ==
  ASSUME NEW r, NEW e \in Event, NEW c, FiniteCopy(c)
  PROVE  FiniteCopy(Left(r, e, c))
  <1> DEFINE ev == calendarEventToEvent(e)
             k == Transformed(r, ev)
  <1>1. k = TransformEvent(NamesOf(r), TitleOf(r), ev) /\ TitleOf(r) \in Words
    BY WordAssumption DEF Transformed, NamesOf, TitleOf, payloadTransformations
  <1>2. e \in Content /\ e.attendees = ev.attendees /\ ev \in Content
    BY Listed DEF Event
  <1>3. ASSUME k.metadata PROVE FiniteCopy(Stored(k))
    <2>1. Valid(NamesOf(r), e)
      BY <1>1, <1>2, <1>3, MetadataLost DEF Valid
    <2>2. k \in Content /\ IsFiniteSet(k.reminders)
      BY <1>1, <2>1, CopyType
    <2> HIDE DEF k
    <2> QED BY <2>2, StoredType
  <1>4. CASE ~k.metadata \/ ~FilterEvent(r.filters, ev)
    <2>1. Left(r, e, c) = None \/ Left(r, e, c) = c
      BY <1>4 DEF Left, Request
    <2> QED BY <2>1 DEF FiniteCopy
  <1>5. CASE k.metadata /\ FilterEvent(r.filters, ev)
    <2>1. Left(r, e, c) = c \/ Left(r, e, c) = Stored(k)
      BY <1>5 DEF Left, Request
    <2> QED BY <1>3, <1>5, <2>1
  <1> QED BY <1>4, <1>5

-----------------------------------------------------------------------------
(* The rule, the event, its copy and the run *)

Types ==
    /\ rule \in Rule /\ source \in Event /\ FiniteCopy(copy)
    /\ settled \in BOOLEAN
    /\ job = [at |-> job.at, rule |-> job.rule, quiet |-> job.quiet] /\ job.quiet \in BOOLEAN

\* A run during which nobody has saved the rule has read it as it is, although in
\* three statements; a settled copy shows what is wanted.
IInv ==
    /\ Types
    /\ job.at # "idle" /\ job.quiet => job.rule = rule
    /\ settled => Shows(copy, Wanted(rule, source))

LEMMA InitIInv == Init => IInv
  <1> SUFFICES ASSUME Init PROVE IInv
    OBVIOUS
  <1>1. PICK c \in Cases : rule = c[1] /\ source = c[2]
    BY DEF Init
  <1>2. rule \in Rule /\ source \in Event
    BY <1>1, RuleAssumption
  <1>3. FiniteCopy(copy)
    BY DEF Init, FiniteCopy
  <1>4. job.at = "idle" /\ job = [at |-> job.at, rule |-> job.rule, quiet |-> job.quiet] /\ job.quiet = TRUE
    BY DEF Init, NoJob
  <1>5. settled = FALSE
    BY DEF Init
  <1> QED BY <1>2, <1>3, <1>4, <1>5 DEF IInv, Types

\* The three statements that read the rule.
LEMMA Reads ==
  ASSUME IInv, GetRule \/ loadFilters \/ loadTransformations
  PROVE  IInv'
  <1>1. UNCHANGED <<rule, source, copy, settled>>
    BY DEF GetRule, loadFilters, loadTransformations, Reading
  <1>2. rule = [payload |-> rule.payload, filters |-> rule.filters, transformations |-> rule.transformations]
    BY DEF IInv, Types, Rule
  <1>3. /\ job' = [at |-> job'.at, rule |-> job'.rule, quiet |-> job'.quiet] /\ job'.quiet \in BOOLEAN
        /\ job'.quiet => job'.rule = rule
    <2>1. CASE GetRule
      <3>1. job' = [at |-> "filters", rule |-> rule, quiet |-> TRUE]
        BY <2>1 DEF GetRule, Reading, NoJob
      <3> QED BY <3>1
    <2>2. CASE loadFilters
      <3>1. /\ job.at = "filters" /\ job' = [job EXCEPT !.at = "transformations", !.rule.filters = rule.filters]
        BY <2>2 DEF loadFilters, Reading
      <3>2. job' = [at |-> "transformations", rule |-> [job.rule EXCEPT !.filters = rule.filters],
                    quiet |-> job.quiet]
        BY <3>1 DEF IInv, Types
      <3>3. job.quiet => job.rule = rule
        BY <3>1 DEF IInv
      <3>4. [rule EXCEPT !.filters = rule.filters] = rule
        BY <1>2
      <3> QED BY <3>2, <3>3, <3>4 DEF IInv, Types
    <2>3. CASE loadTransformations
      <3>1. /\ job.at = "transformations"
            /\ job' = [job EXCEPT !.at = "sync", !.rule.transformations = rule.transformations]
        BY <2>3 DEF loadTransformations, Reading
      <3>2. job' = [at |-> "sync", rule |-> [job.rule EXCEPT !.transformations = rule.transformations],
                    quiet |-> job.quiet]
        BY <3>1 DEF IInv, Types
      <3>3. job.quiet => job.rule = rule
        BY <3>1 DEF IInv
      <3>4. [rule EXCEPT !.transformations = rule.transformations] = rule
        BY <1>2
      <3> QED BY <3>2, <3>3, <3>4 DEF IInv, Types
    <2> QED BY <2>1, <2>2, <2>3
  <1>4. rule' \in Rule /\ source' \in Event /\ FiniteCopy(copy') /\ settled' \in BOOLEAN
        /\ (settled' => Shows(copy', Wanted(rule', source')))
    BY <1>1 DEF IInv, Types
  <1> QED BY <1>1, <1>3, <1>4 DEF IInv, Types

\* A run that has read the rule as it is leaves what is wanted.
LEMMA SynchroniseShows ==
  ASSUME IInv, Synchronise
  PROVE  /\ FiniteCopy(copy')
         /\ job.quiet => Shows(copy', Wanted(rule, source))
  <1>1. copy' = Left(job.rule, source, copy) /\ job.at = "sync"
    BY DEF Synchronise, Left
  <1>2. FiniteCopy(copy')
    BY <1>1, LeftType DEF IInv, Types
  <1>3. ASSUME job.quiet PROVE Shows(copy', Wanted(rule, source))
    <2>1. job.rule = rule
      BY <1>1, <1>3 DEF IInv
    <2> QED BY <1>1, <2>1, LeftShows DEF IInv, Types
  <1> QED BY <1>2, <1>3

LEMMA NoJobType ==
  NoJob.at = "idle" /\ NoJob = [at |-> NoJob.at, rule |-> NoJob.rule, quiet |-> NoJob.quiet]
    /\ NoJob.quiet \in BOOLEAN
  BY DEF NoJob

LEMMA EditCopyType ==
  ASSUME IInv, EditCopy
  PROVE  FiniteCopy(copy')
  <1>1. copy \in Content /\ IsFiniteSet(copy.reminders) /\ source \in Content
    BY DEF EditCopy, IInv, Types, FiniteCopy, Event
  <1>2. source.title \in Seq(Words) /\ {10} \in SUBSET Int /\ {} \in SUBSET Int
        /\ {} \in SUBSET (Addresses \cup {Dummy(a) : a \in Addresses})
    BY <1>1 DEF Content
  <1>3. CASE copy' = [copy EXCEPT !.title = source.title]
    BY <1>1, <1>2, <1>3 DEF Content, FiniteCopy
  <1>4. CASE copy' = [copy EXCEPT !.reminders = {10}]
    <2>1. copy' \in Content /\ copy'.reminders = {10}
      BY <1>1, <1>2, <1>4 DEF Content
    <2> QED BY <2>1, FS_Singleton DEF FiniteCopy
  <1>5. CASE copy' = [copy EXCEPT !.reminders = {}]
    <2>1. copy' \in Content /\ copy'.reminders = {}
      BY <1>1, <1>2, <1>5 DEF Content
    <2> QED BY <2>1, FS_EmptySet DEF FiniteCopy
  <1>6. CASE copy' = [copy EXCEPT !.attendees = {}]
    BY <1>1, <1>2, <1>6 DEF Content, FiniteCopy
  <1> QED BY <1>3, <1>4, <1>5, <1>6 DEF EditCopy

LEMMA NextIInv == IInv /\ [Next]_vars => IInv'
  <1> SUFFICES ASSUME IInv, [Next]_vars PROVE IInv'
    OBVIOUS
  <1>1. CASE GetRule \/ loadFilters \/ loadTransformations
    BY <1>1, Reads
  <1>2. CASE Synchronise
    <2>1. job' = NoJob /\ UNCHANGED <<rule, source>> /\ settled' = job.quiet
      BY <1>2 DEF Synchronise
    <2> QED BY <1>2, <2>1, SynchroniseShows, NoJobType DEF IInv, Types
  <1>3. CASE GiveUp
    <2>1. job' = NoJob /\ UNCHANGED <<rule, source, copy, settled>>
      BY <1>3 DEF GiveUp
    <2> QED BY <2>1, NoJobType DEF IInv, Types
  <1>4. ASSUME NEW r \in Saves, UpdateRule(r) PROVE IInv'
    <2>1. rule' = r /\ settled' = FALSE /\ job' = [job EXCEPT !.quiet = FALSE] /\ UNCHANGED <<source, copy>>
      BY <1>4 DEF UpdateRule
    <2>2. job' = [at |-> job.at, rule |-> job.rule, quiet |-> FALSE]
      BY <2>1 DEF IInv, Types
    <2>3. rule' \in Rule
      BY <2>1, RuleAssumption
    <2> QED BY <2>1, <2>2, <2>3 DEF IInv, Types
  <1>5. ASSUME NEW e \in Edits, EditSource(e) PROVE IInv'
    <2>1. source' = e /\ settled' = (settled /\ Wanted(rule, e) = Wanted(rule, source))
          /\ UNCHANGED <<rule, copy, job>>
      BY <1>5 DEF EditSource
    <2>2. source' \in Event
      BY <2>1, EventAssumption
    <2>3. settled' => Shows(copy', Wanted(rule', source'))
      BY <2>1 DEF IInv
    <2>4. settled' \in BOOLEAN
      BY <2>1 DEF IInv, Types
    <2> QED BY <2>1, <2>2, <2>3, <2>4 DEF IInv, Types
  <1>6. CASE EditCopy
    <2>1. settled' = FALSE /\ UNCHANGED <<rule, source, job>>
      BY <1>6 DEF EditCopy
    <2> QED BY <1>6, <2>1, EditCopyType DEF IInv, Types
  <1>7. CASE UNCHANGED vars
    BY <1>7 DEF vars, IInv, Types
  <1> QED BY <1>1, <1>2, <1>3, <1>4, <1>5, <1>6, <1>7 DEF Next

LEMMA SpecIInv == Spec => []IInv
  BY InitIInv, NextIInv, PTL DEF Spec

\* Whatever rules are saved, and whatever earlier runs have left: a run that has
\* read the rule as it is makes the copy show exactly what the rule keeps of the
\* event, for every set of transformers, in whichever order it names them, and every
\* event (TransformerFactory, TransformEvent, IsSameEvent, CreateEvent, UpdateEvent).
THEOREM RunsShowWanted == Spec => SyncShowsWanted
  <1> DEFINE A == Synchronise /\ job.quiet => Shows(copy', Wanted(rule, source))
  <1>1. IInv => [A]_vars
    BY SynchroniseShows
  <1> HIDE DEF A
  <1>2. Spec => [][A]_vars
    BY <1>1, SpecIInv, PTL DEF Spec
  <1> QED BY <1>2 DEF A, SyncShowsWanted

\* A run after one that succeeded sends nothing, while nothing that the rule shows
\* has changed: the copy, converted to Google's form and back, compares equal to
\* what made it (calendarEventToEvent, IsSameEvent).
THEOREM SettledStaysQuiet == Spec => []SettledNeedsNothing
  <1>1. IInv => SettledNeedsNothing
    BY ShownNeedsNothing DEF IInv, Types, SettledNeedsNothing
  <1> QED BY <1>1, SpecIInv, PTL

\* TimeFrame loses no minute of the frame and TimeFilter removes what lies in it,
\* for every frame, every minute and the events they are made for, also over
\* midnight; neither goes further than the hour that begins at HourEnd.
THEOREM HoursAreKept == Spec => []TimeFiltersKeepHours
  <1>1. IInv => TimeFiltersKeepHours
    <2>1. SUFFICES ASSUME IInv, ~source.allDay PROVE TimeFiltersKeepHours
      BY DEF TimeFiltersKeepHours
    <2>2. source \in Event
      BY <2>1 DEF IInv, Types
    <2> QED BY <2>1, <2>2, HoursKept DEF TimeFiltersKeepHours
  <1> QED BY <1>1, SpecIInv, PTL
=============================================================================
