------------------------------ MODULE PhotosProofs ------------------------------
(***************************************************************************)
(* What a placement's rows, files and previews keep to, for every number   *)
(* of uploads in flight and every limit.  A number that a row has is held  *)
(* by no upload but those that were reading when the row's upload took it; *)
(* so what a rival-free row shows depends neither on the file times nor on *)
(* what earlier uploads left in the directory.                             *)
(***************************************************************************)
EXTENDS Photos, TLAPS

Row(i)      == rows[i].photo
NumberOf(u) == upload[u].name[1]

SharesName(u, v) == /\ v \in Uploads \ {u} /\ {u, v} \in twice
                    /\ upload[v].name = upload[u].name

(* RowsHavePhotos, of one row. *)
RowHolds(i) ==
  \/ \E v : SharesName(Row(i), v) /\ upload[v].at \in {"refused", "broken"}
  \/ Original(i).photo = Row(i)
  \/ SharesName(Row(i), Original(i).photo)

RowsAreStored ==
  \A i \in DOMAIN rows : /\ upload[Row(i)].at = "stored"
                         /\ rows[i].name = upload[Row(i)].name
                         /\ NumberOf(Row(i)) <= Len(rows)

NumbersRead == \A u \in Reading : NumberOf(u) <= Len(rows) + 1

(* Two that have the same number, reading or in a row, have it together. *)
ReadersMeet == \A u, v \in Reading : u # v /\ NumberOf(u) = NumberOf(v) => {u, v} \in twice
RowsMetReaders ==
  \A i \in DOMAIN rows, v \in Reading : NumberOf(Row(i)) = NumberOf(v) => {Row(i), v} \in twice
RowsMet ==
  \A i, j \in DOMAIN rows : i # j /\ NumberOf(Row(i)) = NumberOf(Row(j))
    => Row(i) # Row(j) /\ {Row(i), Row(j)} \in twice

NewMetNobody == \A u, v \in Uploads : upload[u].at = "new" => {u, v} \notin twice

(* There is no preview of a number that no row has. *)
ThumbsOfRows ==
  \A k \in Numbers : /\ thumb[k].photo \in Uploads \cup {None}
                     /\ (\A i \in DOMAIN rows : NumberOf(Row(i)) # k) => thumb[k].photo = None
ShownOfRows == \A i \in 1..MaxPhotos : i \notin DOMAIN rows => shown[i] = {}

Alone(i) == \A v \in Uploads \ {Row(i)} : {Row(i), v} \notin twice

AloneShown ==
  \A i \in DOMAIN rows : Alone(i) => /\ Original(i).photo = Row(i)
                                     /\ thumb[NumberOf(Row(i))].photo \in {None, Row(i)}
                                     /\ shown[i] \subseteq {Row(i)}

Met == ReadersMeet /\ RowsMetReaders /\ RowsMet /\ NewMetNobody

Inv == /\ TypeOK /\ PhotosBounded /\ RowsAreStored /\ NumbersRead /\ Met
       /\ ThumbsOfRows /\ ShownOfRows /\ AloneShown
       /\ \A i \in DOMAIN rows : RowHolds(i)

-----------------------------------------------------------------------------
LEMMA Typed ==
  ASSUME TypeOK
  PROVE  /\ Len(rows) \in Nat /\ DOMAIN rows = 1..Len(rows)
         /\ \A i \in DOMAIN rows : Row(i) \in Uploads /\ rows[i].name \in Names
         /\ \A u \in Uploads : upload[u].name \in Names /\ NumberOf(u) \in Numbers /\ NumberOf(u) \in Nat
         /\ MaxPhotos \in Nat
  <1>1. PICK records : records = [name: Names, photo: Uploads]
    OBVIOUS
  <1>2. /\ Len(rows) \in Nat /\ DOMAIN rows = 1..Len(rows)
        /\ \A i \in DOMAIN rows : rows[i] \in [name: Names, photo: Uploads]
    <2>1. rows \in Seq(records)
      BY <1>1 DEF TypeOK
    <2>2. Len(rows) \in Nat /\ DOMAIN rows = 1..Len(rows) /\ \A i \in DOMAIN rows : rows[i] \in records
      BY <2>1
    <2> QED
      BY <1>1, <2>2
  <1>3. \A u \in Uploads : upload[u].name \in Numbers \X Exts
    BY DEF TypeOK, Names
  <1>4. MaxPhotos \in Nat
    BY PhotosAssumption
  <1>5. \A k \in Numbers : k \in Nat
    BY <1>4 DEF Numbers
  <1> QED
    BY <1>2, <1>3, <1>4, <1>5 DEF Row, NumberOf, Names

(* What no step undoes. *)
Kept ==
  /\ \A v \in Uploads : upload[v].at # "new" => upload'[v].name = upload[v].name
  /\ \A v \in Uploads : upload[v].at \in {"stored", "refused", "broken"} => upload'[v] = upload[v]
  /\ \A v \in Uploads : upload'[v].at = "new" => upload[v].at = "new"
  /\ twice \subseteq twice'
  /\ \A u, v \in Uploads : upload[u].at = "stored" /\ {u, v} \in twice' => {u, v} \in twice

LEMMA Answered ==
  ASSUME TypeOK, NEW u \in Reading, NEW at \in {"stored", "refused", "broken"},
         Answer(u, at), UNCHANGED twice
  PROVE  /\ upload' \in [Uploads -> [at: {"new", "reading", "stored", "refused", "broken"}, name: Names]]
         /\ upload'[u].at = at
         /\ \A v \in Uploads : upload'[v].name = upload[v].name
         /\ \A v \in Uploads \ {u} : upload'[v] = upload[v]
         /\ Reading' = Reading \ {u} /\ Kept
  <1>1. u \in Uploads /\ upload[u].at = "reading"
        /\ upload \in [Uploads -> [at: {"new", "reading", "stored", "refused", "broken"}, name: Names]]
    BY DEF Reading, TypeOK
  <1>2. PICK new : new = [upload[u] EXCEPT !.at = at]
    OBVIOUS
  <1>3. /\ new.at = at /\ new.name = upload[u].name
        /\ new \in [at: {"new", "reading", "stored", "refused", "broken"}, name: Names]
    BY <1>1, <1>2
  <1>4. upload' = [upload EXCEPT ![u] = new]
    BY <1>2 DEF Answer
  <1>5. upload'[u] = new /\ \A v \in Uploads \ {u} : upload'[v] = upload[v]
    BY <1>1, <1>4
  <1>6. upload' \in [Uploads -> [at: {"new", "reading", "stored", "refused", "broken"}, name: Names]]
    BY <1>1, <1>3, <1>4
  <1>7. \A v \in Uploads : upload'[v].name = upload[v].name
    BY <1>3, <1>5
  <1>8. Reading' = Reading \ {u}
    BY <1>3, <1>5 DEF Reading
  <1>9. Kept
    BY <1>1, <1>3, <1>5, <1>7 DEF Kept
  <1> QED
    BY <1>3, <1>5, <1>6, <1>7, <1>8, <1>9

(* A row keeps what it holds when its file does, and so while a file of    *)
(* another name is written.                                                *)
LEMMA RowStillHolds ==
  ASSUME Inv, Kept, NEW i \in DOMAIN rows, rows'[i] = rows[i],
         file'[rows[i].name] = file[rows[i].name]
  PROVE  RowHolds(i)'
  <1>1. Row(i) \in Uploads /\ upload[Row(i)].at = "stored" /\ Row(i)' = Row(i)
        /\ Original(i)' = Original(i)
    BY Typed DEF Inv, RowsAreStored, Row, Original
  <1>2. ASSUME NEW v, SharesName(Row(i), v)
        PROVE  SharesName(Row(i), v)' /\ (upload[v].at \in {"refused", "broken"} => upload'[v].at = upload[v].at)
    <2>1. v \in Uploads /\ upload[v].at # "new"
      <3>1. {v, Row(i)} \in twice /\ v \in Uploads
        BY <1>2 DEF SharesName
      <3> QED
        BY <1>1, <3>1 DEF Inv, Met, NewMetNobody
    <2> QED
      BY <1>1, <1>2, <2>1 DEF SharesName, Kept
  <1> QED
    BY <1>1, <1>2 DEF Inv, RowHolds

(* The numbers that rows and readers hold stay theirs. *)
LEMMA RowStays ==
  ASSUME Inv, Kept, NEW i \in DOMAIN rows, rows'[i] = rows[i]
  PROVE  /\ Row(i) \in Uploads /\ Row(i)' = Row(i) /\ upload[Row(i)].at = "stored"
         /\ upload'[Row(i)] = upload[Row(i)]
         /\ NumberOf(Row(i))' = NumberOf(Row(i)) /\ NumberOf(Row(i)) \in Nat
         /\ Alone(i)' <=> Alone(i)
  <1>1. Row(i) \in Uploads /\ upload[Row(i)].at = "stored" /\ Row(i)' = Row(i)
    BY Typed DEF Inv, RowsAreStored, Row
  <1>2. upload'[Row(i)] = upload[Row(i)]
    BY <1>1 DEF Kept
  <1>3. \A v \in Uploads : {Row(i), v} \in twice' <=> {Row(i), v} \in twice
    BY <1>1 DEF Kept
  <1> QED
    BY <1>1, <1>2, <1>3, Typed DEF Inv, NumberOf, Alone

-----------------------------------------------------------------------------
LEMMA InvInit == Init => Inv
  <1> SUFFICES ASSUME Init PROVE Inv
    OBVIOUS
  <1>1. 1 \in Numbers /\ MaxPhotos \in Nat /\ MaxClock \in Nat
    BY PhotosAssumption DEF Numbers
  <1>2. upload \in [Uploads -> [at: {"new", "reading", "stored", "refused", "broken"}, name: Names]]
    BY <1>1 DEF Init, Names
  <1>3. \A u \in Uploads : upload[u].at = "new"
    BY DEF Init
  <1>4. Nothing \in File /\ Nothing.photo = None
    BY <1>1 DEF Nothing, File
  <1>5. TypeOK
    BY <1>1, <1>2, <1>4 DEF Init, TypeOK
  <1>6. rows = <<>> /\ Len(rows) = 0 /\ DOMAIN rows = {} /\ Reading = {} /\ twice = {}
    BY <1>3 DEF Init, Reading
  <1>7. ThumbsOfRows /\ ShownOfRows
    BY <1>4 DEF Init, ThumbsOfRows, ShownOfRows
  <1> QED
    BY <1>1, <1>5, <1>6, <1>7 DEF Inv, Met, PhotosBounded, RowsAreStored, NumbersRead, ReadersMeet,
       RowsMetReaders, RowsMet, NewMetNobody, AloneShown

LEMMA Received ==
  ASSUME Inv, NEW u \in Uploads, Receive(u)
  PROVE  Inv'
  <1>1. /\ upload[u].at = "new" /\ Len(rows) + 1 \in Numbers /\ Len(rows) \in Nat
        /\ upload \in [Uploads -> [at: {"new", "reading", "stored", "refused", "broken"}, name: Names]]
        /\ twice \subseteq SUBSET Uploads
        /\ UNCHANGED <<now, file, thumb, rows, shown>>
    BY Typed DEF Inv, TypeOK, Receive, NextNumber
  <1>2. PICK new : new = [at |-> "reading", name |-> <<Len(rows) + 1, upload[u].name[2]>>]
    OBVIOUS
  <1>3. upload' = [upload EXCEPT ![u] = new]
    BY <1>2 DEF Receive, NextNumber
  <1>4. PICK met : met = {w \in Reading : upload[w].name[1] = Len(rows) + 1}
    OBVIOUS
  <1>5. twice' = twice \cup {{u, v} : v \in met}
    BY <1>4 DEF Receive, NextNumber
  <1>6. /\ new.at = "reading" /\ new.name[1] = Len(rows) + 1 /\ new.name \in Names
        /\ new \in [at: {"new", "reading", "stored", "refused", "broken"}, name: Names]
    <2>1. upload[u].name[2] \in Exts
      BY <1>1 DEF Names
    <2>2. <<Len(rows) + 1, upload[u].name[2]>> \in Names
      BY <1>1, <2>1 DEF Names
    <2> QED
      BY <1>2, <2>2
  <1>7. upload'[u] = new /\ \A v \in Uploads \ {u} : upload'[v] = upload[v]
    BY <1>1, <1>3
  <1>8. u \notin Reading /\ Reading' = Reading \cup {u} /\ Reading \subseteq Uploads
    BY <1>1, <1>6, <1>7 DEF Reading
  <1>9. \A v \in met : v \in Reading /\ upload[v].at = "reading" /\ v \in Uploads
    BY <1>4 DEF Reading
  <1>10. Kept
    <2>1. ASSUME NEW a \in Uploads, NEW b \in Uploads, upload[a].at = "stored", {a, b} \in twice'
          PROVE  {a, b} \in twice
      <3>1. \A v \in met : a # u /\ a # v
        BY <1>1, <1>9, <2>1
      <3> QED
        BY <1>5, <2>1, <3>1
    <2> QED
      BY <1>1, <1>5, <1>6, <1>7, <2>1 DEF Kept
  <1>11. TypeOK'
    <2>1. upload' \in [Uploads -> [at: {"new", "reading", "stored", "refused", "broken"}, name: Names]]
      BY <1>1, <1>3, <1>6
    <2>2. twice' \subseteq SUBSET Uploads
      BY <1>1, <1>5, <1>9
    <2> QED
      BY <1>1, <2>1, <2>2 DEF Inv, TypeOK
  <1>12. /\ \A v \in Reading : NumberOf(v)' = NumberOf(v) /\ v # u
         /\ NumberOf(u)' = Len(rows) + 1
    BY <1>6, <1>7, <1>8 DEF NumberOf
  <1>13. \A i \in DOMAIN rows :
           /\ Row(i) \in Uploads /\ Row(i)' = Row(i) /\ NumberOf(Row(i))' = NumberOf(Row(i))
           /\ NumberOf(Row(i)) \in Nat /\ NumberOf(Row(i)) <= Len(rows)
           /\ upload'[Row(i)] = upload[Row(i)] /\ (Alone(i)' <=> Alone(i))
    BY <1>1, <1>10, RowStays DEF Inv, RowsAreStored
  <1>14. RowsAreStored' /\ NumbersRead'
    <2>1. RowsAreStored'
      BY <1>1, <1>13 DEF Inv, RowsAreStored
    <2>2. NumbersRead'
      BY <1>1, <1>8, <1>12 DEF Inv, NumbersRead
    <2> QED
      BY <2>1, <2>2
  <1>15. Met'
    <2>1. ReadersMeet'
      <3> SUFFICES ASSUME NEW v \in Reading', NEW w \in Reading', v # w, NumberOf(v)' = NumberOf(w)'
                   PROVE  {v, w} \in twice'
        BY DEF ReadersMeet
      <3>1. CASE v \in Reading /\ w \in Reading
        BY <1>5, <1>12, <3>1 DEF Inv, Met, ReadersMeet
      <3>2. CASE v = u /\ w \in Reading
        <4>1. w \in met
          BY <1>4, <1>12, <3>2 DEF NumberOf
        <4> QED
          BY <1>5, <3>2, <4>1
      <3>3. CASE w = u /\ v \in Reading
        <4>1. v \in met /\ {v, w} = {u, v}
          BY <1>4, <1>12, <3>3 DEF NumberOf
        <4> QED
          BY <1>5, <3>3, <4>1
      <3> QED
        BY <1>8, <3>1, <3>2, <3>3
    <2>2. RowsMetReaders'
      <3> SUFFICES ASSUME NEW i \in DOMAIN rows', NEW v \in Reading', NumberOf(Row(i))' = NumberOf(v)'
                   PROVE  {Row(i)', v} \in twice'
        BY DEF RowsMetReaders
      <3>1. v # u
        BY <1>1, <1>12, <1>13
      <3>2. v \in Reading /\ NumberOf(Row(i)) = NumberOf(v) /\ i \in DOMAIN rows
        BY <1>1, <1>8, <1>12, <1>13, <3>1
      <3> QED
        BY <1>5, <1>13, <3>2 DEF Inv, Met, RowsMetReaders
    <2>3. RowsMet'
      <3>1. twice \subseteq twice' /\ DOMAIN rows' = DOMAIN rows
        BY <1>1, <1>5
      <3> SUFFICES ASSUME NEW i \in DOMAIN rows, NEW j \in DOMAIN rows, i # j,
                          NumberOf(Row(i))' = NumberOf(Row(j))'
                   PROVE  Row(i)' # Row(j)' /\ {Row(i)', Row(j)'} \in twice'
        BY <3>1 DEF RowsMet
      <3> QED
        BY <1>13, <3>1 DEF Inv, Met, RowsMet
    <2>4. NewMetNobody'
      <3> SUFFICES ASSUME NEW a \in Uploads, NEW b \in Uploads, upload'[a].at = "new"
                   PROVE  {a, b} \notin twice'
        BY DEF NewMetNobody
      <3>1. a # u /\ upload[a].at = "new"
        BY <1>6, <1>7
      <3>2. \A v \in met : a # v
        BY <1>9, <3>1
      <3>3. {a, b} \notin twice
        BY <3>1 DEF Inv, Met, NewMetNobody
      <3> QED
        BY <1>5, <3>1, <3>2, <3>3
    <2> QED
      BY <2>1, <2>2, <2>3, <2>4 DEF Met
  <1>16. ThumbsOfRows' /\ ShownOfRows'
    BY <1>1, <1>13 DEF Inv, ThumbsOfRows, ShownOfRows
  <1>17. AloneShown'
    BY <1>1, <1>13 DEF Inv, AloneShown, Original
  <1>18. \A i \in DOMAIN rows' : RowHolds(i)'
    BY <1>1, <1>10, RowStillHolds
  <1> QED
    BY <1>1, <1>11, <1>14, <1>15, <1>16, <1>17, <1>18 DEF Inv, PhotosBounded

-----------------------------------------------------------------------------
(* What an answer leaves of the numbers, when the rows stay. *)
LEMMA AnsweredWithoutRow ==
  ASSUME Inv, NEW u \in Reading, NEW at \in {"refused", "broken"}, Answer(u, at),
         UNCHANGED <<now, thumb, rows, twice, shown>>,
         NEW f \in File, file' = [file EXCEPT ![upload[u].name] = f]
  PROVE  Inv'
  <1>1. /\ upload' \in [Uploads -> [at: {"new", "reading", "stored", "refused", "broken"}, name: Names]]
        /\ upload'[u].at = at
        /\ \A v \in Uploads : upload'[v].name = upload[v].name
        /\ Reading' = Reading \ {u} /\ Kept
    BY Answered DEF Inv
  <1>2. u \in Uploads /\ upload[u].at = "reading" /\ Reading \subseteq Uploads
    BY DEF Reading
  <1>3. file \in [Names -> File] /\ upload[u].name \in Names
    BY <1>2, Typed DEF Inv, TypeOK
  <1>4. TypeOK'
    <2>1. file' \in [Names -> File]
      BY <1>3
    <2> QED
      BY <1>1, <2>1 DEF Inv, TypeOK
  <1>5. \A v \in Uploads : NumberOf(v)' = NumberOf(v)
    BY <1>1 DEF NumberOf
  <1>6. \A i \in DOMAIN rows :
          /\ Row(i) \in Uploads /\ Row(i)' = Row(i) /\ NumberOf(Row(i))' = NumberOf(Row(i))
          /\ NumberOf(Row(i)) \in Nat /\ NumberOf(Row(i)) <= Len(rows) /\ upload[Row(i)].at = "stored"
          /\ upload'[Row(i)] = upload[Row(i)] /\ (Alone(i)' <=> Alone(i))
    BY <1>1, RowStays DEF Inv, RowsAreStored
  <1>7. RowsAreStored' /\ NumbersRead'
    <2>1. RowsAreStored'
      BY <1>6 DEF Inv, RowsAreStored
    <2>2. NumbersRead'
      BY <1>1, <1>2, <1>5 DEF Inv, NumbersRead
    <2> QED
      BY <2>1, <2>2
  <1>8. Met'
    <2>1. ReadersMeet'
      BY <1>1, <1>2, <1>5 DEF Inv, Met, ReadersMeet
    <2>2. RowsMetReaders'
      BY <1>1, <1>2, <1>5, <1>6 DEF Inv, Met, RowsMetReaders
    <2>3. RowsMet'
      BY <1>6 DEF Inv, Met, RowsMet
    <2>4. NewMetNobody'
      BY <1>1 DEF Inv, Met, NewMetNobody, Kept
    <2> QED
      BY <2>1, <2>2, <2>3, <2>4 DEF Met
  <1>9. ThumbsOfRows' /\ ShownOfRows'
    BY <1>6 DEF Inv, ThumbsOfRows, ShownOfRows
  \* A row with the file's name has met its writer.
  <1>10. ASSUME NEW i \in DOMAIN rows, rows[i].name = upload[u].name
         PROVE  SharesName(Row(i), u)' /\ ~Alone(i)
    <2>1. Row(i) # u /\ upload[Row(i)].name = upload[u].name
      BY <1>2, <1>6, <1>10 DEF Inv, RowsAreStored
    <2>2. {Row(i), u} \in twice
      BY <2>1 DEF Inv, Met, RowsMetReaders, NumberOf
    <2> QED
      BY <1>1, <1>2, <1>6, <2>1, <2>2 DEF SharesName, Alone
  <1>11. ASSUME NEW i \in DOMAIN rows, rows[i].name # upload[u].name
         PROVE  file'[rows[i].name] = file[rows[i].name]
    BY <1>3, <1>11, Typed DEF Inv
  <1>12. AloneShown'
    BY <1>6, <1>10, <1>11 DEF Inv, AloneShown, Original
  <1>13. \A i \in DOMAIN rows' : RowHolds(i)'
    <2> SUFFICES ASSUME NEW i \in DOMAIN rows PROVE RowHolds(i)'
      OBVIOUS
    <2>1. CASE rows[i].name = upload[u].name
      BY <1>1, <1>10, <2>1 DEF RowHolds
    <2>2. CASE rows[i].name # upload[u].name
      BY <1>1, <1>11, <2>2, RowStillHolds
    <2> QED
      BY <2>1, <2>2
  <1> QED
    BY <1>4, <1>7, <1>8, <1>9, <1>12, <1>13 DEF Inv, PhotosBounded

LEMMA RefusedOrBroken ==
  ASSUME Inv, NEW u \in Uploads, Refuse(u) \/ Break(u)
  PROVE  Inv'
  <1>1. now \in 0..MaxClock /\ u \in Uploads
    BY DEF Inv, TypeOK
  <1>2. CASE Refuse(u)
    <2>1. Nothing \in File
      BY PhotosAssumption DEF Nothing, File
    <2> QED
      BY <1>2, <2>1, AnsweredWithoutRow DEF Refuse
  <1>3. CASE Break(u)
    <2>1. PICK photo \in {u, Damaged} : Write(u, photo)
      BY <1>3 DEF Break
    <2>2. [photo |-> photo, mtime |-> now] \in File
      BY <1>1 DEF File
    <2> QED
      BY <1>3, <2>1, <2>2, AnsweredWithoutRow DEF Break, Write
  <1> QED
    BY <1>2, <1>3

LEMMA Stored ==
  ASSUME Inv, NEW u \in Uploads, Store(u)
  PROVE  Inv'
  <1>1. u \in Reading /\ Len(rows) < MaxPhotos /\ Answer(u, "stored") /\ UNCHANGED <<now, thumb, twice, shown>>
    BY DEF Store
  <1>2. /\ upload' \in [Uploads -> [at: {"new", "reading", "stored", "refused", "broken"}, name: Names]]
        /\ upload'[u].at = "stored"
        /\ \A v \in Uploads : upload'[v].name = upload[v].name
        /\ Reading' = Reading \ {u} /\ Kept
    BY <1>1, Answered DEF Inv
  <1>3. u \in Uploads /\ upload[u].at = "reading" /\ Reading \subseteq Uploads
    BY <1>1 DEF Reading
  <1>4. file \in [Names -> File] /\ upload[u].name \in Names /\ now \in 0..MaxClock
    BY <1>3, Typed DEF Inv, TypeOK
  <1>5. PICK record : record = [name |-> upload[u].name, photo |-> u]
    OBVIOUS
  <1>6. PICK f : f = [photo |-> u, mtime |-> now]
    OBVIOUS
  <1>7. /\ file' = [file EXCEPT ![upload[u].name] = f] /\ f \in File /\ f.photo = u
    BY <1>1, <1>4, <1>6 DEF Store, Write, File
  <1>8. /\ rows' = Append(rows, record) /\ record.name = upload[u].name /\ record.photo = u
        /\ record \in [name: Names, photo: Uploads]
    BY <1>3, <1>4, <1>5 DEF Store, Insert
  <1>9. PICK n \in Nat : n = Len(rows) /\ DOMAIN rows = 1..n
    BY Typed DEF Inv
  <1>10. /\ DOMAIN rows' = 1..(n + 1) /\ Len(rows') = n + 1 /\ rows'[n + 1] = record
         /\ \A i \in 1..n : rows'[i] = rows[i]
         /\ rows' \in Seq([name: Names, photo: Uploads])
    <2>1. PICK records : records = [name: Names, photo: Uploads]
      OBVIOUS
    <2>2. rows \in Seq(records) /\ record \in records
      BY <1>8, <2>1 DEF Inv, TypeOK
    <2>3. /\ rows' \in Seq(records) /\ Len(rows') = n + 1 /\ rows'[n + 1] = record
          /\ \A i \in 1..n : rows'[i] = rows[i]
      BY <1>8, <1>9, <2>2
    <2> QED
      BY <1>9, <2>1, <2>3
  <1>11. TypeOK'
    <2>1. file' \in [Names -> File]
      BY <1>4, <1>7
    <2> QED
      BY <1>1, <1>2, <1>10, <2>1 DEF Inv, TypeOK
  <1>12. \A v \in Uploads : NumberOf(v)' = NumberOf(v) /\ NumberOf(v) \in Nat
    BY <1>2, Typed DEF NumberOf, Inv
  <1>13. \A i \in 1..n :
          /\ Row(i) \in Uploads /\ Row(i)' = Row(i) /\ NumberOf(Row(i))' = NumberOf(Row(i))
          /\ NumberOf(Row(i)) \in Nat /\ NumberOf(Row(i)) <= n /\ upload[Row(i)].at = "stored"
          /\ upload'[Row(i)] = upload[Row(i)] /\ (Alone(i)' <=> Alone(i))
    BY <1>2, <1>9, <1>10, RowStays DEF Inv, RowsAreStored
  <1>14. Row(n + 1)' = u /\ NumberOf(Row(n + 1))' = NumberOf(u) /\ NumberOf(u) <= n + 1
    BY <1>1, <1>8, <1>9, <1>10, <1>12 DEF Row, NumberOf, Inv, NumbersRead
  <1>15. \A i \in 1..(n + 1) : i \in 1..n \/ i = n + 1
    OBVIOUS
  \* The new row has met the rows and the readers of its number.
  <1>16. /\ \A i \in 1..n : NumberOf(Row(i)) = NumberOf(u) => {Row(i), u} \in twice /\ Row(i) # u
         /\ \A v \in Reading' : NumberOf(v) = NumberOf(u) => {u, v} \in twice
    BY <1>1, <1>2, <1>3, <1>9, <1>13 DEF Inv, Met, RowsMetReaders, ReadersMeet
  <1>17. RowsAreStored'
    BY <1>2, <1>8, <1>10, <1>13, <1>14, <1>15, <1>9, <1>12 DEF Inv, RowsAreStored
  <1>18. NumbersRead'
    BY <1>2, <1>3, <1>9, <1>10, <1>12 DEF Inv, NumbersRead
  <1>19. Met'
    <2>1. ReadersMeet'
      BY <1>1, <1>2, <1>3, <1>12 DEF Inv, Met, ReadersMeet
    <2>2. RowsMetReaders'
      <3> SUFFICES ASSUME NEW i \in 1..(n + 1), NEW v \in Reading', NumberOf(Row(i))' = NumberOf(v)'
                   PROVE  {Row(i)', v} \in twice
        BY <1>1, <1>10 DEF RowsMetReaders
      <3>1. v \in Reading /\ NumberOf(v)' = NumberOf(v)
        BY <1>2, <1>3, <1>12
      <3>2. CASE i \in 1..n
        BY <1>9, <1>13, <3>1, <3>2 DEF Inv, Met, RowsMetReaders
      <3>3. CASE i = n + 1
        BY <1>14, <1>16, <3>1, <3>3
      <3> QED
        BY <1>15, <3>2, <3>3
    <2>3. RowsMet'
      <3> SUFFICES ASSUME NEW i \in 1..(n + 1), NEW j \in 1..(n + 1), i # j,
                          NumberOf(Row(i))' = NumberOf(Row(j))'
                   PROVE  Row(i)' # Row(j)' /\ {Row(i)', Row(j)'} \in twice
        BY <1>1, <1>10 DEF RowsMet
      <3>1. CASE i \in 1..n /\ j \in 1..n
        BY <1>9, <1>13, <3>1 DEF Inv, Met, RowsMet
      <3>2. CASE i = n + 1 /\ j \in 1..n
        <4>1. Row(j) # u /\ {Row(j), u} \in twice /\ {Row(j), u} = {u, Row(j)}
          BY <1>13, <1>14, <1>16, <3>2
        <4> QED
          BY <1>13, <1>14, <3>2, <4>1
      <3>3. CASE j = n + 1 /\ i \in 1..n
        BY <1>13, <1>14, <1>16, <3>3
      <3> QED
        BY <1>15, <3>1, <3>2, <3>3
    <2>4. NewMetNobody'
      BY <1>1, <1>2 DEF Inv, Met, NewMetNobody, Kept
    <2> QED
      BY <2>1, <2>2, <2>3, <2>4 DEF Met
  <1>20. ThumbsOfRows' /\ ShownOfRows'
    <2>1. ThumbsOfRows'
      BY <1>1, <1>9, <1>10, <1>13 DEF Inv, ThumbsOfRows
    <2>2. ShownOfRows'
      BY <1>1, <1>9, <1>10 DEF Inv, ShownOfRows
    <2> QED
      BY <2>1, <2>2
  <1>21. ASSUME NEW i \in 1..n, rows[i].name = upload[u].name
         PROVE  SharesName(Row(i), u)' /\ ~Alone(i)
    <2>1. Row(i) # u /\ upload[Row(i)].name = upload[u].name
      BY <1>3, <1>9, <1>13, <1>21 DEF Inv, RowsAreStored
    <2>2. {Row(i), u} \in twice
      BY <1>16, <2>1 DEF NumberOf
    <2> QED
      BY <1>1, <1>2, <1>3, <1>13, <2>1, <2>2 DEF SharesName, Alone
  <1>22. ASSUME NEW i \in 1..n, rows[i].name # upload[u].name
         PROVE  file'[rows[i].name] = file[rows[i].name]
    BY <1>4, <1>7, <1>9, <1>22, Typed DEF Inv
  <1>23. \A i \in DOMAIN rows' : RowHolds(i)'
    <2> SUFFICES ASSUME NEW i \in 1..(n + 1) PROVE RowHolds(i)'
      BY <1>10
    <2>1. CASE i \in 1..n /\ rows[i].name = upload[u].name
      <3>1. Original(i)'.photo = u
        BY <1>4, <1>7, <1>10, <2>1 DEF Original
      <3> QED
        BY <1>21, <2>1, <3>1 DEF RowHolds
    <2>2. CASE i \in 1..n /\ rows[i].name # upload[u].name
      BY <1>2, <1>9, <1>10, <1>22, <2>2, RowStillHolds
    <2>3. CASE i = n + 1
      <3>1. Original(i)'.photo = u
        BY <1>4, <1>7, <1>8, <1>10, <2>3 DEF Original
      <3> QED
        BY <1>14, <2>3, <3>1 DEF RowHolds
    <2> QED
      BY <1>15, <2>1, <2>2, <2>3
  <1>24. AloneShown'
    <2> SUFFICES ASSUME NEW i \in 1..(n + 1), Alone(i)'
                 PROVE  /\ Original(i)'.photo = Row(i)'
                        /\ thumb[NumberOf(Row(i))'].photo \in {None, Row(i)'}
                        /\ shown[i] \subseteq {Row(i)'}
      BY <1>1, <1>10 DEF AloneShown
    <2>1. CASE i \in 1..n
      BY <1>9, <1>10, <1>13, <1>21, <1>22, <2>1 DEF Inv, AloneShown, Original
    <2>2. CASE i = n + 1
      <3>1. Original(i)'.photo = u
        BY <1>4, <1>7, <1>8, <1>10, <2>2 DEF Original
      <3>2. \A j \in 1..n : NumberOf(Row(j)) # NumberOf(u)
        <4> SUFFICES ASSUME NEW j \in 1..n, NumberOf(Row(j)) = NumberOf(u) PROVE FALSE
          OBVIOUS
        <4>1. Row(j) \in Uploads \ {u} /\ {Row(j), u} \in twice /\ {Row(j), u} = {u, Row(j)}
          BY <1>13, <1>16
        <4> QED
          BY <1>1, <1>14, <2>2, <4>1 DEF Alone
      <3>3. thumb[NumberOf(u)].photo = None
        BY <1>3, <1>9, <3>2, Typed DEF Inv, ThumbsOfRows
      <3>4. shown[i] = {}
        BY <1>1, <1>9, <2>2, PhotosAssumption DEF Inv, ShownOfRows
      <3> QED
        BY <1>14, <2>2, <3>1, <3>3, <3>4
    <2> QED
      BY <1>15, <2>1, <2>2
  <1>25. PhotosBounded'
    BY <1>1, <1>9, <1>10, PhotosAssumption DEF PhotosBounded
  <1> QED
    BY <1>11, <1>17, <1>18, <1>19, <1>20, <1>23, <1>24, <1>25 DEF Inv

LEMMA Restarted ==
  ASSUME Inv, Restart
  PROVE  Inv'
  <1>1. /\ UNCHANGED <<now, file, thumb, rows, twice, shown>>
        /\ upload \in [Uploads -> [at: {"new", "reading", "stored", "refused", "broken"}, name: Names]]
    BY DEF Restart, Inv, TypeOK
  <1>2. \A u \in Uploads :
          /\ upload'[u].name = upload[u].name
          /\ upload[u].at = "reading" => upload'[u].at = "broken"
          /\ upload[u].at # "reading" => upload'[u] = upload[u]
    BY <1>1 DEF Restart, Reading
  <1>3. upload' \in [Uploads -> [at: {"new", "reading", "stored", "refused", "broken"}, name: Names]]
    BY <1>1 DEF Restart
  <1>4. Reading' = {} /\ Kept
    <2>1. Reading' = {}
      BY <1>2 DEF Reading
    <2>2. Kept
      BY <1>1, <1>2 DEF Kept
    <2> QED
      BY <2>1, <2>2
  <1>5. \A i \in DOMAIN rows :
          /\ Row(i) \in Uploads /\ Row(i)' = Row(i) /\ NumberOf(Row(i))' = NumberOf(Row(i))
          /\ upload'[Row(i)] = upload[Row(i)] /\ (Alone(i)' <=> Alone(i))
    BY <1>1, <1>4, RowStays
  <1>6. RowsAreStored' /\ NumbersRead'
    BY <1>1, <1>4, <1>5 DEF Inv, RowsAreStored, NumbersRead
  <1>7. ReadersMeet' /\ RowsMetReaders'
    BY <1>4 DEF ReadersMeet, RowsMetReaders
  <1>8. RowsMet' /\ NewMetNobody'
    BY <1>1, <1>4, <1>5 DEF Inv, Met, RowsMet, NewMetNobody, Kept
  <1>9. ThumbsOfRows' /\ ShownOfRows'
    BY <1>1, <1>5 DEF Inv, ThumbsOfRows, ShownOfRows
  <1>10. AloneShown'
    BY <1>1, <1>5 DEF Inv, AloneShown, Original
  <1>11. \A i \in DOMAIN rows' : RowHolds(i)'
    BY <1>1, <1>4, RowStillHolds
  <1> QED
    BY <1>1, <1>3, <1>6, <1>7, <1>8, <1>9, <1>10, <1>11 DEF Inv, TypeOK, Met, PhotosBounded

(* What a request for a preview leaves alone. *)
LEMMA OnlyPreviews ==
  ASSUME Inv, UNCHANGED <<file, rows, upload, twice>>
  PROVE  /\ PhotosBounded' /\ RowsAreStored' /\ NumbersRead' /\ Met'
         /\ \A i \in DOMAIN rows' : RowHolds(i)'
         /\ \A i \in DOMAIN rows :
              /\ Row(i)' = Row(i) /\ NumberOf(Row(i))' = NumberOf(Row(i)) /\ Original(i)' = Original(i)
              /\ Alone(i)' <=> Alone(i)
  <1>1. Kept
    BY DEF Kept
  <1>2. Reading' = Reading
    BY DEF Reading
  <1>3. \A i \in DOMAIN rows : RowHolds(i)'
    BY <1>1, RowStillHolds
  <1> QED
    BY <1>2, <1>3 DEF Inv, PhotosBounded, RowsAreStored, NumbersRead, Met, ReadersMeet, RowsMetReaders,
       RowsMet, NewMetNobody, Row, NumberOf, Original, Alone

LEMMA Previewed ==
  ASSUME Inv, NEW i \in 1..MaxPhotos, PreviewKept(i) \/ PreviewMade(i)
  PROVE  Inv'
  <1>1. i \in DOMAIN rows /\ UNCHANGED <<now, file, rows, upload, twice>>
    BY DEF PreviewKept, PreviewMade
  <1>2. /\ ThumbOf(i) = NumberOf(Row(i)) /\ NumberOf(Row(i)) \in Numbers /\ Row(i) \in Uploads
    BY <1>1, Typed DEF Inv, RowsAreStored, ThumbOf, NumberOf
  <1>3. PICK k \in Numbers : k = ThumbOf(i)
    BY <1>2
  \* The answer and the preview that is kept are the same photo.
  <1>4. PICK photo \in Uploads, f \in File :
          /\ shown' = [shown EXCEPT ![i] = @ \cup {photo}]
          /\ thumb' = [thumb EXCEPT ![k] = f] /\ f.photo = photo
          /\ Alone(i) => photo = Row(i)
    <2>1. thumb \in [Numbers -> File]
      BY DEF Inv, TypeOK
    <2>2. CASE PreviewKept(i)
      <3>1. thumb[k].photo \in Uploads /\ thumb[k] \in File
        BY <1>3, <2>1, <2>2 DEF PreviewKept, Fresh, Inv, ThumbsOfRows
      <3>2. thumb' = [thumb EXCEPT ![k] = thumb[k]]
        BY <2>1, <2>2 DEF PreviewKept
      <3>3. Alone(i) => thumb[k].photo = Row(i)
        BY <1>1, <1>2, <1>3, <2>2 DEF PreviewKept, Fresh, Inv, AloneShown
      <3>4. shown' = [shown EXCEPT ![i] = @ \cup {thumb[k].photo}]
        BY <1>3, <2>2 DEF PreviewKept, Show
      <3> QED
        BY <3>1, <3>2, <3>3, <3>4
    <2>3. CASE PreviewMade(i)
      <3>1. PICK f : f = [photo |-> Original(i).photo, mtime |-> now]
        OBVIOUS
      <3>2. f \in File /\ f.photo = Original(i).photo /\ Original(i).photo \in Uploads
        BY <2>3, <3>1 DEF PreviewMade, Inv, TypeOK, File
      <3>3. thumb' = [thumb EXCEPT ![k] = f] /\ shown' = [shown EXCEPT ![i] = @ \cup {Original(i).photo}]
        BY <1>3, <2>3, <3>1 DEF PreviewMade, Show
      <3>4. Alone(i) => Original(i).photo = Row(i)
        BY <1>1 DEF Inv, AloneShown
      <3> QED
        BY <3>2, <3>3, <3>4
    <2> QED
      BY <2>2, <2>3
  <1>5. thumb \in [Numbers -> File] /\ shown \in [1..MaxPhotos -> SUBSET Uploads]
    BY DEF Inv, TypeOK
  <1>6. /\ thumb'[k] = f /\ \A m \in Numbers \ {k} : thumb'[m] = thumb[m]
        /\ shown'[i] = shown[i] \cup {photo} /\ \A j \in (1..MaxPhotos) \ {i} : shown'[j] = shown[j]
    BY <1>4, <1>5
  <1>7. TypeOK'
    <2>1. thumb' \in [Numbers -> File] /\ shown' \in [1..MaxPhotos -> SUBSET Uploads]
      BY <1>4, <1>5
    <2> QED
      BY <1>1, <2>1 DEF Inv, TypeOK
  <1>8. \A j \in DOMAIN rows :
          /\ Row(j)' = Row(j) /\ NumberOf(Row(j))' = NumberOf(Row(j)) /\ Original(j)' = Original(j)
          /\ Alone(j)' <=> Alone(j)
    BY <1>1, OnlyPreviews
  <1>9. ThumbsOfRows'
    <2> SUFFICES ASSUME NEW m \in Numbers
                 PROVE  /\ thumb'[m].photo \in Uploads \cup {None}
                        /\ (\A j \in DOMAIN rows : NumberOf(Row(j)) # m) => thumb'[m].photo = None
      BY <1>1, <1>8 DEF ThumbsOfRows
    <2>1. CASE m = k
      BY <1>1, <1>2, <1>3, <1>4, <1>6, <2>1
    <2>2. CASE m # k
      BY <1>6, <2>2 DEF Inv, ThumbsOfRows
    <2> QED
      BY <2>1, <2>2
  <1>10. ShownOfRows'
    BY <1>1, <1>6 DEF Inv, ShownOfRows
  <1>11. AloneShown'
    <2> SUFFICES ASSUME NEW j \in DOMAIN rows, Alone(j)
                 PROVE  /\ Original(j).photo = Row(j)
                        /\ thumb'[NumberOf(Row(j))].photo \in {None, Row(j)}
                        /\ shown'[j] \subseteq {Row(j)}
      BY <1>1, <1>8 DEF AloneShown
    <2>1. /\ Original(j).photo = Row(j)
          /\ thumb[NumberOf(Row(j))].photo \in {None, Row(j)}
          /\ shown[j] \subseteq {Row(j)}
      BY DEF Inv, AloneShown
    <2>2. CASE j = i
      BY <1>2, <1>3, <1>4, <1>6, <2>1, <2>2
    <2>3. CASE j # i
      <3>1. j \in 1..MaxPhotos /\ NumberOf(Row(j)) \in Numbers /\ Row(j) \in Uploads
        BY Typed DEF Inv, PhotosBounded
      <3>2. NumberOf(Row(j)) # k
        <4> SUFFICES ASSUME NumberOf(Row(j)) = k PROVE FALSE
          OBVIOUS
        <4>1. {Row(j), Row(i)} \in twice
          BY <1>1, <1>2, <1>3, <2>3 DEF Inv, Met, RowsMet
        <4>2. Row(i) # Row(j)
          BY <1>1, <1>2, <1>3, <2>3 DEF Inv, Met, RowsMet
        <4> QED
          BY <1>2, <4>1, <4>2 DEF Alone
      <3> QED
        BY <1>6, <2>1, <2>3, <3>1, <3>2
    <2> QED
      BY <2>2, <2>3
  <1> QED
    BY <1>1, <1>7, <1>9, <1>10, <1>11, OnlyPreviews DEF Inv

LEMMA Ticked ==
  ASSUME Inv, Tick \/ UNCHANGED vars
  PROVE  Inv'
  <1>1. now' \in 0..MaxClock /\ UNCHANGED <<file, thumb, rows, upload, twice, shown>>
    BY PhotosAssumption DEF Tick, vars, Inv, TypeOK
  <1>2. TypeOK'
    BY <1>1 DEF Inv, TypeOK
  <1>3. \A i \in DOMAIN rows :
          /\ Row(i)' = Row(i) /\ NumberOf(Row(i))' = NumberOf(Row(i)) /\ Original(i)' = Original(i)
          /\ Alone(i)' <=> Alone(i)
    BY <1>1, OnlyPreviews
  <1>4. ThumbsOfRows' /\ ShownOfRows' /\ AloneShown'
    BY <1>1, <1>3 DEF Inv, ThumbsOfRows, ShownOfRows, AloneShown
  <1> QED
    BY <1>1, <1>2, <1>4, OnlyPreviews DEF Inv

LEMMA InvStep == Inv /\ [Next]_vars => Inv'
  BY Received, RefusedOrBroken, Stored, Restarted, Previewed, Ticked DEF Next

THEOREM Invariance == Spec => []Inv
  BY InvInit, InvStep, PTL DEF Spec

(* Files, previews, rows and the uploads' states keep their types. *)
THEOREM TypeCorrect == Spec => []TypeOK
  BY Invariance, PTL DEF Inv

(***************************************************************************)
(* However many uploads overlap, a placement never has more rows than      *)
(* MAX_PHOTOS_PER_PLACEMENT.                                               *)
(***************************************************************************)
THEOREM PhotosStayBounded == Spec => []PhotosBounded
  BY Invariance, PTL DEF Inv

(***************************************************************************)
(* A row's file is there and holds the photo the row was inserted for, or  *)
(* that of an upload that had the name with it, unless one of those was    *)
(* refused or broke off.                                                   *)
(***************************************************************************)
THEOREM RowsKeepPhotos == Spec => []RowsHavePhotos
  <1>1. Inv => RowsHavePhotos
    <2> SUFFICES ASSUME Inv, NEW i \in DOMAIN rows, NEW rival,
                        rival = {v \in Rivals(Row(i)) : upload[v].name = upload[Row(i)].name},
                        \A v \in rival : upload[v].at \notin {"refused", "broken"}
                 PROVE  Original(i).photo \in {Row(i)} \cup rival
      BY DEF RowsHavePhotos, Row
    <2>1. \A v : SharesName(Row(i), v) => v \in rival
      BY DEF SharesName, Rivals
    <2>2. RowHolds(i)
      BY DEF Inv
    <2> QED
      BY <2>1, <2>2 DEF RowHolds
  <1> QED
    BY <1>1, Invariance, PTL

(***************************************************************************)
(* A preview is never that of another photo, nor of an orphaned file of    *)
(* its number, whatever the file times say, unless two uploads had the     *)
(* number at once.                                                         *)
(***************************************************************************)
THEOREM PreviewsAreTrue == Spec => []PreviewsShowTheirPhoto
  <1>1. Inv => PreviewsShowTheirPhoto
    BY DEF Inv, AloneShown, Alone, PreviewsShowTheirPhoto, Rivals, Row
  <1> QED
    BY <1>1, Invariance, PTL
=============================================================================
