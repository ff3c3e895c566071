------------------------------------ MODULE Query ------------------------------------
(***************************************************************************)
(* The query builder and its executor (query.py).  The conditions are      *)
(* groups that hold conditions and other groups; the builder keeps the     *)
(* outermost group and the one that is being filled, and or_where makes a  *)
(* new outermost group that shares what the old one holds.  Groups are     *)
(* therefore places here, and hold places.  Executing a query filters,     *)
(* orders, cuts, projects and makes distinct, in this order.               *)
(*                                                                         *)
(* Rows are functions from columns to numbers, 0 for None.                 *)
(***************************************************************************)
EXTENDS Naturals, Sequences, FiniteSets, SequencesExt

CONSTANTS
    DataSets,     \* tables that are queried: sequences of rows
    Conditions,   \* [column, operator, value] that are asked for
    MaxBuild      \* bound: calls of the builder

ASSUME QueryAssumption == \A condition \in Conditions : "group" \notin DOMAIN condition

VARIABLES
    data,      \* the table's rows
    groups,    \* every ConditionGroup made: [op, items]
    outer,     \* _conditions
    current,   \* _current_condition_group
    built,     \* the calls so far
    open       \* what they mean: the groups that are open, each with the rows of every condition it has

queryVars == <<data, groups, outer, current, built, open>>

-----------------------------------------------------------------------------
(* Evaluating *)

\* Condition.evaluate
Holds(condition, row) ==
    LET value == row[condition.column]
    IN  CASE condition.operator = "IS NULL"     -> value = 0
          [] condition.operator = "IS NOT NULL" -> value # 0
          [] condition.operator = "="  -> value # 0 /\ value = condition.value
          [] condition.operator = "!=" -> value # 0 /\ value # condition.value
          [] condition.operator = ">"  -> value # 0 /\ value > condition.value
          [] condition.operator = "<=" -> value # 0 /\ value <= condition.value

\* ConditionGroup.evaluate: the rows, by their places in the table, for which a group is
\* true.  A group of NOT is its first condition, as it stands.
Evaluate[g \in DOMAIN groups] ==
    LET items == groups[g].items
        True(item, i) == IF "group" \in DOMAIN item THEN i \in Evaluate[item.group] ELSE Holds(item, data[i])
    IN  {i \in DOMAIN data : items # <<>> =>
            CASE groups[g].op = "AND" -> \A k \in DOMAIN items : True(items[k], i)
              [] groups[g].op = "OR"  -> \E k \in DOMAIN items : True(items[k], i)
              [] groups[g].op = "NOT" -> True(items[1], i)}

\* The rows at some places, in order.
At(places) == LET sorted == SetToSortSeq(places, <) IN [i \in DOMAIN sorted |-> data[sorted[i]]]

Filtered == At(Evaluate[outer])

-----------------------------------------------------------------------------
(* Executing *)

\* make_sort_key, as one number for each row.
SortKey(row, orderBy) ==
    LET Key(ob) == IF row[ob.column] = 0 THEN (IF ob.nullsFirst THEN 0 ELSE 200) ELSE 100 + row[ob.column]
    IN  FoldLeft(LAMBDA sum, ob : 1000 * sum + Key(ob), 0, orderBy)

\* _apply_ordering: stable, and ascending if there are several columns, whatever they say.
Descends(orderBy) == Len(orderBy) = 1 /\ orderBy[1].descending

Ordered(rows, orderBy) ==
    LET K(i) == SortKey(rows[i], orderBy)
        Before(i, j) == \/ IF Descends(orderBy) THEN K(i) > K(j) ELSE K(i) < K(j)
                        \/ K(i) = K(j) /\ i < j
        Place(i) == 1 + Cardinality({j \in DOMAIN rows : Before(j, i)})
    IN  [place \in DOMAIN rows |-> rows[CHOOSE i \in DOMAIN rows : Place(i) = place]]

\* The offset, then the limit, if there is one (0: there is none).
Cut(rows, offset, limit) ==
    LET left == SubSeq(rows, offset + 1, Len(rows))
    IN  IF limit = 0 THEN left ELSE SubSeq(left, 1, IF limit > Len(left) THEN Len(left) ELSE limit)

Projected(rows, columns) == [i \in DOMAIN rows |-> [column \in columns |-> rows[i][column]]]

Unique(rows) == FoldLeft(LAMBDA seen, row : IF row \in ToSet(seen) THEN seen ELSE Append(seen, row), <<>>, rows)

\* execute, without aggregations, from the rows that are filtered and ordered.
Execute(rows, offset, limit, columns, distinct) ==
    LET answer == Projected(Cut(rows, offset, limit), columns)
    IN  IF distinct THEN Unique(answer) ELSE answer

\* paginate
Page(rows, page, perPage, columns, distinct) == Execute(rows, (page - 1) * perPage, perPage, columns, distinct)

\* _compute_aggregation: of the values that are not None.
SumOf(rows, column) == FoldLeft(LAMBDA sum, row : sum + row[column], 0, rows)
CountOf(rows, column) == Len(SelectSeq(rows, LAMBDA row : row[column] # 0))

\* _execute_aggregation with group_by: the rows of each value, None among them.
GroupsBy(rows, column) ==
    [value \in {rows[i][column] : i \in DOMAIN rows} |-> SelectSeq(rows, LAMBDA row : row[column] = value)]

-----------------------------------------------------------------------------
(* What the calls mean, in rows instead of groups. *)

AllRows == DOMAIN data
RowsOf(condition) == {i \in AllRows : Holds(condition, data[i])}

\* The rows of a group that is complete.
Meaning(op, sets) ==
    CASE sets = <<>>  -> AllRows
      [] sets # <<>> /\ op = "AND" -> {i \in AllRows : \A k \in DOMAIN sets : i \in sets[k]}
      [] sets # <<>> /\ op = "OR"  -> UNION Range(sets)
      [] sets # <<>> /\ op = "NOT" -> sets[1]

\* The rows of an open group, if it and those opened in it end here.
Complete[k \in DOMAIN open] ==
    Meaning(open[k].op, IF k = Len(open) THEN open[k].sets ELSE Append(open[k].sets, Complete[k + 1]))

\* The conditions of the outermost group, if those opened in it end here.
Closed == IF Len(open) = 1 THEN open[1].sets ELSE Append(open[1].sets, Complete[2])

Meant == Complete[1]

-----------------------------------------------------------------------------
(* Building *)

QueryInit ==
    /\ data \in DataSets
    /\ groups = <<[op |-> "AND", items |-> <<>>]>> /\ outer = 1 /\ current = 1
    /\ built = 0 /\ open = <<[op |-> "AND", sets |-> <<>>]>>

Builds == built < MaxBuild /\ built' = built + 1 /\ UNCHANGED data

\* More is put into the group that is being filled.
Filled(item) == [groups EXCEPT ![current] = [op |-> @.op, items |-> Append(@.items, item)]]

Where(condition) ==
    /\ Builds /\ groups' = Filled(condition)
    /\ open' = [open EXCEPT ![Len(open)] = [op |-> @.op, sets |-> Append(@.sets, RowsOf(condition))]]
    /\ UNCHANGED <<outer, current>>

\* The conditions so far and one more are alternatives.
Alternatives(condition) ==
    /\ Builds /\ groups' = Append(groups, [op |-> "OR", items |-> Append(groups[outer].items, condition)])
    /\ open' = <<[op |-> "OR", sets |-> Append(Closed, RowsOf(condition))]>>
    /\ outer' = Len(groups) + 1

\* Mutant: the new group is not the one that later conditions are put into.
OrWhereAside(condition) == Alternatives(condition) /\ UNCHANGED current

OrWhere(condition) == Alternatives(condition) /\ current' = Len(groups) + 1

GroupStart(op) ==
    /\ Builds /\ groups' = Append(Filled([group |-> Len(groups) + 1]), [op |-> op, items |-> <<>>])
    /\ open' = Append(open, [op |-> op, sets |-> <<>>])
    /\ current' = Len(groups) + 1 /\ UNCHANGED outer

\* To the outermost group, however many were started.
GroupEnd ==
    /\ Builds /\ open' = <<[op |-> open[1].op, sets |-> Closed]>>
    /\ current' = outer /\ UNCHANGED <<groups, outer>>

QueryNext ==
    \/ \E condition \in Conditions : Where(condition) \/ OrWhere(condition)
    \/ \E op \in {"AND", "OR", "NOT"} : GroupStart(op)
    \/ GroupEnd

QuerySpec == QueryInit /\ [][QueryNext]_queryVars

-----------------------------------------------------------------------------
\* The rows that are found are those that the calls mean, however groups are opened,
\* shared with a new outermost group, ended and left open.
FilterAsMeant == Evaluate[outer] = Meant

Columns == DOMAIN data[1]
OrderBys == [column : Columns, descending : BOOLEAN, nullsFirst : {FALSE}]

\* A query answers what its calls say, however groups are opened, shared and left open:
\* the rows that are in the meaning of its conditions (where one or_where makes of all
\* conditions alternatives); its pages, whatever their size and the order, hold each of
\* them once, or, distinct, each of their projections at least once and at most once a
\* page, in the order asked for (ascending, if there are several columns); and what is
\* counted and added up by group makes what is counted and added up of all.
QueryAnswers ==
    LET rows   == At(Meant)
        answer == Filtered
        Times(row, seq) == Cardinality({i \in DOMAIN seq : seq[i] = row})
        Pages(ordered, size, columns, distinct) ==
            [page \in 1 .. Len(rows) + 1 |-> Page(ordered, page, size, columns, distinct)]
    IN  /\ FilterAsMeant
        /\ \A ob \in OrderBys, other \in {<<>>} \cup {<<o>> : o \in OrderBys} :
              LET ordered == Ordered(answer, <<ob>> \o other)
                  pages(size) == FlattenSeq(Pages(ordered, size, Columns, FALSE))
                  Goes(a, b) == IF ob.descending /\ other = <<>> THEN a >= b ELSE a <= b
              IN  \A size \in 1 .. 2 :
                    LET all == pages(size)
                    IN  /\ Len(all) = Len(rows)
                        /\ \A row \in ToSet(rows) : Times(row, all) = Times(row, rows)
                        /\ \A i \in 2 .. Len(all) : Goes(SortKey(all[i - 1], <<ob>>), SortKey(all[i], <<ob>>))
        /\ \A size \in 1 .. 2, column \in Columns :
              LET pages == Pages(answer, size, {column}, TRUE)
              IN  /\ UNION {ToSet(pages[i]) : i \in DOMAIN pages} = ToSet(Projected(rows, {column}))
                  /\ \A i \in DOMAIN pages : Cardinality(ToSet(pages[i])) = Len(pages[i])
        /\ \A by, column \in Columns :
              LET grouped == GroupsBy(answer, by)
                  Total(Of(_, _)) == FoldFunction(+, 0, [value \in DOMAIN grouped |-> Of(grouped[value], column)])
              IN  Total(SumOf) = SumOf(rows, column) /\ Total(CountOf) = CountOf(rows, column)
=============================================================================
