--------------------------- MODULE MCMigrations ---------------------------
(* Files that releases before the migrations left: any columns, tables of a *)
(* later release missing, names and routes that collide, dangling rows.     *)
EXTENDS Migrations, TLC

R(a, s, active) == [app |-> a, server |-> s, domain |-> "d", active |-> active]
A(n, s, u) == [name |-> n, server |-> s, mode |-> "advanced", unique |-> u]

LegacyRoutes ==
  {<<>>, <<R(1, 1, TRUE), R(1, 1, TRUE)>>, <<R(1, 1, FALSE), R(2, 1, TRUE)>>,
   2 :> R(1, 2, TRUE), <<R(2, 1, TRUE), R(1, 1, TRUE)>>}

MCLegacy ==
  {[version |-> 0, tables |-> {"servers", "apps", "routes"} \cup other,
    columns |-> cs, cascades |-> {}, indexes |-> {},
    apps |-> as, servers |-> <<"x">>,
    rows |-> [t \in History |-> IF t = "routes" THEN rs
                               ELSE [i \in 1..Cardinality(other) |-> R(1, 1, TRUE)]],
    seq |-> [t \in History |-> IF t = "routes" THEN 2 ELSE Cardinality(other)]] :
      other \in {{}, History \ {"routes"}},
      cs \in {{"webhook_secret"}, {"unique_service_name", "compose_mode"}},
      as \in {<<A("x", 1, TRUE), A("x", 1, FALSE)>>, <<A("x", 1, TRUE), A("y", 1, FALSE)>>},
      rs \in LegacyRoutes}
=============================================================================
