---------------------------- MODULE MCIngestion -----------------------------
(* Model values and bounds for checking Ingestion with TLC: five kinds of files, with *)
(* malformed lines, a name that a later file corrects, a company in two lines, one    *)
(* without Empresas and Simples, a partner in two lines, and a late file.             *)
EXTENDS Ingestion

CONSTANTS b1, b2, c1, c2, x, y, old, new, ana, bob

MCKind ==
  <<"Cnaes", "Empresas", "Empresas", "Estabelecimentos", "Estabelecimentos",
    "Simples", "Socios">>

Cnae(code) == [well |-> TRUE, code |-> code]
Empresa(b, n) == [well |-> TRUE, base |-> b, name |-> n]
Simples(b, s) == [well |-> TRUE, base |-> b, simples |-> s]
Line(c, b, main, others) == [well |-> TRUE, cnpj |-> c, base |-> b, main |-> main, others |-> others]
Socio(b, n) == [well |-> TRUE, base |-> b, partner |-> n]
Malformed == [well |-> FALSE]

\* The fifth is the late one.
MCRows ==
  << <<Cnae(x), Malformed, Cnae(y)>>,
     <<Empresa(b1, old), Malformed>>,
     <<Empresa(b1, new)>>,
     <<Line(c1, b1, x, {y}), Malformed, Line(c2, b2, Blank, {}), Line(c1, b1, y, {x})>>,
     <<Line(c2, b1, y, {})>>,
     <<Simples(b1, TRUE)>>,
     <<Socio(b1, ana), Socio(b1, bob), Socio(b1, ana)>> >>
=============================================================================
