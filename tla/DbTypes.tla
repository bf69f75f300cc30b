-------------------------------- MODULE DbTypes --------------------------------
(***************************************************************************)
(* The JDBC types of jpype.dbapi2 and how a column or a parameter finds    *)
(* its type: the tables of JDBCType objects, the global _registry, the     *)
(* default maps and the four lookup options SETTERS_BY_* and GETTERS_BY_*. *)
(*                                                                         *)
(* A type stands for itself by its _name, and the JDBC code of a type that *)
(* the module defines is written as that name.  A lookup that raises a     *)
(* KeyError answers NoKey.                                                 *)
(***************************************************************************)
EXTENDS Naturals

NoKey == "KeyError"
NoSetter == "None"

\* The types with a JDBC code.
Coded ==
  {"ARRAY", "BIGINT", "BINARY", "BIT", "BLOB", "BOOLEAN", "CHAR", "CLOB", "DATE", "DECIMAL",
   "DOUBLE", "FLOAT", "INTEGER", "LONGNVARCHAR", "LONGVARBINARY", "LONGVARCHAR", "NCHAR",
   "NCLOB", "NULL", "NUMERIC", "NVARCHAR", "OBJECT", "OTHER", "REAL", "REF", "RESULTSET",
   "ROWID", "SMALLINT", "SQLXML", "TIME", "TIMESTAMP", "TIMESTAMP_WITH_TIMEZONE",
   "TIME_WITH_TIMEZONE", "TINYINT", "VARBINARY", "VARCHAR"}

\* Aliases of DBAPI2 that are registered under their name only.
Aliases == {"NUMBER", "STRING", "TEXT"}

\* JDBCType.__init__ enters a type under its code and under its name.
registryCodes == [t \in Coded |-> t]
registryNames == [t \in Coded \cup Aliases |-> t]

\* _values: the names a type goes by.
Values(t) ==
  CASE t = "STRING" -> {"STRING", "CHAR", "NCHAR", "NVARCHAR", "VARCHAR", "OTHER"}
    [] t = "TEXT" -> {"TEXT", "CLOB", "LONGVARCHAR", "LONGNVARCHAR", "NCLOB", "SQLXML"}
    [] t = "BINARY" -> {"BINARY", "BLOB", "LONGVARBINARY", "VARBINARY"}
    [] t = "NUMBER" -> {"NUMBER", "BOOLEAN", "BIGINT", "BIT", "INTEGER", "SMALLINT", "TINYINT"}
    [] t = "FLOAT" -> {"FLOAT", "REAL", "DOUBLE"}
    [] t = "DECIMAL" -> {"DECIMAL", "NUMERIC"}
    [] OTHER -> {t}

\* JDBCType.__eq__: some name of one is a name of the other.
Same(t, u) == Values(t) \cap Values(u) # {}

-------------------------------------------------------------------------------
\* _default_map; a dict finds a key by hash(_name) first, that is by its name.
AsObject == {"ARRAY", "OBJECT", "NULL", "REF", "ROWID", "RESULTSET", "TIME_WITH_TIMEZONE",
             "TIMESTAMP_WITH_TIMEZONE", "OTHER"}
AsText == {"CHAR", "CLOB", "LONGNVARCHAR", "LONGVARCHAR", "NCHAR", "NCLOB", "NVARCHAR",
             "SQLXML", "STRING", "TEXT", "VARCHAR"}
AsBinary == {"BINARY", "BLOB", "LONGVARBINARY", "VARBINARY"}
AsItself == {"BIGINT", "BIT", "BOOLEAN", "DATE", "DECIMAL", "DOUBLE", "FLOAT", "INTEGER",
             "NUMBER", "NUMERIC", "REAL", "SMALLINT", "TIME", "TIMESTAMP", "TINYINT"}

AsMapped(t) == CASE t \in AsObject -> "OBJECT" [] t \in AsText -> "STRING"
                 [] t \in AsBinary -> "BINARY" [] OTHER -> t

\* Mutant: the types with a time zone were forgotten.
default_mapNoZone ==
  [t \in (AsObject \ {"TIME_WITH_TIMEZONE"}) \cup AsText \cup AsBinary \cup AsItself |-> AsMapped(t)]

default_map == [t \in AsObject \cup AsText \cup AsBinary \cup AsItself |-> AsMapped(t)]

At(f, key) == IF key \in DOMAIN f THEN f[key] ELSE NoKey
Put(f, key, value) == [x \in DOMAIN f \cup {key} |-> IF x = key THEN value ELSE f[x]]

\* GETTERS_BY_TYPE; col has the code and the type name that the driver reports.
GETTERS_BY_TYPE(codes, names, col) ==
  IF At(codes, col.code) = NoKey THEN NoKey
  ELSE IF Same(codes[col.code], "OTHER")
       THEN IF col.name \in DOMAIN names THEN names[col.name] ELSE codes[col.code]
       ELSE At(default_map, codes[col.code])

\* GETTERS_BY_NAME: the registered name goes before the code.
GETTERS_BY_NAME(codes, names, col) ==
  LET tp == IF col.name \in DOMAIN names THEN names[col.name] ELSE At(codes, col.code)
  IN  IF tp \in DOMAIN default_map THEN default_map[tp] ELSE tp

-------------------------------------------------------------------------------
\* Python types of a parameter.  Vendor classes implement one JDBC interface,
\* and every NClob is a Clob.
Vendor == [VArray |-> {"Array"}, VBlob |-> {"Blob"}, VClob |-> {"Clob"},
           VNClob |-> {"NClob", "Clob"}, VXml |-> {"SQLXML"}, VRef |-> {"Ref"}, VRowId |-> {"RowId"}]

default_adapters == [Decimal |-> "BigDecimal"]

\* The adapter of the parameter's type, if there is one, is applied to it.
Adapt(ptype) == IF ptype \in DOMAIN default_adapters THEN default_adapters[ptype] ELSE ptype

\* _default_setters and _default_setters_by_interface as _populateTypes fills them.
default_setters ==
  [String |-> "STRING", str |-> "STRING", JFloat |-> "REAL", BigDecimal |-> "DECIMAL",
   JShort |-> "INTEGER", JInt |-> "INTEGER", JLong |-> "BIGINT", int |-> "BIGINT",
   JDouble |-> "DOUBLE", float |-> "DOUBLE", JBoolean |-> "BOOLEAN", bool |-> "BOOLEAN",
   ByteArray |-> "BINARY", memoryview |-> "BINARY", bytes |-> "BINARY", bytearray |-> "BINARY",
   NoneType |-> "OBJECT", SqlDate |-> "DATE", date |-> "DATE", SqlTime |-> "TIME", time |-> "TIME",
   SqlTimestamp |-> "TIMESTAMP", datetime |-> "TIMESTAMP", Clob |-> "CLOB", Blob |-> "BLOB"]

default_setters_by_interface ==
  <<<<"Array", "ARRAY">>, <<"Blob", "BLOB">>, <<"Clob", "CLOB">>, <<"NClob", "NCLOB">>,
    <<"SQLXML", "SQLXML">>, <<"Ref", "REF">>, <<"RowId", "ROWID">>>>

\* SETTERS_BY_TYPE: the first interface of the list that the class implements.
SETTERS_BY_TYPE(ptype) ==
  IF ptype \in DOMAIN default_setters THEN default_setters[ptype]
  ELSE IF ptype \in DOMAIN Vendor
       THEN LET hits == {i \in DOMAIN default_setters_by_interface :
                           default_setters_by_interface[i][1] \in Vendor[ptype]}
            IN  default_setters_by_interface[CHOOSE i \in hits : \A j \in hits : i \leq j][2]
       ELSE NoSetter

\* SETTERS_BY_META
SETTERS_BY_META(codes, code) == At(default_map, At(codes, code))

-------------------------------------------------------------------------------
\* Types whose getter answers a Java primitive, which is zero for an SQL NULL.
PrimitiveGetter == {"BIGINT", "BIT", "BOOLEAN", "DOUBLE", "FLOAT", "INTEGER", "REAL",
                    "SMALLINT", "TINYINT"}

\* _JDBCTypePrimitive: the types whose get() asks wasNull about a zero.
Primitive == {"BIGINT", "BOOLEAN", "DOUBLE", "FLOAT", "INTEGER", "REAL", "SMALLINT", "TINYINT"}

\* JDBCType.get and _JDBCTypePrimitive.get of a value that is "null", "zero" or "some".
Get(t, value) ==
  IF value = "null" /\ t \in PrimitiveGetter
  THEN IF t \in Primitive THEN "None" ELSE "zero"
  ELSE IF value = "null" THEN "None" ELSE value
===============================================================================
