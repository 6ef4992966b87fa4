SPECIFICATION ExtensionSpec
PROPERTIES LawComesAbout UndertakingsEnd
CHECK_DEADLOCK FALSE
