SPECIFICATION RuntimeSpec
PROPERTIES IngressSettles HoldsEnd
CHECK_DEADLOCK FALSE
